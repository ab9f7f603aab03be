------------------------ MODULE ProjectLaunchProofs ------------------------
(* Theorems about ProjectLaunch, for any projects, workers and bounds. *)
EXTENDS ProjectLaunch, TLAPS

LEMMA TodayIsNat == ASSUME now \in Nat PROVE Today \in Nat
  BY DEF Today

LEMMA NextRunIsNat == ASSUME now \in Nat, NEW p \in Projects PROVE calculate_next_run(p) \in Nat
  BY TodayIsNat DEF calculate_next_run

LEMMA ThreadSorts ==
  /\ Workers \subseteq Threads
  /\ {"scheduler", "command", "bot"} \subseteq Threads
  BY DEF Threads, Callers

\* The part of TypeOK that says where threads are, and its complement.  For TypeOK
\* to be inductive, a thread inside a call has to have a project: it may queue it.
ThreadTypes ==
  /\ pc \in [Threads -> PCs]
  /\ job \in [Threads -> Projects \cup {NoProject}]
  /\ kind \in [Threads -> LaunchKinds \cup {"pending", "heal", "none"}]
  /\ launcher \in [Workers -> Threads \cup {NoThread}]
  /\ run_id \in [Workers -> Nat]
  /\ project_state_lock \in Threads \cup {NoThread}
  /\ \A t \in Threads : pc[t] \notin {"idle", "drain"} => job[t] \in Projects

DataTypes ==
  /\ locked \in [Projects -> BOOLEAN]
  /\ permits \in 0 .. PermitCap
  /\ project_workers \in [Projects -> Workers \cup {NoThread}]
  /\ active_run_ids \in [Projects -> Threads \cup {NoThread}]
  /\ pending_queue \in Seq(Projects)
  /\ pending_set \subseteq Projects
  /\ status \in [Projects -> {"Waiting", "Running", "Ended"}]
  /\ next_run \in [Projects -> Nat]
  /\ last_consumed_ticket \in [Projects -> Nat \cup {-1}]
  /\ execution_id \in [Projects -> Nat]
  /\ now \in Nat
  /\ current_date \in Nat

LEMMA TypeParts == ThreadTypes /\ DataTypes => TypeOK
  BY DEF TypeOK, ThreadTypes, DataTypes

\* A thread that moves to a position, calls or returns stays well typed.
LEMMA GotoTypes ==
  ASSUME ThreadTypes, NEW t \in Threads, pc[t] \notin {"idle", "drain"}, NEW l \in PCs, Goto(t, l), Stay
  PROVE  ThreadTypes'
  BY DEF ThreadTypes, Goto, Stay
LEMMA ReturnTypes ==
  ASSUME ThreadTypes, NEW t \in Threads, Return(t) PROVE ThreadTypes'
<1>1. "idle" \in PCs
  BY DEF PCs
<1>2. QED
  BY <1>1 DEF ThreadTypes, Return
LEMMA CallTypes ==
  ASSUME ThreadTypes, NEW t \in Threads, NEW p \in Projects \cup {NoProject},
         NEW k \in LaunchKinds \cup {"pending", "heal", "none"}, NEW l \in PCs, Call(t, p, k, l),
         p \in Projects \/ l = "drain",
         project_state_lock' \in Threads \cup {NoThread}
  PROVE  ThreadTypes'
  BY DEF ThreadTypes, Call, Goto

LEMMA PositionNames ==
  {"idle", "acquire", "recover", "unlock", "repair", "reacquire", "permit", "ticket", "claim",
   "register", "undo", "undo_permit", "spawn", "start", "drain", "due", "look", "ghost", "ghost_unlock",
   "ghost_permit", "created", "begin", "running", "process", "finished", "untrack",
   "release_lock", "release_permit"} \subseteq PCs
  BY DEF PCs, LaunchPCs, SchedulerPCs, WorkerPCs

LEMMA PermitTypes == ASSUME permits \in 0 .. PermitCap, ReleasePermitOnce PROVE permits' \in 0 .. PermitCap
  BY BoundAssumption DEF ReleasePermitOnce

TypeInv == ThreadTypes /\ DataTypes

LEMMA TypeInit == Init => TypeInv
  BY BoundAssumption, PositionNames DEF Init, TypeInv, ThreadTypes, DataTypes

LEMMA TypeStep == TypeInv /\ [Next]_vars => TypeInv'
<1> SUFFICES ASSUME ThreadTypes, DataTypes, [Next]_vars PROVE ThreadTypes' /\ DataTypes'
  BY DEF TypeInv
<1>1. ASSUME NEW p \in Projects, ConsiderScheduled(p) PROVE ThreadTypes' /\ DataTypes'
  <2>1. ThreadTypes'
    BY <1>1, CallTypes, PositionNames, ThreadSorts DEF ConsiderScheduled, LaunchKinds, ThreadTypes
  <2>2. DataTypes'
    BY <1>1 DEF ConsiderScheduled, DataTypes, slot, tracking, pending, ticket, clock
  <2>3. QED BY <2>1, <2>2
<1>2. ASSUME NEW p \in Projects, NEW k \in {"manual", "task"}, CommandRun(p, k) PROVE ThreadTypes' /\ DataTypes'
  <2>1. ThreadTypes'
    BY <1>2, CallTypes, PositionNames, ThreadSorts DEF CommandRun, LaunchKinds, ThreadTypes
  <2>2. DataTypes'
    BY <1>2 DEF CommandRun, DataTypes, slot, tracking, pending, ticket, clock
  <2>3. QED BY <2>1, <2>2
<1>3. ASSUME NEW p \in Projects, BotRun(p) PROVE ThreadTypes' /\ DataTypes'
  <2>1. ThreadTypes'
    BY <1>3, CallTypes, PositionNames, ThreadSorts DEF BotRun, LaunchKinds, ThreadTypes
  <2>2. DataTypes'
    BY <1>3 DEF BotRun, DataTypes, slot, tracking, pending, ticket, clock
  <2>3. QED BY <2>1, <2>2
<1>4. ASSUME NEW t \in Threads, AcquireLock(t) PROVE ThreadTypes' /\ DataTypes'
  <2>1. ThreadTypes'
    BY <1>4, GotoTypes, ReturnTypes, PositionNames DEF AcquireLock
  <2>2. DataTypes'
    BY <1>4 DEF AcquireLock, DataTypes, slot, tracking, pending, ticket, clock
  <2>3. QED BY <2>1, <2>2
<1>5. ASSUME NEW t \in Threads, RecoverCheck(t) PROVE ThreadTypes' /\ DataTypes'
  <2>1. ThreadTypes'
    BY <1>5, GotoTypes, ReturnTypes, PositionNames DEF RecoverCheck
  <2>2. DataTypes'
    BY <1>5 DEF RecoverCheck, DataTypes, slot, tracking, pending, ticket, clock
  <2>3. QED BY <2>1, <2>2
<1>6. ASSUME NEW t \in Threads, RecoverUnlock(t) PROVE ThreadTypes' /\ DataTypes'
  <2>1. ThreadTypes'
    BY <1>6, GotoTypes, ReturnTypes, PositionNames DEF RecoverUnlock
  <2>2. DataTypes'
    BY <1>6 DEF RecoverUnlock, DataTypes, slot, tracking, pending, ticket, clock
  <2>3. QED BY <2>1, <2>2
<1>7. ASSUME NEW t \in Threads, RecoverRepair(t) PROVE ThreadTypes' /\ DataTypes'
  <2>1. ThreadTypes'
    BY <1>7, GotoTypes, ReturnTypes, PositionNames DEF RecoverRepair
  <2>2. DataTypes'
    BY <1>7, NextRunIsNat DEF RecoverRepair, DataTypes, slot, tracking, pending, ticket, clock
  <2>3. QED BY <2>1, <2>2
<1>8. ASSUME NEW t \in Threads, Reacquire(t) PROVE ThreadTypes' /\ DataTypes'
  <2>1. ThreadTypes'
    BY <1>8, GotoTypes, ReturnTypes, PositionNames DEF Reacquire
  <2>2. DataTypes'
    BY <1>8 DEF Reacquire, DataTypes, slot, tracking, pending, ticket, clock
  <2>3. QED BY <2>1, <2>2
<1>9. ASSUME NEW t \in Threads, AcquirePermit(t) PROVE ThreadTypes' /\ DataTypes'
  <2>1. ThreadTypes'
    BY <1>9, GotoTypes, ReturnTypes, PositionNames DEF AcquirePermit
  <2>2. job[t] \in Projects
    BY <1>9 DEF AcquirePermit, ThreadTypes
  <2>3. /\ permits' \in 0 .. PermitCap
        /\ locked' \in [Projects -> BOOLEAN]
    <3>1. (permits > 0 /\ permits' = permits - 1) \/ permits' = permits
      BY <1>9 DEF AcquirePermit
    <3>2. locked' = locked \/ locked' = [locked EXCEPT ![job[t]] = FALSE]
      BY <1>9 DEF AcquirePermit
    <3>3. locked' \in [Projects -> BOOLEAN]
      BY <3>2 DEF DataTypes
    <3>4. permits \in 0 .. PermitCap /\ PermitCap \in Nat
      BY BoundAssumption DEF DataTypes
    <3>5. QED
      BY <3>1, <3>3, <3>4
  <2>4. pending_set' \in {pending_set, pending_set \cup {job[t]}}
        /\ pending_queue' \in {pending_queue, Append(pending_queue, job[t])}
    BY <1>9 DEF AcquirePermit, pending
  <2>5. pending_set' \subseteq Projects
    BY <2>2, <2>4 DEF DataTypes
  <2>6. Append(pending_queue, job[t]) \in Seq(Projects)
    BY <2>2 DEF DataTypes
  <2>7. pending_queue' \in Seq(Projects)
    BY <2>4, <2>6 DEF DataTypes
  <2>8. QED
    BY <1>9, <2>1, <2>3, <2>5, <2>7 DEF AcquirePermit, DataTypes, tracking, ticket, clock
<1>10. ASSUME NEW t \in Threads, ConsumeTicket(t) PROVE ThreadTypes' /\ DataTypes'
  <2>1. ThreadTypes'
    BY <1>10, GotoTypes, PositionNames DEF ConsumeTicket
  <2>2. last_consumed_ticket' \in [Projects -> Nat \cup {-1}]
    BY <1>10 DEF ConsumeTicket, DataTypes
  <2>3. execution_id' \in [Projects -> Nat]
    <3>1. \A q \in Projects : execution_id[q] + 1 \in Nat
      BY DEF DataTypes
    <3>2. QED
      BY <1>10, <3>1 DEF ConsumeTicket, DataTypes
  <2>4. pending_set' \subseteq Projects
    BY <1>10 DEF ConsumeTicket, DataTypes
  <2>5. QED
    BY <1>10, <2>1, <2>2, <2>3, <2>4 DEF ConsumeTicket, DataTypes, slot, tracking, clock
<1>11. ASSUME NEW t \in Threads, ClaimRun(t) PROVE ThreadTypes' /\ DataTypes'
  <2>1. ThreadTypes'
    BY <1>11, GotoTypes, ReturnTypes, PositionNames DEF ClaimRun
  <2>2. DataTypes'
    BY <1>11 DEF ClaimRun, DataTypes, slot, tracking, pending, ticket, clock
  <2>3. QED BY <2>1, <2>2
<1>12. ASSUME NEW t \in Threads, RegisterRun(t) PROVE ThreadTypes' /\ DataTypes'
  <2>1. ThreadTypes'
    BY <1>12, GotoTypes, ReturnTypes, PositionNames DEF RegisterRun
  <2>2. DataTypes'
    BY <1>12 DEF RegisterRun, DataTypes, slot, tracking, pending, ticket, clock
  <2>3. QED BY <2>1, <2>2
<1>13. ASSUME NEW t \in Threads, UndoLock(t) PROVE ThreadTypes' /\ DataTypes'
  <2>1. ThreadTypes'
    BY <1>13, GotoTypes, ReturnTypes, PositionNames DEF UndoLock
  <2>2. DataTypes'
    BY <1>13 DEF UndoLock, DataTypes, slot, tracking, pending, ticket, clock
  <2>3. QED BY <2>1, <2>2
<1>14. ASSUME NEW t \in Threads, UndoPermit(t) PROVE ThreadTypes' /\ DataTypes'
  <2>1. ThreadTypes'
    BY <1>14, GotoTypes, ReturnTypes, PositionNames DEF UndoPermit
  <2>2. DataTypes'
    BY <1>14, PermitTypes DEF UndoPermit, DataTypes, slot, tracking, pending, ticket, clock
  <2>3. QED BY <2>1, <2>2
<1>15. ASSUME NEW t \in Threads, Spawn(t) PROVE ThreadTypes' /\ DataTypes'
  <2>. DEFINE q == job[t]
  <2>1. q \in Projects
    BY <1>15 DEF Spawn, ThreadTypes
  <2>2. PICK w \in Workers :
          /\ pc[w] = "idle"
          /\ pc' = [pc EXCEPT ![t] = "start", ![w] = "created"]
          /\ job' = [job EXCEPT ![w] = q]
          /\ kind' = [kind EXCEPT ![w] = kind[t]]
          /\ launcher' = [launcher EXCEPT ![w] = t]
          /\ run_id' = [run_id EXCEPT ![w] = execution_id[q]]
          /\ active_run_ids' = [active_run_ids EXCEPT ![q] = IF Engine THEN w ELSE @]
          /\ project_workers' = [project_workers EXCEPT ![q] = TrackedWorker(t, w)]
    BY <1>15 DEF Spawn
  <2>3. w \in Threads /\ "start" \in PCs /\ "created" \in PCs
    BY ThreadSorts, PositionNames
  <2>4. UNCHANGED <<locked, permits, project_state_lock, pending_queue, status, next_run,
                    last_consumed_ticket, execution_id, now, current_date>>
    BY <1>15 DEF Spawn, slot, ticket, clock
  <2>5. run_id' \in [Workers -> Nat]
    BY <2>1, <2>2 DEF ThreadTypes, DataTypes
  <2>6. ThreadTypes'
    <3>1. pc' \in [Threads -> PCs] /\ job' \in [Threads -> Projects \cup {NoProject}]
      BY <2>1, <2>2, <2>3 DEF ThreadTypes
    <3>2. /\ kind' \in [Threads -> LaunchKinds \cup {"pending", "heal", "none"}]
          /\ launcher' \in [Workers -> Threads \cup {NoThread}]
      BY <2>2, <2>3 DEF ThreadTypes
    <3>3. \A u \in Threads : pc'[u] \notin {"idle", "drain"} => job'[u] \in Projects
      BY <2>1, <2>2, <2>3 DEF ThreadTypes
    <3>4. QED
      BY <2>4, <2>5, <3>1, <3>2, <3>3 DEF ThreadTypes
  <2>7. TrackedWorker(t, w) \in Workers \cup {NoThread}
    BY <2>1, <2>2 DEF TrackedWorker, DataTypes
  <2>8. active_run_ids' \in [Projects -> Threads \cup {NoThread}]
    BY <2>2, <2>3 DEF DataTypes
  <2>9. project_workers' \in [Projects -> Workers \cup {NoThread}]
    BY <2>2, <2>7 DEF DataTypes
  <2>10. pending_set' \subseteq Projects
    BY <1>15 DEF Spawn, DataTypes
  <2>11. DataTypes'
    BY <2>4, <2>8, <2>9, <2>10 DEF DataTypes
  <2>12. QED BY <2>6, <2>11
<1>16. ASSUME NEW t \in Threads, Drain(t) PROVE ThreadTypes' /\ DataTypes'
  <2>1. CASE pending_queue = << >>
    <3>1. ThreadTypes'
      BY <1>16, <2>1, ReturnTypes DEF Drain
    <3>2. DataTypes'
      BY <1>16, <2>1 DEF Drain, DataTypes, slot, tracking, pending, ticket, clock
    <3>3. QED BY <3>1, <3>2
  <2>2. CASE pending_queue # << >>
    <3>1. Head(pending_queue) \in Projects /\ Tail(pending_queue) \in Seq(Projects)
      BY <2>2 DEF DataTypes
    <3>2. ThreadTypes'
      BY <1>16, <2>2, <3>1, PositionNames DEF Drain, ThreadTypes
    <3>3. DataTypes'
      BY <1>16, <2>2, <3>1 DEF Drain, DataTypes, slot, tracking, ticket, clock
    <3>4. QED BY <3>2, <3>3
  <2>3. QED BY <2>1, <2>2
<1>17. ASSUME NEW w \in Workers, StartThread(w) PROVE ThreadTypes' /\ DataTypes'
  <2>1. ThreadTypes'
    BY <1>17, PositionNames, ThreadSorts DEF StartThread, ThreadTypes
  <2>2. DataTypes'
    BY <1>17 DEF StartThread, DataTypes, slot, tracking, pending, ticket, clock
  <2>3. QED BY <2>1, <2>2
<1>18. ASSUME NEW w \in Workers, StartFails(w) PROVE ThreadTypes' /\ DataTypes'
  <2>1. ThreadTypes'
    BY <1>18, PositionNames, ThreadSorts DEF StartFails, ThreadTypes
  <2>2. DataTypes'
    BY <1>18, PermitTypes, ThreadSorts DEF StartFails, DataTypes, slot, tracking, pending, ticket, clock
  <2>3. QED BY <2>1, <2>2
<1>19. ASSUME NEW w \in Workers, BeginRun(w) PROVE ThreadTypes' /\ DataTypes'
  <2>1. ThreadTypes'
    BY <1>19, GotoTypes, ReturnTypes, PositionNames, ThreadSorts DEF BeginRun
  <2>2. DataTypes'
    BY <1>19 DEF BeginRun, DataTypes, slot, tracking, pending, ticket, clock
  <2>3. QED BY <2>1, <2>2
<1>20. ASSUME NEW w \in Workers, StartProcess(w) PROVE ThreadTypes' /\ DataTypes'
  <2>1. ThreadTypes'
    BY <1>20, GotoTypes, ReturnTypes, PositionNames, ThreadSorts DEF StartProcess
  <2>2. DataTypes'
    BY <1>20 DEF StartProcess, DataTypes, slot, tracking, pending, ticket, clock
  <2>3. QED BY <2>1, <2>2
<1>21. ASSUME NEW w \in Workers, EndProcess(w) PROVE ThreadTypes' /\ DataTypes'
  <2>1. ThreadTypes'
    BY <1>21, GotoTypes, ReturnTypes, PositionNames, ThreadSorts DEF EndProcess
  <2>2. DataTypes'
    BY <1>21 DEF EndProcess, DataTypes, slot, tracking, pending, ticket, clock
  <2>3. QED BY <2>1, <2>2
<1>22. ASSUME NEW w \in Workers, FinishLogic(w) PROVE ThreadTypes' /\ DataTypes'
  <2>1. ThreadTypes'
    BY <1>22, GotoTypes, ReturnTypes, PositionNames, ThreadSorts DEF FinishLogic
  <2>2. DataTypes'
    <3>1. next_run' = next_run \/ next_run' = [next_run EXCEPT ![job[w]] = calculate_next_run(job[w])]
      BY <1>22 DEF FinishLogic, ticket
    <3>2. next_run' \in [Projects -> Nat]
      <4>1. next_run \in [Projects -> Nat] /\ \A q \in Projects : calculate_next_run(q) \in Nat
        BY NextRunIsNat DEF DataTypes
      <4>. HIDE DEF calculate_next_run
      <4>2. QED BY <3>1, <4>1
    <3>3. QED BY <1>22, <3>2 DEF FinishLogic, DataTypes, slot, tracking, pending, ticket, clock
  <2>3. QED BY <2>1, <2>2
<1>23. ASSUME NEW w \in Workers, UnregisterRun(w) PROVE ThreadTypes' /\ DataTypes'
  <2>1. ThreadTypes'
    BY <1>23, GotoTypes, ReturnTypes, PositionNames, ThreadSorts DEF UnregisterRun
  <2>2. DataTypes'
    BY <1>23 DEF UnregisterRun, DataTypes, slot, tracking, pending, ticket, clock
  <2>3. QED BY <2>1, <2>2
<1>24. ASSUME NEW w \in Workers, UntrackWorker(w) PROVE ThreadTypes' /\ DataTypes'
  <2>1. ThreadTypes'
    BY <1>24, GotoTypes, ReturnTypes, PositionNames, ThreadSorts DEF UntrackWorker
  <2>2. DataTypes'
    BY <1>24 DEF UntrackWorker, DataTypes, slot, tracking, pending, ticket, clock
  <2>3. QED BY <2>1, <2>2
<1>25. ASSUME NEW w \in Workers, ReleaseLock(w) PROVE ThreadTypes' /\ DataTypes'
  <2>1. ThreadTypes'
    BY <1>25, GotoTypes, ReturnTypes, PositionNames, ThreadSorts DEF ReleaseLock
  <2>2. DataTypes'
    BY <1>25 DEF ReleaseLock, DataTypes, slot, tracking, pending, ticket, clock
  <2>3. QED BY <2>1, <2>2
<1>26. ASSUME NEW w \in Workers, ReleasePermit(w) PROVE ThreadTypes' /\ DataTypes'
  <2>1. ThreadTypes'
    BY <1>26, GotoTypes, ReturnTypes, PositionNames, ThreadSorts DEF ReleasePermit
  <2>2. DataTypes'
    BY <1>26, PermitTypes DEF ReleasePermit, DataTypes, slot, tracking, pending, ticket, clock
  <2>3. QED BY <2>1, <2>2
<1>27. ASSUME NEW p \in Projects, HealProject(p) PROVE ThreadTypes' /\ DataTypes'
  <2>1. ThreadTypes'
    <3>1. PICK l \in {"recover", "look"} : Call("scheduler", p, "heal", l)
      BY <1>27 DEF HealProject
    <3>2. l \in PCs /\ "scheduler" \in Threads
      BY <3>1, PositionNames, ThreadSorts
    <3>3. QED BY <1>27, <3>1, <3>2, CallTypes DEF HealProject, ThreadTypes
  <2>2. DataTypes'
    BY <1>27 DEF HealProject, DataTypes, slot, tracking, pending, ticket, clock
  <2>3. QED BY <2>1, <2>2
<1>28. ASSUME HealBranch("scheduler") PROVE ThreadTypes' /\ DataTypes'
  <2>1. ThreadTypes'
    BY <1>28, GotoTypes, ReturnTypes, PositionNames, ThreadSorts DEF HealBranch
  <2>2. DataTypes'
    BY <1>28 DEF HealBranch, DataTypes, slot, tracking, pending, ticket, clock
  <2>3. QED BY <2>1, <2>2
<1>29. ASSUME CheckTicket("scheduler") PROVE ThreadTypes' /\ DataTypes'
  <2>1. ThreadTypes'
    BY <1>29, ReturnTypes, PositionNames, ThreadSorts DEF CheckTicket, ThreadTypes, Goto
  <2>2. DataTypes'
    BY <1>29 DEF CheckTicket, DataTypes, slot, tracking, pending, ticket, clock
  <2>3. QED BY <2>1, <2>2
<1>30. ASSUME GhostStatus("scheduler") PROVE ThreadTypes' /\ DataTypes'
  <2>1. ThreadTypes'
    BY <1>30, GotoTypes, ReturnTypes, PositionNames, ThreadSorts DEF GhostStatus
  <2>2. DataTypes'
    BY <1>30, NextRunIsNat DEF GhostStatus, DataTypes, slot, tracking, pending, ticket, clock
  <2>3. QED BY <2>1, <2>2
<1>31. ASSUME GhostUnlock("scheduler") PROVE ThreadTypes' /\ DataTypes'
  <2>1. ThreadTypes'
    BY <1>31, GotoTypes, ReturnTypes, PositionNames, ThreadSorts DEF GhostUnlock
  <2>2. DataTypes'
    BY <1>31 DEF GhostUnlock, DataTypes, slot, tracking, pending, ticket, clock
  <2>3. QED BY <2>1, <2>2
<1>32. ASSUME GhostPermit("scheduler") PROVE ThreadTypes' /\ DataTypes'
  <2>1. ThreadTypes'
    BY <1>32, GotoTypes, ReturnTypes, PositionNames, ThreadSorts DEF GhostPermit
  <2>2. DataTypes'
    BY <1>32, PermitTypes DEF GhostPermit, DataTypes, slot, tracking, pending, ticket, clock
  <2>3. QED BY <2>1, <2>2
<1>33. ASSUME SchedulerDrain PROVE ThreadTypes' /\ DataTypes'
  <2>1. ThreadTypes'
    BY <1>33, CallTypes, PositionNames, ThreadSorts DEF SchedulerDrain, ThreadTypes
  <2>2. DataTypes'
    BY <1>33 DEF SchedulerDrain, DataTypes, slot, tracking, pending, ticket, clock
  <2>3. QED BY <2>1, <2>2
<1>34. ASSUME DailyReset PROVE ThreadTypes' /\ DataTypes'
  <2>1. ThreadTypes'
    BY <1>34 DEF DailyReset, ThreadTypes, threads
  <2>2. DataTypes'
    BY <1>34, TodayIsNat, NextRunIsNat DEF DailyReset, DataTypes, slot, tracking, pending, ticket, clock
  <2>3. QED BY <2>1, <2>2
<1>35. ASSUME Tick PROVE ThreadTypes' /\ DataTypes'
  <2>1. ThreadTypes'
    BY <1>35 DEF Tick, ThreadTypes, threads
  <2>2. DataTypes'
    BY <1>35 DEF Tick, DataTypes, slot, tracking, pending, ticket, clock
  <2>3. QED BY <2>1, <2>2
<1>36. ASSUME BoundsReached PROVE ThreadTypes' /\ DataTypes'
  <2>1. ThreadTypes'
    BY <1>36 DEF BoundsReached, ThreadTypes, vars, threads
  <2>2. DataTypes'
    BY <1>36 DEF BoundsReached, DataTypes, slot, tracking, pending, ticket, clock, vars
  <2>3. QED BY <2>1, <2>2
<1>37. CASE UNCHANGED vars
  BY <1>37 DEF ThreadTypes, DataTypes, vars, threads, slot, tracking, pending, ticket, clock
<1>. QED
  BY <1>1, <1>2, <1>3, <1>4, <1>5, <1>6, <1>7, <1>8, <1>9, <1>10, <1>11, <1>12, <1>13, <1>14, <1>15, <1>16, <1>17, <1>18, <1>19, <1>20, <1>21, <1>22, <1>23, <1>24, <1>25, <1>26, <1>27, <1>28, <1>29, <1>30, <1>31, <1>32, <1>33, <1>34, <1>35, <1>36, <1>37 DEF Next, LaunchStep, RunStep, HealStep

LEMMA TypeInvariance == Spec => []TypeInv
  BY TypeInit, TypeStep, PTL DEF Spec

\* Every variable of the launch code keeps its type.
THEOREM TypeCorrect == Spec => []TypeOK
<1>1. TypeInv => TypeOK
  BY TypeParts DEF TypeInv
<1>2. QED BY <1>1, TypeInvariance, PTL
-----------------------------------------------------------------------------
(* At most one run of a project at a time.  The argument: from the step that *)
(* registers a run to the one that takes it out, the entry of its project in *)
(* active_run_ids is its thread.  The locks play no part in it.              *)

RegisteredPCs == {"spawn", "created", "begin", "running", "process", "finished"}
Registered(t) == pc[t] \in RegisteredPCs
RunInv == \A t \in Threads : Registered(t) => active_run_ids[job[t]] = t

\* No thread becomes registered, and none that stays so changes its project.
RegistrationKept ==
  \A u \in Threads : pc'[u] \in RegisteredPCs => Registered(u) /\ job'[u] = job[u]

LEMMA KeptRunInv == ASSUME RunInv, RegistrationKept, UNCHANGED active_run_ids PROVE RunInv'
  BY DEF RunInv, RegistrationKept, Registered

LEMMA GotoKeeps ==
  ASSUME ThreadTypes, NEW t \in Threads, NEW l, Goto(t, l), Stay,
         l \notin RegisteredPCs \/ Registered(t)
  PROVE  RegistrationKept
  BY DEF ThreadTypes, Goto, Stay, RegistrationKept, Registered

LEMMA ReturnKeeps == ASSUME ThreadTypes, NEW t \in Threads, Return(t) PROVE RegistrationKept
  BY DEF ThreadTypes, Return, RegistrationKept, Registered, RegisteredPCs

LEMMA CallKeeps ==
  ASSUME ThreadTypes, NEW t \in Threads, NEW p, NEW k, NEW l, Call(t, p, k, l), l \notin RegisteredPCs
  PROVE  RegistrationKept
  BY DEF ThreadTypes, Call, Goto, RegistrationKept, Registered

LEMMA RunInit == Init => RunInv
  BY DEF Init, RunInv, Registered, RegisteredPCs

LEMMA RunStepKeepsRunInv ==
  ASSUME Engine = TRUE, TypeInv, RunInv, [Next]_vars PROVE RunInv'
<1>. USE DEF tracking
<1>0. ThreadTypes /\ DataTypes
  BY DEF TypeInv
<1>1. ASSUME NEW p \in Projects, ConsiderScheduled(p) PROVE RunInv'
  <2>1. RegistrationKept /\ UNCHANGED active_run_ids
    BY <1>0, <1>1, CallKeeps, ThreadSorts DEF ConsiderScheduled, RegisteredPCs
  <2>2. QED BY <2>1, KeptRunInv
<1>2. ASSUME NEW p \in Projects, NEW k \in {"manual", "task"}, CommandRun(p, k) PROVE RunInv'
  <2>1. RegistrationKept /\ UNCHANGED active_run_ids
    BY <1>0, <1>2, CallKeeps, ThreadSorts DEF CommandRun, RegisteredPCs
  <2>2. QED BY <2>1, KeptRunInv
<1>3. ASSUME NEW p \in Projects, BotRun(p) PROVE RunInv'
  <2>1. RegistrationKept /\ UNCHANGED active_run_ids
    BY <1>0, <1>3, CallKeeps, ThreadSorts DEF BotRun, RegisteredPCs
  <2>2. QED BY <2>1, KeptRunInv
<1>4. ASSUME NEW t \in Threads, AcquireLock(t) PROVE RunInv'
  <2>1. RegistrationKept /\ UNCHANGED active_run_ids
    BY <1>0, <1>4, GotoKeeps, ReturnKeeps DEF AcquireLock, RegisteredPCs
  <2>2. QED BY <2>1, KeptRunInv
<1>5. ASSUME NEW t \in Threads, RecoverCheck(t) PROVE RunInv'
  <2>1. RegistrationKept /\ UNCHANGED active_run_ids
    BY <1>0, <1>5, GotoKeeps, ReturnKeeps DEF RecoverCheck, RegisteredPCs
  <2>2. QED BY <2>1, KeptRunInv
<1>6. ASSUME NEW t \in Threads, RecoverUnlock(t) PROVE RunInv'
  <2>1. RegistrationKept /\ UNCHANGED active_run_ids
    BY <1>0, <1>6, GotoKeeps, ReturnKeeps DEF RecoverUnlock, RegisteredPCs
  <2>2. QED BY <2>1, KeptRunInv
<1>7. ASSUME NEW t \in Threads, RecoverRepair(t) PROVE RunInv'
  <2>1. RegistrationKept /\ UNCHANGED active_run_ids
    BY <1>0, <1>7, GotoKeeps, ReturnKeeps DEF RecoverRepair, RegisteredPCs
  <2>2. QED BY <2>1, KeptRunInv
<1>8. ASSUME NEW t \in Threads, Reacquire(t) PROVE RunInv'
  <2>1. RegistrationKept /\ UNCHANGED active_run_ids
    BY <1>0, <1>8, GotoKeeps, ReturnKeeps DEF Reacquire, RegisteredPCs
  <2>2. QED BY <2>1, KeptRunInv
<1>9. ASSUME NEW t \in Threads, AcquirePermit(t) PROVE RunInv'
  <2>1. RegistrationKept /\ UNCHANGED active_run_ids
    BY <1>0, <1>9, GotoKeeps, ReturnKeeps DEF AcquirePermit, RegisteredPCs
  <2>2. QED BY <2>1, KeptRunInv
<1>10. ASSUME NEW t \in Threads, ConsumeTicket(t) PROVE RunInv'
  <2>1. RegistrationKept /\ UNCHANGED active_run_ids
    BY <1>0, <1>10, GotoKeeps, ReturnKeeps DEF ConsumeTicket, RegisteredPCs
  <2>2. QED BY <2>1, KeptRunInv
<1>11. ASSUME NEW t \in Threads, ClaimRun(t) PROVE RunInv'
  <2>1. RegistrationKept /\ UNCHANGED active_run_ids
    BY <1>0, <1>11, GotoKeeps, ReturnKeeps DEF ClaimRun, RegisteredPCs
  <2>2. QED BY <2>1, KeptRunInv
<1>12. ASSUME NEW t \in Threads, RegisterRun(t) PROVE RunInv'
  <2>. DEFINE p == job[t]
  <2>1. p \in Projects /\ pc[t] = "register" /\ (Registered(t)' => job'[t] = p)
    BY <1>0, <1>12 DEF RegisterRun, ThreadTypes, Stay, Return, Registered, RegisteredPCs
  <2>2. CASE active_run_ids[p] = NoThread
    <3>1. /\ active_run_ids' = [active_run_ids EXCEPT ![p] = t]
          /\ \A u \in Threads \ {t} : pc'[u] = pc[u] /\ job'[u] = job[u]
      BY <1>0, <1>12, <2>2 DEF RegisterRun, Goto, Stay, Return, ThreadTypes
    <3>2. SUFFICES ASSUME NEW u \in Threads, pc'[u] \in RegisteredPCs PROVE active_run_ids'[job'[u]] = u
      BY DEF RunInv, Registered
    <3>3. CASE u = t
      <4>1. p \in DOMAIN active_run_ids /\ job'[u] = p
        BY <1>0, <2>1, <3>2, <3>3 DEF DataTypes, Registered
      <4>2. QED BY <3>1, <3>3, <4>1
    <3>4. CASE u # t
      <4>1. Registered(u) /\ active_run_ids[job[u]] = u
        BY <3>1, <3>2, <3>4 DEF RunInv, Registered, ThreadTypes
      <4>2. job[u] # p
        BY <4>1, <2>2, ThreadAssumption
      <4>3. QED BY <2>1, <3>1, <4>1, <4>2 DEF DataTypes
    <3>5. QED BY <3>3, <3>4
  <2>3. CASE active_run_ids[p] # NoThread
    <3>1. RegistrationKept /\ UNCHANGED active_run_ids
      BY <1>0, <1>12, <2>3, GotoKeeps DEF RegisterRun, RegisteredPCs
    <3>2. QED BY <3>1, KeptRunInv
  <2>4. QED BY <2>2, <2>3
<1>13. ASSUME NEW t \in Threads, UndoLock(t) PROVE RunInv'
  <2>1. RegistrationKept /\ UNCHANGED active_run_ids
    BY <1>0, <1>13, GotoKeeps, ReturnKeeps DEF UndoLock, RegisteredPCs
  <2>2. QED BY <2>1, KeptRunInv
<1>14. ASSUME NEW t \in Threads, UndoPermit(t) PROVE RunInv'
  <2>1. RegistrationKept /\ UNCHANGED active_run_ids
    BY <1>0, <1>14, GotoKeeps, ReturnKeeps DEF UndoPermit, RegisteredPCs
  <2>2. QED BY <2>1, KeptRunInv
<1>15. ASSUME NEW t \in Threads, Spawn(t) PROVE RunInv'
  <2>. DEFINE p == job[t]
  <2>1. p \in Projects /\ active_run_ids[p] = t
    BY <1>0, <1>15 DEF Spawn, ThreadTypes, RunInv, Registered, RegisteredPCs
  <2>2. PICK w \in Workers :
          /\ pc[w] = "idle"
          /\ pc' = [pc EXCEPT ![t] = "start", ![w] = "created"]
          /\ job' = [job EXCEPT ![w] = p]
          /\ active_run_ids' = [active_run_ids EXCEPT ![p] = w]
    BY <1>0, <1>15 DEF Spawn
  <2>3. p \in DOMAIN active_run_ids /\ DOMAIN job = Threads /\ DOMAIN pc = Threads /\ w \in Threads
    BY <1>0, <2>1, ThreadSorts DEF ThreadTypes, DataTypes
  <2>. HIDE DEF p
  <2>4. SUFFICES ASSUME NEW u \in Threads, pc'[u] \in RegisteredPCs PROVE active_run_ids'[job'[u]] = u
    BY DEF RunInv, Registered
  <2>5. w # t
    BY <1>15, <2>2 DEF Spawn
  <2>6. u # t
    BY <2>2, <2>3, <2>4, <2>5 DEF RegisteredPCs
  <2>7. CASE u = w
    <3>1. job'[u] = p /\ active_run_ids'[p] = w
      BY <2>2, <2>3, <2>7
    <3>2. QED BY <2>7, <3>1
  <2>8. CASE u # w
    <3>1. pc'[u] = pc[u] /\ job'[u] = job[u]
      BY <2>2, <2>3, <2>6, <2>8
    <3>2. active_run_ids[job[u]] = u
      BY <2>4, <3>1 DEF RunInv, Registered
    <3>3. job[u] # p
      BY <2>1, <2>6, <3>2
    <3>4. QED BY <2>2, <3>1, <3>2, <3>3
  <2>9. QED BY <2>7, <2>8
<1>16. ASSUME NEW t \in Threads, Drain(t) PROVE RunInv'
  <2>1. UNCHANGED active_run_ids
    BY <1>16 DEF Drain
  <2>2. CASE Return(t)
    BY <1>0, <2>1, <2>2, ReturnKeeps, KeptRunInv
  <2>3. CASE ~Return(t)
    <3>1. /\ pc' = [pc EXCEPT ![t] = "acquire"]
          /\ job' = [job EXCEPT ![t] = Head(pending_queue)]
      BY <1>16, <2>3 DEF Drain
    <3>2. RegistrationKept
      BY <1>0, <3>1 DEF RegisteredPCs, RegistrationKept, Registered, ThreadTypes
    <3>3. QED BY <2>1, <3>2, KeptRunInv
  <2>4. QED BY <2>2, <2>3
<1>17. ASSUME NEW w \in Workers, StartThread(w) PROVE RunInv'
  <2>1. RegistrationKept /\ UNCHANGED active_run_ids
    BY <1>0, <1>17, ThreadSorts DEF StartThread, RegisteredPCs, RegistrationKept, Registered, ThreadTypes
  <2>2. QED BY <2>1, KeptRunInv
<1>18. ASSUME NEW w \in Workers, StartFails(w) PROVE RunInv'
  <2>. DEFINE p == job[w]
  <2>1. w \in Threads /\ p \in Projects /\ active_run_ids[p] = w
    BY <1>0, <1>18, ThreadSorts DEF StartFails, ThreadTypes, RunInv, Registered, RegisteredPCs
  <2>2. PICK t : /\ pc' = [pc EXCEPT ![w] = "idle", ![t] = "idle"]
                 /\ job' = [job EXCEPT ![w] = NoProject, ![t] = NoProject]
    BY <1>18 DEF StartFails
  <2>3. active_run_ids' \in {active_run_ids, [active_run_ids EXCEPT ![p] = NoThread]}
    BY <1>18 DEF StartFails, slot
  <2>. HIDE DEF p
  <2>4. SUFFICES ASSUME NEW u \in Threads, pc'[u] \in RegisteredPCs PROVE active_run_ids'[job'[u]] = u
    BY DEF RunInv, Registered
  <2>5. pc \in [Threads -> PCs] /\ DOMAIN job = Threads /\ "idle" \notin RegisteredPCs
    BY <1>0 DEF ThreadTypes, RegisteredPCs
  <2>6. u # w /\ u # t
    BY <2>1, <2>2, <2>4, <2>5
  <2>7. pc'[u] = pc[u] /\ job'[u] = job[u]
    BY <2>2, <2>5, <2>6
  <2>8. active_run_ids[job[u]] = u
    BY <2>4, <2>7 DEF RunInv, Registered
  <2>9. job[u] # p
    BY <2>1, <2>6, <2>8
  <2>10. CASE active_run_ids' = active_run_ids
    BY <2>7, <2>8, <2>10
  <2>11. CASE active_run_ids' = [active_run_ids EXCEPT ![p] = NoThread]
    <3>1. job[u] \in DOMAIN active_run_ids
      BY <1>0, <2>4, <2>7 DEF ThreadTypes, DataTypes, RegisteredPCs
    <3>2. QED BY <2>7, <2>8, <2>9, <2>11, <3>1
  <2>12. QED BY <2>3, <2>10, <2>11
<1>19. ASSUME NEW w \in Workers, BeginRun(w) PROVE RunInv'
  <2>1. RegistrationKept /\ UNCHANGED active_run_ids
    BY <1>0, <1>19, GotoKeeps, ThreadSorts DEF BeginRun, RegisteredPCs, Registered
  <2>2. QED BY <2>1, KeptRunInv
<1>20. ASSUME NEW w \in Workers, StartProcess(w) PROVE RunInv'
  <2>1. RegistrationKept /\ UNCHANGED active_run_ids
    BY <1>0, <1>20, GotoKeeps, ThreadSorts DEF StartProcess, RegisteredPCs, Registered
  <2>2. QED BY <2>1, KeptRunInv
<1>21. ASSUME NEW w \in Workers, EndProcess(w) PROVE RunInv'
  <2>1. RegistrationKept /\ UNCHANGED active_run_ids
    BY <1>0, <1>21, GotoKeeps, ThreadSorts DEF EndProcess, RegisteredPCs, Registered
  <2>2. QED BY <2>1, KeptRunInv
<1>22. ASSUME NEW w \in Workers, FinishLogic(w) PROVE RunInv'
  <2>1. RegistrationKept /\ UNCHANGED active_run_ids
    BY <1>0, <1>22, GotoKeeps, ThreadSorts DEF FinishLogic, RegisteredPCs, Registered
  <2>2. QED BY <2>1, KeptRunInv
<1>23. ASSUME NEW w \in Workers, UnregisterRun(w) PROVE RunInv'
  <2>. DEFINE p == job[w]
  <2>1. w \in Threads /\ p \in Projects /\ active_run_ids[p] = w
    BY <1>0, <1>23, ThreadSorts DEF UnregisterRun, ThreadTypes, RunInv, Registered, RegisteredPCs
  <2>2. PICK l \in {"release_lock", "untrack", "idle"} : pc' = [pc EXCEPT ![w] = l]
    BY <1>0, <1>23 DEF UnregisterRun, Goto, Return
  <2>a. l \notin RegisteredPCs
    BY DEF RegisteredPCs
  <2>3. /\ \A u \in Threads \ {w} : job'[u] = job[u]
        /\ active_run_ids' = [active_run_ids EXCEPT ![p] = NoThread]
    BY <1>0, <1>23 DEF UnregisterRun, Stay, Return, ThreadTypes
  <2>4. SUFFICES ASSUME NEW u \in Threads, pc'[u] \in RegisteredPCs PROVE active_run_ids'[job'[u]] = u
    BY DEF RunInv, Registered
  <2>5. u # w
    BY <1>0, <2>1, <2>2, <2>4, <2>a DEF ThreadTypes
  <2>6. Registered(u) /\ active_run_ids[job[u]] = u
    BY <1>0, <2>2, <2>4, <2>5 DEF RunInv, Registered, ThreadTypes
  <2>7. job[u] # p
    BY <2>1, <2>5, <2>6
  <2>8. job[u] \in DOMAIN active_run_ids \/ active_run_ids'[job[u]] = active_run_ids[job[u]]
    BY <2>3, <2>7
  <2>9. QED BY <2>3, <2>6, <2>7, <2>8
<1>24. ASSUME NEW w \in Workers, UntrackWorker(w) PROVE RunInv'
  <2>1. RegistrationKept /\ UNCHANGED active_run_ids
    BY <1>0, <1>24, GotoKeeps, ReturnKeeps, ThreadSorts DEF UntrackWorker, RegisteredPCs
  <2>2. QED BY <2>1, KeptRunInv
<1>25. ASSUME NEW w \in Workers, ReleaseLock(w) PROVE RunInv'
  <2>1. RegistrationKept /\ UNCHANGED active_run_ids
    BY <1>0, <1>25, GotoKeeps, ReturnKeeps, ThreadSorts DEF ReleaseLock, RegisteredPCs
  <2>2. QED BY <2>1, KeptRunInv
<1>26. ASSUME NEW w \in Workers, ReleasePermit(w) PROVE RunInv'
  <2>1. RegistrationKept /\ UNCHANGED active_run_ids
    BY <1>0, <1>26, GotoKeeps, ReturnKeeps, ThreadSorts DEF ReleasePermit, RegisteredPCs
  <2>2. QED BY <2>1, KeptRunInv
<1>27. ASSUME NEW p \in Projects, HealProject(p) PROVE RunInv'
  <2>1. RegistrationKept /\ UNCHANGED active_run_ids
    BY <1>0, <1>27, CallKeeps, ThreadSorts DEF HealProject, RegisteredPCs
  <2>2. QED BY <2>1, KeptRunInv
<1>28. ASSUME HealBranch("scheduler") PROVE RunInv'
  <2>1. RegistrationKept /\ UNCHANGED active_run_ids
    BY <1>0, <1>28, GotoKeeps, ReturnKeeps, ThreadSorts DEF HealBranch, RegisteredPCs
  <2>2. QED BY <2>1, KeptRunInv
<1>29. ASSUME CheckTicket("scheduler") PROVE RunInv'
  <2>1. RegistrationKept /\ UNCHANGED active_run_ids
    BY <1>0, <1>29, ReturnKeeps, ThreadSorts DEF CheckTicket, RegisteredPCs, RegistrationKept, Registered, ThreadTypes, Goto
  <2>2. QED BY <2>1, KeptRunInv
<1>30. ASSUME GhostStatus("scheduler") PROVE RunInv'
  <2>1. RegistrationKept /\ UNCHANGED active_run_ids
    BY <1>0, <1>30, GotoKeeps, ReturnKeeps, ThreadSorts DEF GhostStatus, RegisteredPCs
  <2>2. QED BY <2>1, KeptRunInv
<1>31. ASSUME GhostUnlock("scheduler") PROVE RunInv'
  <2>1. RegistrationKept /\ UNCHANGED active_run_ids
    BY <1>0, <1>31, GotoKeeps, ReturnKeeps, ThreadSorts DEF GhostUnlock, RegisteredPCs
  <2>2. QED BY <2>1, KeptRunInv
<1>32. ASSUME GhostPermit("scheduler") PROVE RunInv'
  <2>1. RegistrationKept /\ UNCHANGED active_run_ids
    BY <1>0, <1>32, GotoKeeps, ReturnKeeps, ThreadSorts DEF GhostPermit, RegisteredPCs
  <2>2. QED BY <2>1, KeptRunInv
<1>33. ASSUME SchedulerDrain PROVE RunInv'
  <2>1. RegistrationKept /\ UNCHANGED active_run_ids
    BY <1>0, <1>33, CallKeeps, ThreadSorts DEF SchedulerDrain, RegisteredPCs
  <2>2. QED BY <2>1, KeptRunInv
<1>34. ASSUME DailyReset PROVE RunInv'
  <2>1. RegistrationKept /\ UNCHANGED active_run_ids
    BY <1>0, <1>34 DEF DailyReset, RegisteredPCs, RegistrationKept, Registered, threads, vars
  <2>2. QED BY <2>1, KeptRunInv
<1>35. ASSUME Tick PROVE RunInv'
  <2>1. RegistrationKept /\ UNCHANGED active_run_ids
    BY <1>0, <1>35 DEF Tick, RegisteredPCs, RegistrationKept, Registered, threads, vars
  <2>2. QED BY <2>1, KeptRunInv
<1>36. ASSUME BoundsReached PROVE RunInv'
  <2>1. RegistrationKept /\ UNCHANGED active_run_ids
    BY <1>0, <1>36 DEF BoundsReached, RegisteredPCs, RegistrationKept, Registered, threads, vars
  <2>2. QED BY <2>1, KeptRunInv
<1>37. CASE UNCHANGED vars
  BY <1>37 DEF vars, threads, RunInv, Registered
<1>. QED
  BY <1>1, <1>2, <1>3, <1>4, <1>5, <1>6, <1>7, <1>8, <1>9, <1>10, <1>11, <1>12, <1>13, <1>14, <1>15, <1>16, <1>17, <1>18, <1>19, <1>20, <1>21, <1>22, <1>23, <1>24, <1>25, <1>26, <1>27, <1>28, <1>29, <1>30, <1>31, <1>32, <1>33, <1>34, <1>35, <1>36, <1>37 DEF Next, LaunchStep, RunStep, HealStep

LEMMA RunInvariance == ASSUME Engine = TRUE PROVE Spec => [](TypeInv /\ RunInv)
<1>1. TypeInv /\ RunInv /\ [Next]_vars => (TypeInv /\ RunInv)'
  BY TypeStep, RunStepKeepsRunInv
<1>2. QED
  BY TypeInit, RunInit, <1>1, PTL DEF Spec

\* In the engine no project is executed by two workers at a time, for any number of
\* launching threads, permits and failures, although locks are taken away by recovery.
THEOREM OneRun == ASSUME Engine = TRUE PROVE Spec => []OneRunPerProject
<1>1. TypeInv /\ RunInv => OneRunPerProject
  BY ThreadSorts DEF TypeInv, RunInv, OneRunPerProject, Executing, Registered, RegisteredPCs
<1>2. QED
  BY <1>1, RunInvariance, PTL
-----------------------------------------------------------------------------
(* A project shown as Running has a run.  The argument: only the worker that *)
(* set the status leaves its run, and it takes the status with it.  What has *)
(* to be known besides is that a launch that fails or ends moves its own     *)
(* worker and its own launcher, and nobody who runs.                         *)

LaunchersWait ==
  /\ \A w \in Workers : pc[w] = "created" => launcher[w] \in Threads /\ pc[launcher[w]] = "start"
  /\ \A v, w \in Workers : pc[v] = "created" /\ pc[w] = "created" /\ launcher[v] = launcher[w] => v = w

\* The worker of a single task that raises leaves Running behind.
TasksEnd == "script_error" \notin Faults

StatusInv == (TasksEnd => RunningHasARun) /\ LaunchersWait

\* One thread moves, from and to where no run and no new worker is concerned.
Quiet(t) ==
  /\ pc[t] \notin {"start", "created", "running", "process"}
  /\ pc'[t] \notin {"start", "created"}
  /\ \A u \in Threads \ {t} : pc'[u] = pc[u] /\ job'[u] = job[u]
  /\ UNCHANGED launcher

NoNewRunning == \A p \in Projects : status'[p] = "Running" => status[p] = "Running"

LEMMA QuietKeeps ==
  ASSUME StatusInv, NEW t \in Threads, Quiet(t), NoNewRunning PROVE StatusInv'
<1>1. TasksEnd => RunningHasARun'
  <2> SUFFICES ASSUME TasksEnd, NEW p \in Projects, status'[p] = "Running"
               PROVE  \E w \in Workers : job'[w] = p /\ pc'[w] \in {"running", "process"}
    BY DEF RunningHasARun
  <2>1. PICK w \in Workers : job[w] = p /\ pc[w] \in {"running", "process"}
    BY DEF NoNewRunning, StatusInv, RunningHasARun
  <2>2. w # t /\ w \in Threads
    BY <2>1, ThreadSorts DEF Quiet
  <2>3. QED BY <2>1, <2>2 DEF Quiet
<1>2. LaunchersWait'
  BY ThreadSorts DEF StatusInv, LaunchersWait, Quiet
<1>3. QED BY <1>1, <1>2 DEF StatusInv

LEMMA GotoQuiet ==
  ASSUME ThreadTypes, NEW t \in Threads, NEW l, Goto(t, l), Stay,
         pc[t] \notin {"start", "created", "running", "process"}, l \notin {"start", "created"}
  PROVE  Quiet(t)
  BY DEF ThreadTypes, Goto, Stay, Quiet

LEMMA ReturnQuiet ==
  ASSUME ThreadTypes, NEW t \in Threads, Return(t), pc[t] \notin {"start", "created", "running", "process"}
  PROVE  Quiet(t)
  BY DEF ThreadTypes, Return, Quiet

LEMMA CallQuiet ==
  ASSUME ThreadTypes, NEW t \in Threads, NEW p, NEW k, NEW l, Call(t, p, k, l), l \notin {"start", "created"}
  PROVE  Quiet(t)
  BY DEF ThreadTypes, Call, Goto, Quiet

LEMMA SameStatus == UNCHANGED status => NoNewRunning
  BY DEF NoNewRunning

LEMMA StatusInit == Init => StatusInv
  BY ThreadSorts DEF Init, StatusInv, RunningHasARun, LaunchersWait

LEMMA StatusStep ==
  ASSUME TypeInv, StatusInv, [Next]_vars PROVE StatusInv'
<1>0. ThreadTypes /\ DataTypes
  BY DEF TypeInv
<1>1. ASSUME NEW p \in Projects, ConsiderScheduled(p) PROVE StatusInv'
  <2>1. Quiet("scheduler")
    BY <1>0, <1>1, GotoQuiet, ReturnQuiet, CallQuiet, ThreadSorts DEF ConsiderScheduled
  <2>2. NoNewRunning
    BY <1>1, SameStatus DEF ConsiderScheduled
  <2>3. QED BY <2>1, <2>2, QuietKeeps, ThreadSorts
<1>2. ASSUME NEW p \in Projects, NEW k \in {"manual", "task"}, CommandRun(p, k) PROVE StatusInv'
  <2>1. Quiet("command")
    BY <1>0, <1>2, GotoQuiet, ReturnQuiet, CallQuiet, ThreadSorts DEF CommandRun
  <2>2. NoNewRunning
    BY <1>2, SameStatus DEF CommandRun
  <2>3. QED BY <2>1, <2>2, QuietKeeps, ThreadSorts
<1>3. ASSUME NEW p \in Projects, BotRun(p) PROVE StatusInv'
  <2>1. Quiet("bot")
    BY <1>0, <1>3, GotoQuiet, ReturnQuiet, CallQuiet, ThreadSorts DEF BotRun
  <2>2. NoNewRunning
    BY <1>3, SameStatus DEF BotRun
  <2>3. QED BY <2>1, <2>2, QuietKeeps, ThreadSorts
<1>4. ASSUME NEW t \in Threads, AcquireLock(t) PROVE StatusInv'
  <2>1. Quiet(t)
    BY <1>0, <1>4, GotoQuiet, ReturnQuiet, CallQuiet, ThreadSorts DEF AcquireLock
  <2>2. NoNewRunning
    BY <1>4, SameStatus DEF AcquireLock
  <2>3. QED BY <2>1, <2>2, QuietKeeps, ThreadSorts
<1>5. ASSUME NEW t \in Threads, RecoverCheck(t) PROVE StatusInv'
  <2>1. Quiet(t)
    BY <1>0, <1>5, GotoQuiet, ReturnQuiet, CallQuiet, ThreadSorts DEF RecoverCheck
  <2>2. NoNewRunning
    BY <1>5, SameStatus DEF RecoverCheck
  <2>3. QED BY <2>1, <2>2, QuietKeeps, ThreadSorts
<1>6. ASSUME NEW t \in Threads, RecoverUnlock(t) PROVE StatusInv'
  <2>1. Quiet(t)
    BY <1>0, <1>6, GotoQuiet, ReturnQuiet, CallQuiet, ThreadSorts DEF RecoverUnlock
  <2>2. NoNewRunning
    BY <1>6, SameStatus DEF RecoverUnlock
  <2>3. QED BY <2>1, <2>2, QuietKeeps, ThreadSorts
<1>7. ASSUME NEW t \in Threads, Reacquire(t) PROVE StatusInv'
  <2>1. Quiet(t)
    BY <1>0, <1>7, GotoQuiet, ReturnQuiet, CallQuiet, ThreadSorts DEF Reacquire
  <2>2. NoNewRunning
    BY <1>7, SameStatus DEF Reacquire
  <2>3. QED BY <2>1, <2>2, QuietKeeps, ThreadSorts
<1>8. ASSUME NEW t \in Threads, AcquirePermit(t) PROVE StatusInv'
  <2>1. Quiet(t)
    BY <1>0, <1>8, GotoQuiet, ReturnQuiet, CallQuiet, ThreadSorts DEF AcquirePermit
  <2>2. NoNewRunning
    BY <1>8, SameStatus DEF AcquirePermit
  <2>3. QED BY <2>1, <2>2, QuietKeeps, ThreadSorts
<1>9. ASSUME NEW t \in Threads, ConsumeTicket(t) PROVE StatusInv'
  <2>1. Quiet(t)
    BY <1>0, <1>9, GotoQuiet, ReturnQuiet, CallQuiet, ThreadSorts DEF ConsumeTicket
  <2>2. NoNewRunning
    BY <1>9, SameStatus DEF ConsumeTicket
  <2>3. QED BY <2>1, <2>2, QuietKeeps, ThreadSorts
<1>10. ASSUME NEW t \in Threads, ClaimRun(t) PROVE StatusInv'
  <2>1. Quiet(t)
    BY <1>0, <1>10, GotoQuiet, ReturnQuiet, CallQuiet, ThreadSorts DEF ClaimRun
  <2>2. NoNewRunning
    BY <1>10, SameStatus DEF ClaimRun
  <2>3. QED BY <2>1, <2>2, QuietKeeps, ThreadSorts
<1>11. ASSUME NEW t \in Threads, RegisterRun(t) PROVE StatusInv'
  <2>1. Quiet(t)
    BY <1>0, <1>11, GotoQuiet, ReturnQuiet, CallQuiet, ThreadSorts DEF RegisterRun
  <2>2. NoNewRunning
    BY <1>11, SameStatus DEF RegisterRun
  <2>3. QED BY <2>1, <2>2, QuietKeeps, ThreadSorts
<1>12. ASSUME NEW t \in Threads, UndoLock(t) PROVE StatusInv'
  <2>1. Quiet(t)
    BY <1>0, <1>12, GotoQuiet, ReturnQuiet, CallQuiet, ThreadSorts DEF UndoLock
  <2>2. NoNewRunning
    BY <1>12, SameStatus DEF UndoLock
  <2>3. QED BY <2>1, <2>2, QuietKeeps, ThreadSorts
<1>13. ASSUME NEW t \in Threads, UndoPermit(t) PROVE StatusInv'
  <2>1. Quiet(t)
    BY <1>0, <1>13, GotoQuiet, ReturnQuiet, CallQuiet, ThreadSorts DEF UndoPermit
  <2>2. NoNewRunning
    BY <1>13, SameStatus DEF UndoPermit
  <2>3. QED BY <2>1, <2>2, QuietKeeps, ThreadSorts
<1>14. ASSUME NEW t \in Threads, RecoverRepair(t) PROVE StatusInv'
  <2>1. Quiet(t)
    BY <1>0, <1>14, GotoQuiet, ReturnQuiet, CallQuiet, ThreadSorts DEF RecoverRepair
  <2>2. NoNewRunning
    BY <1>14, <1>0 DEF RecoverRepair, NoNewRunning, DataTypes
  <2>3. QED BY <2>1, <2>2, QuietKeeps, ThreadSorts
<1>15. ASSUME NEW t \in Threads, Drain(t) PROVE StatusInv'
  <2>1. Quiet(t)
    BY <1>0, <1>15, GotoQuiet, ReturnQuiet, CallQuiet, ThreadSorts DEF Drain, Return, Quiet, ThreadTypes
  <2>2. NoNewRunning
    BY <1>15, SameStatus DEF Drain
  <2>3. QED BY <2>1, <2>2, QuietKeeps, ThreadSorts
<1>16. ASSUME NEW w \in Workers, UnregisterRun(w) PROVE StatusInv'
  <2>1. Quiet(w)
    BY <1>0, <1>16, GotoQuiet, ReturnQuiet, CallQuiet, ThreadSorts DEF UnregisterRun
  <2>2. NoNewRunning
    BY <1>16, SameStatus DEF UnregisterRun
  <2>3. QED BY <2>1, <2>2, QuietKeeps, ThreadSorts
<1>17. ASSUME NEW w \in Workers, UntrackWorker(w) PROVE StatusInv'
  <2>1. Quiet(w)
    BY <1>0, <1>17, GotoQuiet, ReturnQuiet, CallQuiet, ThreadSorts DEF UntrackWorker
  <2>2. NoNewRunning
    BY <1>17, SameStatus DEF UntrackWorker
  <2>3. QED BY <2>1, <2>2, QuietKeeps, ThreadSorts
<1>18. ASSUME NEW w \in Workers, ReleaseLock(w) PROVE StatusInv'
  <2>1. Quiet(w)
    BY <1>0, <1>18, GotoQuiet, ReturnQuiet, CallQuiet, ThreadSorts DEF ReleaseLock
  <2>2. NoNewRunning
    BY <1>18, SameStatus DEF ReleaseLock
  <2>3. QED BY <2>1, <2>2, QuietKeeps, ThreadSorts
<1>19. ASSUME NEW w \in Workers, ReleasePermit(w) PROVE StatusInv'
  <2>1. Quiet(w)
    BY <1>0, <1>19, GotoQuiet, ReturnQuiet, CallQuiet, ThreadSorts DEF ReleasePermit
  <2>2. NoNewRunning
    BY <1>19, SameStatus DEF ReleasePermit
  <2>3. QED BY <2>1, <2>2, QuietKeeps, ThreadSorts
<1>20. ASSUME NEW p \in Projects, HealProject(p) PROVE StatusInv'
  <2>1. Quiet("scheduler")
    BY <1>0, <1>20, GotoQuiet, ReturnQuiet, CallQuiet, ThreadSorts DEF HealProject
  <2>2. NoNewRunning
    BY <1>20, SameStatus DEF HealProject
  <2>3. QED BY <2>1, <2>2, QuietKeeps, ThreadSorts
<1>21. ASSUME HealBranch("scheduler") PROVE StatusInv'
  <2>1. Quiet("scheduler")
    BY <1>0, <1>21, GotoQuiet, ReturnQuiet, CallQuiet, ThreadSorts DEF HealBranch
  <2>2. NoNewRunning
    BY <1>21, SameStatus DEF HealBranch
  <2>3. QED BY <2>1, <2>2, QuietKeeps, ThreadSorts
<1>22. ASSUME GhostUnlock("scheduler") PROVE StatusInv'
  <2>1. Quiet("scheduler")
    BY <1>0, <1>22, GotoQuiet, ReturnQuiet, CallQuiet, ThreadSorts DEF GhostUnlock
  <2>2. NoNewRunning
    BY <1>22, SameStatus DEF GhostUnlock
  <2>3. QED BY <2>1, <2>2, QuietKeeps, ThreadSorts
<1>23. ASSUME GhostPermit("scheduler") PROVE StatusInv'
  <2>1. Quiet("scheduler")
    BY <1>0, <1>23, GotoQuiet, ReturnQuiet, CallQuiet, ThreadSorts DEF GhostPermit
  <2>2. NoNewRunning
    BY <1>23, SameStatus DEF GhostPermit
  <2>3. QED BY <2>1, <2>2, QuietKeeps, ThreadSorts
<1>24. ASSUME GhostStatus("scheduler") PROVE StatusInv'
  <2>1. Quiet("scheduler")
    BY <1>0, <1>24, GotoQuiet, ReturnQuiet, CallQuiet, ThreadSorts DEF GhostStatus
  <2>2. NoNewRunning
    BY <1>24, <1>0 DEF GhostStatus, NoNewRunning, DataTypes
  <2>3. QED BY <2>1, <2>2, QuietKeeps, ThreadSorts
<1>25. ASSUME CheckTicket("scheduler") PROVE StatusInv'
  <2>1. Quiet("scheduler")
    BY <1>0, <1>25, GotoQuiet, ReturnQuiet, CallQuiet, ThreadSorts DEF CheckTicket, Goto, Quiet, ThreadTypes
  <2>2. NoNewRunning
    BY <1>25, SameStatus DEF CheckTicket
  <2>3. QED BY <2>1, <2>2, QuietKeeps, ThreadSorts
<1>26. ASSUME SchedulerDrain PROVE StatusInv'
  <2>1. Quiet("scheduler")
    BY <1>0, <1>26, GotoQuiet, ReturnQuiet, CallQuiet, ThreadSorts DEF SchedulerDrain
  <2>2. NoNewRunning
    BY <1>26, SameStatus DEF SchedulerDrain
  <2>3. QED BY <2>1, <2>2, QuietKeeps, ThreadSorts
<1>27. ASSUME NEW t \in Threads, Spawn(t) PROVE StatusInv'
  <2>1. PICK w \in Workers :
          /\ pc[w] = "idle"
          /\ pc' = [pc EXCEPT ![t] = "start", ![w] = "created"]
          /\ job' = [job EXCEPT ![w] = job[t]]
          /\ launcher' = [launcher EXCEPT ![w] = t]
    BY <1>27 DEF Spawn
  <2>2. pc[t] = "spawn" /\ w # t /\ w \in Threads /\ UNCHANGED status
    BY <1>27, <2>1, ThreadSorts DEF Spawn
  <2>3. /\ pc'[t] = "start" /\ pc'[w] = "created" /\ launcher'[w] = t
        /\ \A u \in Threads \ {t, w} : pc'[u] = pc[u] /\ job'[u] = job[u]
        /\ \A v \in Workers \ {w} : launcher'[v] = launcher[v]
    BY <1>0, <2>1, <2>2 DEF ThreadTypes
  <2>4. TasksEnd => RunningHasARun'
    <3> SUFFICES ASSUME TasksEnd, NEW p \in Projects, status[p] = "Running"
                 PROVE  \E v \in Workers : job'[v] = p /\ pc'[v] \in {"running", "process"}
      BY <2>2 DEF RunningHasARun
    <3>1. PICK v \in Workers : job[v] = p /\ pc[v] \in {"running", "process"}
      BY DEF StatusInv, RunningHasARun
    <3>2. v \notin {t, w} /\ v \in Threads
      BY <2>1, <2>2, <3>1, ThreadSorts
    <3>3. QED BY <2>3, <3>1, <3>2
  <2>5. \A v \in Workers \ {w} : pc'[v] = "created" =>
          pc[v] = "created" /\ launcher[v] # t /\ launcher[v] # w /\ launcher'[v] = launcher[v]
    BY <2>1, <2>2, <2>3, ThreadSorts DEF StatusInv, LaunchersWait
  <2>6. LaunchersWait'
    BY <2>2, <2>3, <2>5, ThreadSorts DEF StatusInv, LaunchersWait
  <2>7. QED BY <2>4, <2>6 DEF StatusInv
<1>28. ASSUME NEW w \in Workers, StartThread(w) PROVE StatusInv'
  <2> DEFINE t == launcher[w]
  <2>1. /\ pc[w] = "created" /\ t \in Threads /\ pc[t] = "start" /\ w \in Threads /\ w # t
        /\ UNCHANGED status
    BY <1>28, ThreadSorts DEF StartThread, StatusInv, LaunchersWait
  <2>2. /\ pc'[w] = "begin" /\ pc'[t] \in {"drain", "idle"}
        /\ \A u \in Threads \ {t, w} : pc'[u] = pc[u] /\ job'[u] = job[u]
        /\ launcher' = [launcher EXCEPT ![w] = NoThread]
    BY <1>0, <1>28, <2>1 DEF StartThread, ThreadTypes
  <2>3. \A v \in Workers \ {w} : launcher'[v] = launcher[v]
    BY <1>0, <2>2 DEF ThreadTypes
  <2>4. TasksEnd => RunningHasARun'
    <3> SUFFICES ASSUME TasksEnd, NEW p \in Projects, status[p] = "Running"
                 PROVE  \E v \in Workers : job'[v] = p /\ pc'[v] \in {"running", "process"}
      BY <2>1 DEF RunningHasARun
    <3>1. PICK v \in Workers : job[v] = p /\ pc[v] \in {"running", "process"}
      BY DEF StatusInv, RunningHasARun
    <3>2. v \notin {t, w} /\ v \in Threads
      BY <2>1, <3>1, ThreadSorts
    <3>3. QED BY <2>2, <3>1, <3>2
  <2>5. \A v \in Workers : pc'[v] = "created" => v # w /\ v # t /\ pc[v] = "created"
    BY <2>2, ThreadSorts
  <2>6. \A v \in Workers : pc'[v] = "created" =>
          /\ launcher[v] \in Threads \ {t, w} /\ pc[launcher[v]] = "start" /\ launcher'[v] = launcher[v]
    BY <2>1, <2>3, <2>5 DEF StatusInv, LaunchersWait
  <2>7. LaunchersWait'
    BY <2>2, <2>5, <2>6 DEF StatusInv, LaunchersWait
  <2>8. QED BY <2>4, <2>7 DEF StatusInv
<1>29. ASSUME NEW w \in Workers, StartFails(w) PROVE StatusInv'
  <2> DEFINE t == launcher[w]
  <2>1. /\ pc[w] = "created" /\ t \in Threads /\ pc[t] = "start" /\ w \in Threads /\ w # t
        /\ UNCHANGED status
    BY <1>29, ThreadSorts DEF StartFails, StatusInv, LaunchersWait
  <2>2. /\ pc'[w] = "idle" /\ pc'[t] \in {"drain", "idle"}
        /\ \A u \in Threads \ {t, w} : pc'[u] = pc[u] /\ job'[u] = job[u]
        /\ launcher' = [launcher EXCEPT ![w] = NoThread]
    BY <1>0, <1>29, <2>1 DEF StartFails, ThreadTypes
  <2>3. \A v \in Workers \ {w} : launcher'[v] = launcher[v]
    BY <1>0, <2>2 DEF ThreadTypes
  <2>4. TasksEnd => RunningHasARun'
    <3> SUFFICES ASSUME TasksEnd, NEW p \in Projects, status[p] = "Running"
                 PROVE  \E v \in Workers : job'[v] = p /\ pc'[v] \in {"running", "process"}
      BY <2>1 DEF RunningHasARun
    <3>1. PICK v \in Workers : job[v] = p /\ pc[v] \in {"running", "process"}
      BY DEF StatusInv, RunningHasARun
    <3>2. v \notin {t, w} /\ v \in Threads
      BY <2>1, <3>1, ThreadSorts
    <3>3. QED BY <2>2, <3>1, <3>2
  <2>5. \A v \in Workers : pc'[v] = "created" => v # w /\ v # t /\ pc[v] = "created"
    BY <2>2, ThreadSorts
  <2>6. \A v \in Workers : pc'[v] = "created" =>
          /\ launcher[v] \in Threads \ {t, w} /\ pc[launcher[v]] = "start" /\ launcher'[v] = launcher[v]
    BY <2>1, <2>3, <2>5 DEF StatusInv, LaunchersWait
  <2>7. LaunchersWait'
    BY <2>2, <2>5, <2>6 DEF StatusInv, LaunchersWait
  <2>8. QED BY <2>4, <2>7 DEF StatusInv
<1>30. ASSUME NEW w \in Workers, StartProcess(w) PROVE StatusInv'
  <2>1. /\ pc[w] = "running" /\ pc' = [pc EXCEPT ![w] = "process"] /\ UNCHANGED <<job, launcher>>
        /\ w \in Threads /\ job[w] \in Projects
    BY <1>0, <1>30, ThreadSorts DEF StartProcess, Goto, Stay, ThreadTypes
  <2>2. \A u \in Threads \ {w} : pc'[u] = pc[u]
    BY <1>0, <2>1 DEF ThreadTypes
  <2>3. pc'[w] \in {"running", "process"}
    BY <1>0, <2>1 DEF ThreadTypes
  <2>4. TasksEnd => RunningHasARun'
    <3>1. UNCHANGED status
      BY <1>30 DEF StartProcess
    <3>2. QED BY <2>1, <2>2, <2>3, <3>1, ThreadSorts DEF StatusInv, RunningHasARun
  <2>5. pc'[w] \notin {"created", "start"}
    BY <1>0, <2>1 DEF ThreadTypes
  <2>6. LaunchersWait'
    BY <2>1, <2>2, <2>5, ThreadSorts DEF StatusInv, LaunchersWait
  <2>7. QED BY <2>4, <2>6 DEF StatusInv
<1>31. ASSUME NEW w \in Workers, EndProcess(w) PROVE StatusInv'
  <2>1. /\ pc[w] = "process" /\ pc' = [pc EXCEPT ![w] = "running"] /\ UNCHANGED <<job, launcher>>
        /\ w \in Threads /\ job[w] \in Projects
    BY <1>0, <1>31, ThreadSorts DEF EndProcess, Goto, Stay, ThreadTypes
  <2>2. \A u \in Threads \ {w} : pc'[u] = pc[u]
    BY <1>0, <2>1 DEF ThreadTypes
  <2>3. pc'[w] \in {"running", "process"}
    BY <1>0, <2>1 DEF ThreadTypes
  <2>4. TasksEnd => RunningHasARun'
    <3>1. UNCHANGED status
      BY <1>31 DEF EndProcess
    <3>2. QED BY <2>1, <2>2, <2>3, <3>1, ThreadSorts DEF StatusInv, RunningHasARun
  <2>5. pc'[w] \notin {"created", "start"}
    BY <1>0, <2>1 DEF ThreadTypes
  <2>6. LaunchersWait'
    BY <2>1, <2>2, <2>5, ThreadSorts DEF StatusInv, LaunchersWait
  <2>7. QED BY <2>4, <2>6 DEF StatusInv
<1>32. ASSUME NEW w \in Workers, BeginRun(w) PROVE StatusInv'
  <2>1. /\ pc[w] = "begin" /\ pc' = [pc EXCEPT ![w] = "running"] /\ UNCHANGED <<job, launcher>>
        /\ w \in Threads /\ job[w] \in Projects
    BY <1>0, <1>32, ThreadSorts DEF BeginRun, Goto, Stay, ThreadTypes
  <2>2. \A u \in Threads \ {w} : pc'[u] = pc[u]
    BY <1>0, <2>1 DEF ThreadTypes
  <2>3. pc'[w] = "running" /\ \A p \in Projects \ {job[w]} : status'[p] = status[p]
    BY <1>0, <1>32, <2>1 DEF BeginRun, ThreadTypes, DataTypes
  <2>4. TasksEnd => RunningHasARun'
    BY <2>1, <2>2, <2>3, ThreadSorts DEF StatusInv, RunningHasARun
  <2>5. pc'[w] \notin {"created", "start"}
    BY <1>0, <2>1 DEF ThreadTypes
  <2>6. LaunchersWait'
    BY <2>1, <2>2, <2>5, ThreadSorts DEF StatusInv, LaunchersWait
  <2>7. QED BY <2>4, <2>6 DEF StatusInv
<1>33. ASSUME NEW w \in Workers, FinishLogic(w) PROVE StatusInv'
  <2>1. /\ pc[w] = "running" /\ pc' = [pc EXCEPT ![w] = IF Engine THEN "finished" ELSE "untrack"] /\ UNCHANGED <<job, launcher>>
        /\ w \in Threads /\ job[w] \in Projects
    BY <1>0, <1>33, ThreadSorts DEF FinishLogic, Goto, Stay, ThreadTypes
  <2>2. \A u \in Threads \ {w} : pc'[u] = pc[u]
    BY <1>0, <2>1 DEF ThreadTypes
  <2>3. TasksEnd => status'[job[w]] = "Ended" /\ \A p \in Projects \ {job[w]} : status'[p] = status[p]
    BY <1>0, <1>33, <2>1 DEF FinishLogic, DataTypes, TasksEnd
  <2>4. TasksEnd => RunningHasARun'
    BY <2>1, <2>2, <2>3, ThreadSorts DEF StatusInv, RunningHasARun
  <2>5. pc'[w] \notin {"created", "start"}
    BY <1>0, <2>1 DEF ThreadTypes
  <2>6. LaunchersWait'
    BY <2>1, <2>2, <2>5, ThreadSorts DEF StatusInv, LaunchersWait
  <2>7. QED BY <2>4, <2>6 DEF StatusInv
<1>34. ASSUME DailyReset \/ Tick \/ BoundsReached \/ UNCHANGED vars PROVE StatusInv'
  <2>1. UNCHANGED <<pc, job, launcher>>
    BY <1>34 DEF DailyReset, Tick, BoundsReached, vars, threads
  <2>2. NoNewRunning
    BY <1>0, <1>34 DEF DailyReset, Tick, BoundsReached, vars, NoNewRunning, DataTypes
  <2>3. QED BY <2>1, <2>2 DEF StatusInv, RunningHasARun, LaunchersWait, NoNewRunning
<1>. QED
  BY <1>1, <1>2, <1>3, <1>4, <1>5, <1>6, <1>7, <1>8, <1>9, <1>10, <1>11, <1>12, <1>13, <1>14, <1>15, <1>16, <1>17, <1>18, <1>19, <1>20, <1>21, <1>22, <1>23, <1>24, <1>25, <1>26, <1>27, <1>28, <1>29, <1>30, <1>31, <1>32, <1>33, <1>34 DEF Next, LaunchStep, RunStep, HealStep

LEMMA StatusInvariance == Spec => [](TypeInv /\ StatusInv)
<1>1. TypeInv /\ StatusInv /\ [Next]_vars => (TypeInv /\ StatusInv)'
  BY TypeStep, StatusStep
<1>2. QED
  BY TypeInit, StatusInit, <1>1, PTL DEF Spec

\* Whatever recovers, heals or resets a project in between, in the engine and in the
\* desktop's own core: a project shown as Running has a worker that will end it, as
\* long as no single task raises in its worker.
THEOREM RunningIsRun == ASSUME TasksEnd PROVE Spec => []RunningHasARun
<1>1. TypeInv /\ StatusInv => RunningHasARun
  BY DEF StatusInv
<1>2. QED
  BY <1>1, StatusInvariance, PTL
=============================================================================

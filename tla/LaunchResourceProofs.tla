------------------------ MODULE LaunchResourceProofs ------------------------
(***************************************************************************)
(* What the launches of ProjectLaunch share, for any projects, workers and  *)
(* bounds: the slot of a project (TurnsAreTaken), the permits of the        *)
(* semaphore (PermitsAddUp), the schedule tickets (TicketsInOrder) and the  *)
(* table of tracked workers (LiveIsTracked).  Each rests on one inductive   *)
(* invariant beside those of ProjectLaunchProofs.                           *)
(***************************************************************************)
EXTENDS ProjectLaunchProofs, FiniteSetTheorems
-----------------------------------------------------------------------------
(* The runs of a project take turns: launching implements RunSlot, with the  *)
(* slot of a project read off the table of active runs and the positions of  *)
(* the workers.  A step either leaves every slot as it is (ExecutionKept), or *)
(* moves the slot of one project, and RunInv says from where.                *)

SlotMoves(p, from, to) ==
  /\ SlotOf(p) = from /\ SlotOf(p)' = to
  /\ \A q \in Projects \ {p} : SlotOf(q)' = SlotOf(q)

SlotStep ==
  \/ \A p \in Projects : SlotOf(p)' = SlotOf(p)
  \/ \E p \in Projects : \/ SlotMoves(p, "free", "reserved") \/ SlotMoves(p, "reserved", "executing")
                         \/ SlotMoves(p, "reserved", "free") \/ SlotMoves(p, "executing", "free")

\* No worker starts or ends to execute, and no entry is made or taken away.
ExecutionKept ==
  \A w \in Workers : /\ Executing(w)' <=> Executing(w)
                     /\ Executing(w) => job'[w] = job[w]
EntriesKept == \A p \in Projects : active_run_ids'[p] = NoThread <=> active_run_ids[p] = NoThread

LEMMA KeptSlots == ASSUME ExecutionKept, EntriesKept PROVE SlotStep
<1>1. ASSUME NEW p \in Projects
      PROVE  (\E w \in Workers : Executing(w)' /\ job'[w] = p) <=> \E w \in Workers : Executing(w) /\ job[w] = p
  BY DEF ExecutionKept
<1>2. \A p \in Projects : SlotOf(p)' = SlotOf(p)
  BY <1>1 DEF SlotOf, EntriesKept
<1>3. QED BY <1>2 DEF SlotStep

LEMMA GotoExecutes ==
  ASSUME ThreadTypes, NEW t \in Threads, NEW l, Goto(t, l), Stay,
         Executing(t) <=> l \in {"begin", "running", "process", "finished"}
  PROVE  ExecutionKept
<1>1. \A u \in Threads : pc'[u] = IF u = t THEN l ELSE pc[u]
  BY DEF ThreadTypes, Goto
<1>2. QED
  BY <1>1, ThreadSorts DEF Stay, ExecutionKept, Executing

LEMMA ReturnExecutes ==
  ASSUME ThreadTypes, NEW t \in Threads, Return(t), ~Executing(t) PROVE ExecutionKept
<1>1. \A u \in Threads : /\ pc'[u] = IF u = t THEN "idle" ELSE pc[u]
                         /\ u # t => job'[u] = job[u]
  BY DEF ThreadTypes, Return
<1>2. QED
  BY <1>1, ThreadSorts DEF ExecutionKept, Executing

LEMMA CallExecutes ==
  ASSUME ThreadTypes, NEW t \in Threads, NEW p, NEW k, NEW l, Call(t, p, k, l),
         l \notin {"begin", "running", "process", "finished"}
  PROVE  ExecutionKept
<1>1. \A u \in Threads : /\ pc'[u] = IF u = t THEN l ELSE pc[u]
                         /\ u # t => job'[u] = job[u]
  BY DEF ThreadTypes, Call, Goto
<1>2. pc[t] = "idle"
  BY DEF Call
<1>3. QED
  BY <1>1, <1>2, ThreadSorts DEF ExecutionKept, Executing

LEMMA SameEntries == UNCHANGED active_run_ids => EntriesKept
  BY DEF EntriesKept

\* The slots, read from the invariant: whoever is registered owns its slot.
LEMMA OwnedSlot ==
  ASSUME TypeInv, RunInv, NEW t \in Threads, Registered(t), job[t] \in Projects
  PROVE  /\ active_run_ids[job[t]] = t /\ active_run_ids[job[t]] # NoThread
         /\ \A w \in Workers : Executing(w) /\ job[w] = job[t] => w = t
  BY ThreadSorts, ThreadAssumption DEF RunInv, Registered, RegisteredPCs, Executing

LEMMA UnownedSlot ==
  ASSUME TypeInv, RunInv, NEW p \in Projects, active_run_ids[p] = NoThread
  PROVE  \A w \in Workers : ~(Executing(w) /\ job[w] = p)
  BY ThreadSorts, ThreadAssumption DEF RunInv, Registered, RegisteredPCs, Executing

LEMMA SlotsInit == Init => \A p \in Projects : SlotOf(p) = "free"
  BY ThreadSorts DEF Init, SlotOf, Executing

LEMMA SlotsStep ==
  ASSUME Engine = TRUE, TypeInv, RunInv, StatusInv, [Next]_vars PROVE SlotStep
<1>. USE DEF tracking
<1>0. ThreadTypes /\ DataTypes
  BY DEF TypeInv
<1>1. ASSUME NEW p \in Projects, ConsiderScheduled(p) PROVE SlotStep
  <2>1. ExecutionKept /\ UNCHANGED active_run_ids
    BY <1>0, <1>1, CallExecutes, ThreadSorts DEF ConsiderScheduled
  <2>2. QED BY <2>1, SameEntries, KeptSlots
<1>2. ASSUME NEW p \in Projects, NEW k \in {"manual", "task"}, CommandRun(p, k) PROVE SlotStep
  <2>1. ExecutionKept /\ UNCHANGED active_run_ids
    BY <1>0, <1>2, CallExecutes, ThreadSorts DEF CommandRun
  <2>2. QED BY <2>1, SameEntries, KeptSlots
<1>3. ASSUME NEW p \in Projects, BotRun(p) PROVE SlotStep
  <2>1. ExecutionKept /\ UNCHANGED active_run_ids
    BY <1>0, <1>3, CallExecutes, ThreadSorts DEF BotRun
  <2>2. QED BY <2>1, SameEntries, KeptSlots
<1>4. ASSUME NEW t \in Threads, AcquireLock(t) PROVE SlotStep
  <2>1. ExecutionKept /\ UNCHANGED active_run_ids
    BY <1>0, <1>4, GotoExecutes, ReturnExecutes DEF AcquireLock, Executing
  <2>2. QED BY <2>1, SameEntries, KeptSlots
<1>5. ASSUME NEW t \in Threads, RecoverCheck(t) PROVE SlotStep
  <2>1. ExecutionKept /\ UNCHANGED active_run_ids
    BY <1>0, <1>5, GotoExecutes, ReturnExecutes DEF RecoverCheck, Executing
  <2>2. QED BY <2>1, SameEntries, KeptSlots
<1>6. ASSUME NEW t \in Threads, RecoverUnlock(t) PROVE SlotStep
  <2>1. ExecutionKept /\ UNCHANGED active_run_ids
    BY <1>0, <1>6, GotoExecutes, ReturnExecutes DEF RecoverUnlock, Executing
  <2>2. QED BY <2>1, SameEntries, KeptSlots
<1>7. ASSUME NEW t \in Threads, RecoverRepair(t) PROVE SlotStep
  <2>1. ExecutionKept /\ UNCHANGED active_run_ids
    BY <1>0, <1>7, GotoExecutes, ReturnExecutes DEF RecoverRepair, Executing
  <2>2. QED BY <2>1, SameEntries, KeptSlots
<1>8. ASSUME NEW t \in Threads, Reacquire(t) PROVE SlotStep
  <2>1. ExecutionKept /\ UNCHANGED active_run_ids
    BY <1>0, <1>8, GotoExecutes, ReturnExecutes DEF Reacquire, Executing
  <2>2. QED BY <2>1, SameEntries, KeptSlots
<1>9. ASSUME NEW t \in Threads, AcquirePermit(t) PROVE SlotStep
  <2>1. ExecutionKept /\ UNCHANGED active_run_ids
    BY <1>0, <1>9, GotoExecutes, ReturnExecutes DEF AcquirePermit, Executing
  <2>2. QED BY <2>1, SameEntries, KeptSlots
<1>10. ASSUME NEW t \in Threads, ConsumeTicket(t) PROVE SlotStep
  <2>1. ExecutionKept /\ UNCHANGED active_run_ids
    BY <1>0, <1>10, GotoExecutes, ReturnExecutes DEF ConsumeTicket, Executing
  <2>2. QED BY <2>1, SameEntries, KeptSlots
<1>11. ASSUME NEW t \in Threads, ClaimRun(t) PROVE SlotStep
  <2>1. ExecutionKept /\ UNCHANGED active_run_ids
    BY <1>0, <1>11, GotoExecutes, ReturnExecutes DEF ClaimRun, Executing
  <2>2. QED BY <2>1, SameEntries, KeptSlots
<1>12. ASSUME NEW t \in Threads, UndoLock(t) PROVE SlotStep
  <2>1. ExecutionKept /\ UNCHANGED active_run_ids
    BY <1>0, <1>12, GotoExecutes, ReturnExecutes DEF UndoLock, Executing
  <2>2. QED BY <2>1, SameEntries, KeptSlots
<1>13. ASSUME NEW t \in Threads, UndoPermit(t) PROVE SlotStep
  <2>1. ExecutionKept /\ UNCHANGED active_run_ids
    BY <1>0, <1>13, GotoExecutes, ReturnExecutes DEF UndoPermit, Executing
  <2>2. QED BY <2>1, SameEntries, KeptSlots
<1>14. ASSUME NEW t \in Threads, RegisterRun(t) PROVE SlotStep
  <2>0. PICK p \in Projects : p = job[t]
    BY <1>0, <1>14 DEF RegisterRun, ThreadTypes
  <2>1. pc[t] = "register" /\ ExecutionKept
    BY <1>0, <1>14, GotoExecutes, ReturnExecutes DEF RegisterRun, Executing
  <2>2. CASE active_run_ids[p] # NoThread
    BY <1>14, <2>0, <2>1, <2>2, SameEntries, KeptSlots DEF RegisterRun
  <2>3. CASE active_run_ids[p] = NoThread
    <3>1. active_run_ids' = [active_run_ids EXCEPT ![p] = t]
      BY <1>14, <2>0, <2>3 DEF RegisterRun
    <3>2. active_run_ids'[p] # NoThread /\ \A q \in Projects \ {p} : active_run_ids'[q] = active_run_ids[q]
      BY <1>0, <2>1, <3>1, ThreadAssumption DEF DataTypes
    <3>3. \A w \in Workers : ~(Executing(w) /\ job[w] = p) /\ ~(Executing(w)' /\ job'[w] = p)
      BY <2>1, <2>3, UnownedSlot DEF ExecutionKept
    <3>4. \A q \in Projects : (\E w \in Workers : Executing(w)' /\ job'[w] = q)
                                <=> \E w \in Workers : Executing(w) /\ job[w] = q
      BY <2>1 DEF ExecutionKept
    <3>5. SlotMoves(p, "free", "reserved")
      BY <2>1, <2>3, <3>2, <3>3, <3>4 DEF SlotMoves, SlotOf
    <3>6. QED BY <2>1, <3>5 DEF SlotStep
  <2>4. QED BY <2>2, <2>3
<1>15. ASSUME NEW t \in Threads, Spawn(t) PROVE SlotStep
  <2>1. job[t] \in Projects /\ pc[t] = "spawn" /\ active_run_ids[job[t]] # NoThread
    BY <1>0, <1>15, OwnedSlot DEF Spawn, ThreadTypes, Registered, RegisteredPCs
  <2>2. PICK w \in Workers :
          /\ pc[w] = "idle"
          /\ pc' = [pc EXCEPT ![t] = "start", ![w] = "created"]
          /\ job' = [job EXCEPT ![w] = job[t]]
          /\ active_run_ids' = [active_run_ids EXCEPT ![job[t]] = w]
    BY <1>15 DEF Spawn
  <2>3. EntriesKept
    <3>1. w # NoThread
      BY ThreadSorts, ThreadAssumption
    <3>2. QED BY <1>0, <2>1, <2>2, <3>1 DEF EntriesKept, DataTypes
  <2>4. \A u \in Threads \ {t, w} : pc'[u] = pc[u] /\ job'[u] = job[u]
    BY <1>0, <2>2 DEF ThreadTypes
  <2>5. pc'[t] \in {"start", "created"} /\ pc'[w] \in {"start", "created"}
    BY <1>0, <2>2, ThreadSorts DEF ThreadTypes
  <2>6. ExecutionKept
    BY <2>1, <2>2, <2>4, <2>5, ThreadSorts DEF ExecutionKept, Executing
  <2>7. QED BY <2>3, <2>6, KeptSlots
<1>16. ASSUME NEW t \in Threads, Drain(t) PROVE SlotStep
  <2>1. UNCHANGED active_run_ids /\ pc[t] = "drain"
    BY <1>16 DEF Drain
  <2>2. CASE Return(t)
    BY <1>0, <2>1, <2>2, ReturnExecutes, SameEntries, KeptSlots DEF Executing
  <2>3. CASE ~Return(t)
    <3>1. pc' = [pc EXCEPT ![t] = "acquire"] /\ job' = [job EXCEPT ![t] = Head(pending_queue)]
      BY <1>16, <2>3 DEF Drain
    <3>2. \A u \in Threads \ {t} : pc'[u] = pc[u] /\ job'[u] = job[u]
      BY <1>0, <3>1 DEF ThreadTypes
    <3>3. pc'[t] = "acquire"
      BY <1>0, <3>1 DEF ThreadTypes
    <3>4. ExecutionKept
      BY <2>1, <3>2, <3>3, ThreadSorts DEF ExecutionKept, Executing
    <3>5. QED BY <2>1, <3>4, SameEntries, KeptSlots
  <2>4. QED BY <2>2, <2>3
<1>17. ASSUME NEW w \in Workers, StartThread(w) PROVE SlotStep
  <2>0. PICK t \in Threads, p \in Projects : t = launcher[w] /\ p = job[w]
    BY <1>0, <1>17, ThreadSorts DEF StartThread, StatusInv, LaunchersWait, ThreadTypes
  <2>1. /\ pc[w] = "created" /\ pc[t] = "start" /\ w \in Threads /\ w # t
        /\ UNCHANGED active_run_ids
    BY <1>0, <1>17, <2>0, ThreadSorts DEF StartThread, StatusInv, LaunchersWait, ThreadTypes
  <2>2. /\ pc'[w] = "begin" /\ pc'[t] \in {"drain", "idle"} /\ job'[w] = p
        /\ \A u \in Threads \ {t, w} : pc'[u] = pc[u] /\ job'[u] = job[u]
    BY <1>0, <1>17, <2>0, <2>1 DEF StartThread, ThreadTypes
  <2>3. active_run_ids[p] # NoThread /\ \A v \in Workers : ~(Executing(v) /\ job[v] = p)
    <3>1. Registered(w) /\ ~Executing(w)
      BY <2>1 DEF Registered, RegisteredPCs, Executing
    <3>2. QED BY <2>0, <2>1, <3>1, OwnedSlot
  <2>4. Executing(w)' /\ ~Executing(w) /\ ~Executing(t) /\ ~Executing(t)'
    BY <2>1, <2>2 DEF Executing
  <2>5. \A v \in Workers \ {w} : (Executing(v)' <=> Executing(v)) /\ (Executing(v) => job'[v] = job[v])
    BY <2>1, <2>2, <2>4, ThreadSorts DEF Executing
  <2>6. \A q \in Projects \ {p} : (\E v \in Workers : Executing(v)' /\ job'[v] = q)
                                    <=> \E v \in Workers : Executing(v) /\ job[v] = q
    BY <2>2, <2>4, <2>5
  <2>7. SlotMoves(p, "reserved", "executing")
    <3>1. SlotOf(p) = "reserved" /\ SlotOf(p)' = "executing"
      BY <2>2, <2>3, <2>4 DEF SlotOf
    <3>2. \A q \in Projects \ {p} : SlotOf(q)' = SlotOf(q)
      BY <2>1, <2>6 DEF SlotOf
    <3>3. QED BY <3>1, <3>2 DEF SlotMoves
  <2>8. QED BY <2>1, <2>7 DEF SlotStep
<1>18. ASSUME NEW w \in Workers, StartFails(w) PROVE SlotStep
  <2>0. PICK t \in Threads, p \in Projects : t = launcher[w] /\ p = job[w]
    BY <1>0, <1>18, ThreadSorts DEF StartFails, StatusInv, LaunchersWait, ThreadTypes
  <2>1. /\ pc[w] = "created" /\ pc[t] = "start" /\ w \in Threads /\ w # t
    BY <1>0, <1>18, <2>0, ThreadSorts DEF StartFails, StatusInv, LaunchersWait, ThreadTypes
  <2>2. /\ pc'[w] = "idle" /\ pc'[t] = "idle"
        /\ \A u \in Threads \ {t, w} : pc'[u] = pc[u] /\ job'[u] = job[u]
    BY <1>0, <1>18, <2>0, <2>1 DEF StartFails, ThreadTypes
  <2>3. active_run_ids[p] # NoThread /\ \A v \in Workers : ~(Executing(v) /\ job[v] = p)
    <3>1. Registered(w) /\ ~Executing(w)
      BY <2>1 DEF Registered, RegisteredPCs, Executing
    <3>2. QED BY <2>0, <2>1, <3>1, OwnedSlot
  <2>4. ExecutionKept
    BY <2>1, <2>2, ThreadSorts DEF ExecutionKept, Executing
  <2>5. CASE kind[w] # "task"
    <3>1. UNCHANGED active_run_ids
      BY <1>18, <2>5 DEF StartFails
    <3>2. QED BY <2>4, <3>1, SameEntries, KeptSlots
  <2>6. CASE kind[w] = "task"
    <3>1. active_run_ids' = [active_run_ids EXCEPT ![p] = NoThread]
      BY <1>18, <2>0, <2>6 DEF StartFails
    <3>2. active_run_ids'[p] = NoThread /\ \A q \in Projects \ {p} : active_run_ids'[q] = active_run_ids[q]
      BY <1>0, <2>1, <3>1 DEF DataTypes
    <3>3. \A v \in Workers : ~(Executing(v)' /\ job'[v] = p)
      BY <2>3, <2>4 DEF ExecutionKept
    <3>4. \A q \in Projects : (\E v \in Workers : Executing(v)' /\ job'[v] = q)
                                <=> \E v \in Workers : Executing(v) /\ job[v] = q
      BY <2>4 DEF ExecutionKept
    <3>5. SlotMoves(p, "reserved", "free")
      BY <2>1, <2>3, <3>2, <3>3, <3>4 DEF SlotMoves, SlotOf
    <3>6. QED BY <2>1, <3>5 DEF SlotStep
  <2>7. QED BY <2>5, <2>6
<1>19. ASSUME NEW w \in Workers, BeginRun(w) PROVE SlotStep
  <2>1. ExecutionKept /\ UNCHANGED active_run_ids
    BY <1>0, <1>19, GotoExecutes, ReturnExecutes, ThreadSorts DEF BeginRun, Executing
  <2>2. QED BY <2>1, SameEntries, KeptSlots
<1>20. ASSUME NEW w \in Workers, StartProcess(w) PROVE SlotStep
  <2>1. ExecutionKept /\ UNCHANGED active_run_ids
    BY <1>0, <1>20, GotoExecutes, ReturnExecutes, ThreadSorts DEF StartProcess, Executing
  <2>2. QED BY <2>1, SameEntries, KeptSlots
<1>21. ASSUME NEW w \in Workers, EndProcess(w) PROVE SlotStep
  <2>1. ExecutionKept /\ UNCHANGED active_run_ids
    BY <1>0, <1>21, GotoExecutes, ReturnExecutes, ThreadSorts DEF EndProcess, Executing
  <2>2. QED BY <2>1, SameEntries, KeptSlots
<1>22. ASSUME NEW w \in Workers, FinishLogic(w) PROVE SlotStep
  <2>1. ExecutionKept /\ UNCHANGED active_run_ids
    BY <1>0, <1>22, GotoExecutes, ReturnExecutes, ThreadSorts DEF FinishLogic, Executing
  <2>2. QED BY <2>1, SameEntries, KeptSlots
<1>23. ASSUME NEW w \in Workers, UntrackWorker(w) PROVE SlotStep
  <2>1. ExecutionKept /\ UNCHANGED active_run_ids
    BY <1>0, <1>23, GotoExecutes, ReturnExecutes, ThreadSorts DEF UntrackWorker, Executing
  <2>2. QED BY <2>1, SameEntries, KeptSlots
<1>24. ASSUME NEW w \in Workers, ReleaseLock(w) PROVE SlotStep
  <2>1. ExecutionKept /\ UNCHANGED active_run_ids
    BY <1>0, <1>24, GotoExecutes, ReturnExecutes, ThreadSorts DEF ReleaseLock, Executing
  <2>2. QED BY <2>1, SameEntries, KeptSlots
<1>25. ASSUME NEW w \in Workers, ReleasePermit(w) PROVE SlotStep
  <2>1. ExecutionKept /\ UNCHANGED active_run_ids
    BY <1>0, <1>25, GotoExecutes, ReturnExecutes, ThreadSorts DEF ReleasePermit, Executing
  <2>2. QED BY <2>1, SameEntries, KeptSlots
<1>26. ASSUME NEW w \in Workers, UnregisterRun(w) PROVE SlotStep
  <2>0. PICK p \in Projects : p = job[w]
    BY <1>0, <1>26, ThreadSorts DEF UnregisterRun, ThreadTypes
  <2>1. /\ w \in Threads /\ pc[w] = "finished" /\ \A u \in Threads \ {w} : job'[u] = job[u]
        /\ active_run_ids' = [active_run_ids EXCEPT ![p] = NoThread]
    BY <1>0, <1>26, <2>0, ThreadSorts DEF UnregisterRun, ThreadTypes, Stay, Return
  <2>2. pc'[w] \in {"release_lock", "untrack", "idle"} /\ \A u \in Threads \ {w} : pc'[u] = pc[u]
    BY <1>0, <1>26, <2>1 DEF UnregisterRun, Goto, Return, ThreadTypes
  <2>3. active_run_ids'[p] = NoThread /\ \A q \in Projects \ {p} : active_run_ids'[q] = active_run_ids[q]
    BY <1>0, <2>1 DEF DataTypes
  <2>4. Executing(w) /\ ~Executing(w)' /\ \A v \in Workers \ {w} : Executing(v)' <=> Executing(v)
    BY <2>1, <2>2, ThreadSorts DEF Executing
  <2>5. \A v \in Workers : ~(Executing(v)' /\ job'[v] = p)
    <3>1. Registered(w)
      BY <2>1 DEF Registered, RegisteredPCs
    <3>2. QED BY <2>0, <2>1, <2>4, <3>1, OwnedSlot, ThreadSorts
  <2>6. \A q \in Projects \ {p} : (\E v \in Workers : Executing(v)' /\ job'[v] = q)
                                    <=> \E v \in Workers : Executing(v) /\ job[v] = q
    BY <2>0, <2>1, <2>4, ThreadSorts
  <2>7. SlotOf(p) = "executing" /\ SlotOf(p)' = "free"
    BY <2>0, <2>3, <2>4, <2>5 DEF SlotOf
  <2>8. \A q \in Projects \ {p} : SlotOf(q)' = SlotOf(q)
    BY <2>3, <2>6 DEF SlotOf
  <2>9. QED BY <2>1, <2>7, <2>8 DEF SlotStep, SlotMoves
<1>27. ASSUME NEW p \in Projects, HealProject(p) PROVE SlotStep
  <2>1. ExecutionKept /\ UNCHANGED active_run_ids
    BY <1>0, <1>27, CallExecutes, ThreadSorts DEF HealProject
  <2>2. QED BY <2>1, SameEntries, KeptSlots
<1>28. ASSUME HealBranch("scheduler") PROVE SlotStep
  <2>1. ExecutionKept /\ UNCHANGED active_run_ids
    BY <1>0, <1>28, GotoExecutes, ReturnExecutes, ThreadSorts DEF HealBranch, Executing
  <2>2. QED BY <2>1, SameEntries, KeptSlots
<1>29. ASSUME GhostStatus("scheduler") PROVE SlotStep
  <2>1. ExecutionKept /\ UNCHANGED active_run_ids
    BY <1>0, <1>29, GotoExecutes, ReturnExecutes, ThreadSorts DEF GhostStatus, Executing
  <2>2. QED BY <2>1, SameEntries, KeptSlots
<1>30. ASSUME GhostUnlock("scheduler") PROVE SlotStep
  <2>1. ExecutionKept /\ UNCHANGED active_run_ids
    BY <1>0, <1>30, GotoExecutes, ReturnExecutes, ThreadSorts DEF GhostUnlock, Executing
  <2>2. QED BY <2>1, SameEntries, KeptSlots
<1>31. ASSUME GhostPermit("scheduler") PROVE SlotStep
  <2>1. ExecutionKept /\ UNCHANGED active_run_ids
    BY <1>0, <1>31, GotoExecutes, ReturnExecutes, ThreadSorts DEF GhostPermit, Executing
  <2>2. QED BY <2>1, SameEntries, KeptSlots
<1>32. ASSUME CheckTicket("scheduler") PROVE SlotStep
  <2>1. UNCHANGED active_run_ids /\ pc["scheduler"] = "due"
    BY <1>32 DEF CheckTicket
  <2>2. CASE Return("scheduler")
    BY <1>0, <2>1, <2>2, ReturnExecutes, ThreadSorts, SameEntries, KeptSlots DEF Executing
  <2>3. CASE ~Return("scheduler")
    <3>1. Goto("scheduler", "acquire") /\ UNCHANGED job
      BY <1>32, <2>3 DEF CheckTicket
    <3>2. \A u \in Threads : pc'[u] = IF u = "scheduler" THEN "acquire" ELSE pc[u]
      BY <1>0, <3>1 DEF ThreadTypes, Goto
    <3>3. ExecutionKept
      BY <2>1, <3>1, <3>2, ThreadSorts DEF ExecutionKept, Executing
    <3>4. QED BY <2>1, <3>3, SameEntries, KeptSlots
  <2>4. QED BY <2>2, <2>3
<1>33. ASSUME SchedulerDrain PROVE SlotStep
  <2>1. ExecutionKept /\ UNCHANGED active_run_ids
    BY <1>0, <1>33, CallExecutes, ThreadSorts DEF SchedulerDrain
  <2>2. QED BY <2>1, SameEntries, KeptSlots
<1>34. ASSUME DailyReset \/ Tick \/ BoundsReached \/ UNCHANGED vars PROVE SlotStep
  <2>1. UNCHANGED <<pc, job, active_run_ids>>
    BY <1>34 DEF DailyReset, Tick, BoundsReached, vars, threads
  <2>2. QED BY <2>1, SameEntries, KeptSlots DEF ExecutionKept, Executing
<1>. QED
  BY <1>1, <1>2, <1>3, <1>4, <1>5, <1>6, <1>7, <1>8, <1>9, <1>10, <1>11, <1>12, <1>13, <1>14, <1>15, <1>16,
     <1>17, <1>18, <1>19, <1>20, <1>21, <1>22, <1>23, <1>24, <1>25, <1>26, <1>27, <1>28, <1>29, <1>30, <1>31,
     <1>32, <1>33, <1>34 DEF Next, LaunchStep, RunStep, HealStep

\* The engine's launching implements RunSlot: a project's slot is reserved, executed
\* in and given back, one run after the other, whatever recovery does to the locks.
THEOREM TurnsAreTaken == ASSUME Engine = TRUE PROVE Spec => RunsTakeTurns
<1>1. Init => Slots!Init
  BY SlotsInit DEF Slots!Init
<1>2. SlotStep => [Slots!Next]_([p \in Projects |-> SlotOf(p)])
  <2> DEFINE m == [p \in Projects |-> SlotOf(p)]
  <2> SUFFICES ASSUME SlotStep PROVE [Slots!Next]_m
    OBVIOUS
  <2>1. CASE \A p \in Projects : SlotOf(p)' = SlotOf(p)
    BY <2>1
  <2>2. ASSUME NEW p \in Projects, NEW from, NEW to, SlotMoves(p, from, to) PROVE Slots!Move(p, from, to)
    <3>1. m[p] = from /\ m' = [m EXCEPT ![p] = to]
      BY <2>2 DEF SlotMoves
    <3>2. QED BY <3>1 DEF Slots!Move
  <2>3. CASE \E p \in Projects : \/ SlotMoves(p, "free", "reserved") \/ SlotMoves(p, "reserved", "executing")
                                 \/ SlotMoves(p, "reserved", "free") \/ SlotMoves(p, "executing", "free")
    <3>1. PICK p \in Projects : \/ Slots!Move(p, "free", "reserved") \/ Slots!Move(p, "reserved", "executing")
                                \/ Slots!Move(p, "reserved", "free") \/ Slots!Move(p, "executing", "free")
      BY <2>2, <2>3
    <3>2. Slots!Next
      BY <3>1 DEF Slots!Next, Slots!Reserve, Slots!Begin, Slots!Abandon, Slots!End
    <3>3. QED BY <3>2
  <2>4. QED BY <2>1, <2>3 DEF SlotStep
<1>3. TypeInv /\ RunInv /\ StatusInv /\ [Next]_vars => [Slots!Next]_([p \in Projects |-> SlotOf(p)])
  BY <1>2, SlotsStep
<1>4. QED
  BY <1>1, <1>3, RunInvariance, StatusInvariance, PTL DEF Spec, RunsTakeTurns, Slots!Spec
-----------------------------------------------------------------------------
(* No permit is lost or made: the semaphore and the threads between taking   *)
(* and giving back a permit add up.  In each step one thread takes a permit, *)
(* gives one back, or hands it to the worker it has started.  The code loses *)
(* a permit in two places, a worker.start() that raises and a hook of the    *)
(* engine that raises for a single task: where they are reached, the sum     *)
(* goes.                                                                     *)

NoLeaks == "thread_error" \notin Faults /\ ({"claim_error", "hook_error"} \cap Faults # {} => "task" \notin Entries)

KindsAreEntries == \A t \in Threads : kind[t] \in Entries \cup {"pending", "heal", "none"}

LEMMA KindStep == ASSUME TypeInv, KindsAreEntries, [Next]_vars PROVE KindsAreEntries'
<1>0. ThreadTypes
  BY DEF TypeInv
<1>1. ASSUME UNCHANGED kind PROVE KindsAreEntries'
  BY <1>1 DEF KindsAreEntries
<1>2. ASSUME NEW t \in Threads, Return(t) PROVE KindsAreEntries'
  BY <1>0, <1>2 DEF KindsAreEntries, Return, ThreadTypes
<1>3. ASSUME NEW t \in Threads, NEW p, NEW k, NEW l, Call(t, p, k, l), k \in Entries \cup {"pending", "heal", "none"}
      PROVE  KindsAreEntries'
  BY <1>0, <1>3 DEF KindsAreEntries, Call, ThreadTypes
<1>4. ASSUME NEW t \in Threads, Spawn(t) PROVE KindsAreEntries'
  BY <1>0, <1>4 DEF KindsAreEntries, Spawn, ThreadTypes
<1>5. ASSUME NEW w \in Workers, StartThread(w) \/ StartFails(w) PROVE KindsAreEntries'
  BY <1>0, <1>5 DEF KindsAreEntries, StartThread, StartFails, ThreadTypes
<1>6. ASSUME NEW t \in Threads, Drain(t) PROVE KindsAreEntries'
  BY <1>0, <1>2, <1>6 DEF KindsAreEntries, Drain, ThreadTypes
<1>7. ASSUME NEW p \in Projects, NEW k \in {"manual", "task"},
             ConsiderScheduled(p) \/ CommandRun(p, k) \/ BotRun(p) \/ HealProject(p) \/ SchedulerDrain
      PROVE  KindsAreEntries'
  BY <1>3, <1>7, ThreadSorts DEF ConsiderScheduled, CommandRun, BotRun, HealProject, SchedulerDrain, MayLaunch
<1>8. ASSUME NEW t \in Threads,
             \/ AcquireLock(t) \/ RecoverCheck(t) \/ RecoverUnlock(t) \/ RecoverRepair(t) \/ Reacquire(t)
             \/ AcquirePermit(t) \/ ConsumeTicket(t) \/ ClaimRun(t) \/ RegisterRun(t) \/ UndoLock(t)
             \/ UndoPermit(t) \/ CheckTicket(t) \/ HealStep(t) \/ RunStep(t)
      PROVE  KindsAreEntries'
  BY <1>1, <1>2, <1>8 DEF AcquireLock, RecoverCheck, RecoverUnlock, RecoverRepair, Reacquire, AcquirePermit,
     ConsumeTicket, ClaimRun, RegisterRun, UndoLock, UndoPermit, CheckTicket, HealStep, HealBranch, GhostStatus,
     GhostUnlock, GhostPermit, RunStep, BeginRun, StartProcess, EndProcess, FinishLogic, UnregisterRun,
     UntrackWorker, ReleaseLock, ReleasePermit, Stay
<1>9. ASSUME DailyReset \/ Tick \/ BoundsReached \/ UNCHANGED vars PROVE KindsAreEntries'
  BY <1>1, <1>9 DEF DailyReset, Tick, BoundsReached, vars, threads
<1>10. ASSUME SchedulerDrain PROVE KindsAreEntries'
  BY <1>3, <1>10, ThreadSorts DEF SchedulerDrain
<1>. QED
  BY <1>4, <1>5, <1>6, <1>7, <1>8, <1>9, <1>10, ThreadSorts DEF Next, LaunchStep

Holders == {t \in Threads : HoldsPermit(t)}
Conserved == permits' + Cardinality(Holders') = permits + Cardinality(Holders)

LEMMA HoldersFinite == ASSUME IsFiniteSet(Workers) PROVE IsFiniteSet(Holders)
<1>1. IsFiniteSet(Callers)
  <2>1. Callers = ({"scheduler"} \cup {"command"}) \cup {"bot"}
    BY DEF Callers
  <2>2. QED BY <2>1, FS_Singleton, FS_Union
<1>2. IsFiniteSet(Threads)
  BY <1>1, FS_Union DEF Threads
<1>3. QED BY <1>2, FS_Subset DEF Holders

\* The four ways to account for a step.
LEMMA PermitsKept ==
  ASSUME \A u \in Threads : HoldsPermit(u)' <=> HoldsPermit(u), permits' = permits PROVE Conserved
<1>1. Holders' = Holders
  BY DEF Holders
<1>2. QED BY <1>1 DEF Conserved

LEMMA PermitTaken ==
  ASSUME IsFiniteSet(Workers), permits \in Nat, NEW t \in Threads, ~HoldsPermit(t), HoldsPermit(t)',
         \A u \in Threads \ {t} : HoldsPermit(u)' <=> HoldsPermit(u), permits' = permits - 1
  PROVE  Conserved
<1>1. Holders' = Holders \cup {t} /\ t \notin Holders
  BY DEF Holders
<1>2. Cardinality(Holders') = Cardinality(Holders) + 1 /\ Cardinality(Holders) \in Nat
  BY <1>1, HoldersFinite, FS_AddElement, FS_CardinalityType
<1>3. QED BY <1>2 DEF Conserved

LEMMA PermitGiven ==
  ASSUME IsFiniteSet(Workers), permits \in Nat, NEW t \in Threads, HoldsPermit(t), ~HoldsPermit(t)',
         \A u \in Threads \ {t} : HoldsPermit(u)' <=> HoldsPermit(u), permits' = permits + 1
  PROVE  Conserved
<1>1. Holders' = Holders \ {t} /\ t \in Holders
  BY DEF Holders
<1>2. Cardinality(Holders') = Cardinality(Holders) - 1 /\ Cardinality(Holders) \in Nat
  BY <1>1, HoldersFinite, FS_RemoveElement, FS_CardinalityType
<1>3. QED BY <1>2 DEF Conserved

LEMMA PermitHanded ==
  ASSUME IsFiniteSet(Workers), NEW t \in Threads, NEW w \in Threads,
         HoldsPermit(t), ~HoldsPermit(t)', ~HoldsPermit(w), HoldsPermit(w)',
         \A u \in Threads \ {t, w} : HoldsPermit(u)' <=> HoldsPermit(u), permits' = permits
  PROVE  Conserved
<1>1. Holders' = (Holders \ {t}) \cup {w} /\ t \in Holders /\ w \notin Holders \ {t}
  BY DEF Holders
<1>2. IsFiniteSet(Holders \ {t}) /\ Cardinality(Holders \ {t}) = Cardinality(Holders) - 1
  BY <1>1, HoldersFinite, FS_RemoveElement
<1>3. Cardinality(Holders') = Cardinality(Holders \ {t}) + 1 /\ Cardinality(Holders) \in Nat
  BY <1>1, <1>2, HoldersFinite, FS_AddElement, FS_CardinalityType
<1>4. QED BY <1>2, <1>3 DEF Conserved

\* Where a thread goes, the others stay.
LEMMA GotoMoves ==
  ASSUME ThreadTypes, NEW t \in Threads, NEW l, Goto(t, l)
  PROVE  pc'[t] = l /\ \A u \in Threads \ {t} : pc'[u] = pc[u]
  BY DEF ThreadTypes, Goto
LEMMA ReturnMoves ==
  ASSUME ThreadTypes, NEW t \in Threads, Return(t)
  PROVE  pc'[t] = "idle" /\ \A u \in Threads \ {t} : pc'[u] = pc[u]
  BY DEF ThreadTypes, Return
LEMMA CallMoves ==
  ASSUME ThreadTypes, NEW t \in Threads, NEW p, NEW k, NEW l, Call(t, p, k, l)
  PROVE  pc[t] = "idle" /\ pc'[t] = l /\ \A u \in Threads \ {t} : pc'[u] = pc[u]
  BY DEF ThreadTypes, Call, Goto

LEMMA MoveKeepsPermits ==
  ASSUME NEW t \in Threads, \A u \in Threads \ {t} : pc'[u] = pc[u],
         HoldsPermit(t)' <=> HoldsPermit(t), permits' = permits
  PROVE  Conserved
<1>1. \A u \in Threads \ {t} : HoldsPermit(u)' <=> HoldsPermit(u)
  BY DEF HoldsPermit
<1>2. QED BY <1>1, PermitsKept

LEMMA PermitsStep ==
  ASSUME IsFiniteSet(Workers), NoLeaks, TypeInv, StatusInv, KindsAreEntries, [Next]_vars,
         pc["scheduler"] # "ghost_permit", permits < PermitCap
  PROVE  Conserved
<1>. USE DEF slot
<1>0. ThreadTypes /\ permits \in Nat
  BY BoundAssumption DEF TypeInv, DataTypes
<1>1. ASSUME NEW p \in Projects, ConsiderScheduled(p) PROVE Conserved
  <2>1. permits' = permits /\ \A u \in Threads \ {"scheduler"} : pc'[u] = pc[u]
    BY <1>0, <1>1, CallMoves, ThreadSorts DEF ConsiderScheduled
  <2>2. HoldsPermit("scheduler")' <=> HoldsPermit("scheduler")
    BY <1>0, <1>1, CallMoves, ThreadSorts DEF ConsiderScheduled, HoldsPermit
  <2>3. QED BY <2>1, <2>2, MoveKeepsPermits, ThreadSorts
<1>2. ASSUME NEW p \in Projects, NEW k \in {"manual", "task"}, CommandRun(p, k) PROVE Conserved
  <2>1. permits' = permits /\ \A u \in Threads \ {"command"} : pc'[u] = pc[u]
    BY <1>0, <1>2, CallMoves, ThreadSorts DEF CommandRun
  <2>2. HoldsPermit("command")' <=> HoldsPermit("command")
    BY <1>0, <1>2, CallMoves, ThreadSorts DEF CommandRun, HoldsPermit
  <2>3. QED BY <2>1, <2>2, MoveKeepsPermits, ThreadSorts
<1>3. ASSUME NEW p \in Projects, BotRun(p) PROVE Conserved
  <2>1. permits' = permits /\ \A u \in Threads \ {"bot"} : pc'[u] = pc[u]
    BY <1>0, <1>3, CallMoves, ThreadSorts DEF BotRun
  <2>2. HoldsPermit("bot")' <=> HoldsPermit("bot")
    BY <1>0, <1>3, CallMoves, ThreadSorts DEF BotRun, HoldsPermit
  <2>3. QED BY <2>1, <2>2, MoveKeepsPermits, ThreadSorts
<1>4. ASSUME NEW t \in Threads, AcquireLock(t) PROVE Conserved
  <2>1. permits' = permits /\ \A u \in Threads \ {t} : pc'[u] = pc[u]
    BY <1>0, <1>4, GotoMoves, ReturnMoves DEF AcquireLock
  <2>2. HoldsPermit(t)' <=> HoldsPermit(t)
    BY <1>0, <1>4, GotoMoves, ReturnMoves DEF AcquireLock, HoldsPermit
  <2>3. QED BY <2>1, <2>2, MoveKeepsPermits, ThreadSorts
<1>5. ASSUME NEW t \in Threads, RecoverCheck(t) PROVE Conserved
  <2>1. permits' = permits /\ \A u \in Threads \ {t} : pc'[u] = pc[u]
    BY <1>0, <1>5, GotoMoves, ReturnMoves DEF RecoverCheck
  <2>2. HoldsPermit(t)' <=> HoldsPermit(t)
    BY <1>0, <1>5, GotoMoves, ReturnMoves DEF RecoverCheck, HoldsPermit
  <2>3. QED BY <2>1, <2>2, MoveKeepsPermits, ThreadSorts
<1>6. ASSUME NEW t \in Threads, RecoverUnlock(t) PROVE Conserved
  <2>1. permits' = permits /\ \A u \in Threads \ {t} : pc'[u] = pc[u]
    BY <1>0, <1>6, GotoMoves, ReturnMoves DEF RecoverUnlock
  <2>2. HoldsPermit(t)' <=> HoldsPermit(t)
    BY <1>0, <1>6, GotoMoves, ReturnMoves DEF RecoverUnlock, HoldsPermit
  <2>3. QED BY <2>1, <2>2, MoveKeepsPermits, ThreadSorts
<1>7. ASSUME NEW t \in Threads, RecoverRepair(t) PROVE Conserved
  <2>1. permits' = permits /\ \A u \in Threads \ {t} : pc'[u] = pc[u]
    BY <1>0, <1>7, GotoMoves, ReturnMoves DEF RecoverRepair
  <2>2. HoldsPermit(t)' <=> HoldsPermit(t)
    BY <1>0, <1>7, GotoMoves, ReturnMoves DEF RecoverRepair, HoldsPermit
  <2>3. QED BY <2>1, <2>2, MoveKeepsPermits, ThreadSorts
<1>8. ASSUME NEW t \in Threads, Reacquire(t) PROVE Conserved
  <2>1. permits' = permits /\ \A u \in Threads \ {t} : pc'[u] = pc[u]
    BY <1>0, <1>8, GotoMoves, ReturnMoves DEF Reacquire
  <2>2. HoldsPermit(t)' <=> HoldsPermit(t)
    BY <1>0, <1>8, GotoMoves, ReturnMoves DEF Reacquire, HoldsPermit
  <2>3. QED BY <2>1, <2>2, MoveKeepsPermits, ThreadSorts
<1>9. ASSUME NEW t \in Threads, ConsumeTicket(t) PROVE Conserved
  <2>1. permits' = permits /\ \A u \in Threads \ {t} : pc'[u] = pc[u]
    BY <1>0, <1>9, GotoMoves, ReturnMoves DEF ConsumeTicket
  <2>2. HoldsPermit(t)' <=> HoldsPermit(t)
    BY <1>0, <1>9, GotoMoves, ReturnMoves DEF ConsumeTicket, HoldsPermit
  <2>3. QED BY <2>1, <2>2, MoveKeepsPermits, ThreadSorts
<1>10. ASSUME NEW t \in Threads, RegisterRun(t) PROVE Conserved
  <2>1. permits' = permits /\ \A u \in Threads \ {t} : pc'[u] = pc[u]
    BY <1>0, <1>10, GotoMoves, ReturnMoves DEF RegisterRun
  <2>0. kind[t] = "task" => "hook_error" \notin Faults
    BY DEF KindsAreEntries, NoLeaks
  <2>2. HoldsPermit(t)' <=> HoldsPermit(t)
    BY <1>0, <1>10, <2>0, GotoMoves DEF RegisterRun, HoldsPermit
  <2>3. QED BY <2>1, <2>2, MoveKeepsPermits, ThreadSorts
<1>11. ASSUME NEW t \in Threads, UndoLock(t) PROVE Conserved
  <2>1. permits' = permits /\ \A u \in Threads \ {t} : pc'[u] = pc[u]
    BY <1>0, <1>11, GotoMoves, ReturnMoves DEF UndoLock
  <2>2. HoldsPermit(t)' <=> HoldsPermit(t)
    BY <1>0, <1>11, GotoMoves, ReturnMoves DEF UndoLock, HoldsPermit
  <2>3. QED BY <2>1, <2>2, MoveKeepsPermits, ThreadSorts
<1>12. ASSUME NEW t \in Threads, ClaimRun(t) PROVE Conserved
  <2>1. permits' = permits /\ \A u \in Threads \ {t} : pc'[u] = pc[u]
    BY <1>0, <1>12, GotoMoves, ReturnMoves DEF ClaimRun, NoLeaks, KindsAreEntries
  <2>2. HoldsPermit(t)' <=> HoldsPermit(t)
    BY <1>0, <1>12, GotoMoves, ReturnMoves DEF ClaimRun, NoLeaks, KindsAreEntries, HoldsPermit
  <2>3. QED BY <2>1, <2>2, MoveKeepsPermits, ThreadSorts
<1>13. ASSUME NEW t \in Threads, AcquirePermit(t) PROVE Conserved
  <2>1. CASE permits > 0
    <3>1. pc[t] = "permit" /\ permits' = permits - 1 /\ Goto(t, "ticket")
      BY <1>13, <2>1 DEF AcquirePermit
    <3>2. pc'[t] = "ticket" /\ \A u \in Threads \ {t} : pc'[u] = pc[u]
      BY <1>0, <3>1, GotoMoves
    <3>3. ~HoldsPermit(t) /\ HoldsPermit(t)' /\ \A u \in Threads \ {t} : HoldsPermit(u)' <=> HoldsPermit(u)
      BY <3>1, <3>2 DEF HoldsPermit
    <3>4. QED BY <1>0, <3>1, <3>3, PermitTaken
  <2>2. CASE permits = 0
    <3>1. pc[t] = "permit" /\ permits' = permits /\ Return(t)
      BY <1>13, <2>2 DEF AcquirePermit
    <3>2. pc'[t] = "idle" /\ \A u \in Threads \ {t} : pc'[u] = pc[u]
      BY <1>0, <3>1, ReturnMoves
    <3>3. HoldsPermit(t)' <=> HoldsPermit(t)
      BY <3>1, <3>2 DEF HoldsPermit
    <3>4. QED BY <3>1, <3>2, <3>3, MoveKeepsPermits
  <2>3. QED BY <1>0, <2>1, <2>2
<1>14. ASSUME NEW t \in Threads, UndoPermit(t) PROVE Conserved
  <2>1. pc[t] = "undo_permit" /\ permits' = permits + 1 /\ t \in Threads
    BY <1>0, <1>14, ThreadSorts DEF UndoPermit, ReleasePermitOnce
  <2>2. pc'[t] \in {"idle", "drain"} /\ \A u \in Threads \ {t} : pc'[u] = pc[u]
    BY <1>0, <1>14, <2>1, GotoMoves, ReturnMoves DEF UndoPermit
  <2>3. HoldsPermit(t) /\ ~HoldsPermit(t)' /\ \A u \in Threads \ {t} : HoldsPermit(u)' <=> HoldsPermit(u)
    BY <2>1, <2>2 DEF HoldsPermit
  <2>4. QED BY <1>0, <2>1, <2>3, PermitGiven
<1>15. ASSUME NEW w \in Workers, ReleasePermit(w) PROVE Conserved
  <2>1. pc[w] = "release_permit" /\ permits' = permits + 1 /\ w \in Threads
    BY <1>0, <1>15, ThreadSorts DEF ReleasePermit, ReleasePermitOnce
  <2>2. pc'[w] \in {"idle", "drain"} /\ \A u \in Threads \ {w} : pc'[u] = pc[u]
    BY <1>0, <1>15, <2>1, GotoMoves, ReturnMoves DEF ReleasePermit
  <2>3. HoldsPermit(w) /\ ~HoldsPermit(w)' /\ \A u \in Threads \ {w} : HoldsPermit(u)' <=> HoldsPermit(u)
    BY <2>1, <2>2 DEF HoldsPermit
  <2>4. QED BY <1>0, <2>1, <2>3, PermitGiven
<1>16. ASSUME NEW t \in Threads, Spawn(t) PROVE Conserved
  <2>1. PICK w \in Workers : pc[w] = "idle" /\ pc' = [pc EXCEPT ![t] = "start", ![w] = "created"]
    BY <1>16 DEF Spawn
  <2>2. pc[t] = "spawn" /\ w # t /\ w \in Threads /\ permits' = permits
    BY <1>16, <2>1, ThreadSorts DEF Spawn
  <2>3. pc'[t] = "start" /\ pc'[w] = "created" /\ \A u \in Threads \ {t, w} : pc'[u] = pc[u]
    BY <1>0, <2>1, <2>2 DEF ThreadTypes
  <2>4. \A u \in Threads : HoldsPermit(u)' <=> HoldsPermit(u)
    BY <2>1, <2>2, <2>3 DEF HoldsPermit
  <2>5. QED BY <2>2, <2>4, PermitsKept
<1>17. ASSUME NEW t \in Threads, Drain(t) PROVE Conserved
  <2>1. /\ pc[t] = "drain" /\ permits' = permits /\ pc'[t] \in {"idle", "acquire"}
        /\ \A u \in Threads \ {t} : pc'[u] = pc[u]
    BY <1>0, <1>17, ReturnMoves DEF Drain, ThreadTypes
  <2>2. HoldsPermit(t)' <=> HoldsPermit(t)
    BY <2>1 DEF HoldsPermit
  <2>3. QED BY <2>1, <2>2, MoveKeepsPermits
<1>18. ASSUME NEW w \in Workers, StartThread(w) PROVE Conserved
  <2>0. PICK t \in Threads : t = launcher[w]
    BY <1>0, <1>18 DEF StartThread, StatusInv, LaunchersWait
  <2>1. pc[w] = "created" /\ pc[t] = "start" /\ w \in Threads /\ w # t /\ permits' = permits
    BY <1>0, <1>18, <2>0, ThreadSorts DEF StartThread, StatusInv, LaunchersWait
  <2>2. pc'[w] = "begin" /\ pc'[t] \in {"drain", "idle"} /\ \A u \in Threads \ {t, w} : pc'[u] = pc[u]
    BY <1>0, <1>18, <2>0, <2>1 DEF StartThread, ThreadTypes
  <2>3. /\ HoldsPermit(t) /\ ~HoldsPermit(t)' /\ ~HoldsPermit(w) /\ HoldsPermit(w)'
        /\ \A u \in Threads \ {t, w} : HoldsPermit(u)' <=> HoldsPermit(u)
    BY <2>1, <2>2 DEF HoldsPermit
  <2>4. QED BY <2>1, <2>3, PermitHanded
<1>19. ASSUME NEW w \in Workers, StartFails(w) PROVE Conserved
  BY <1>19 DEF StartFails, NoLeaks
<1>20. ASSUME NEW w \in Workers, BeginRun(w) PROVE Conserved
  <2>1. permits' = permits /\ \A u \in Threads \ {w} : pc'[u] = pc[u]
    BY <1>0, <1>20, GotoMoves, ThreadSorts DEF BeginRun
  <2>2. HoldsPermit(w)' <=> HoldsPermit(w)
    BY <1>0, <1>20, GotoMoves, ThreadSorts DEF BeginRun, HoldsPermit
  <2>3. QED BY <2>1, <2>2, MoveKeepsPermits, ThreadSorts
<1>21. ASSUME NEW w \in Workers, StartProcess(w) PROVE Conserved
  <2>1. permits' = permits /\ \A u \in Threads \ {w} : pc'[u] = pc[u]
    BY <1>0, <1>21, GotoMoves, ThreadSorts DEF StartProcess
  <2>2. HoldsPermit(w)' <=> HoldsPermit(w)
    BY <1>0, <1>21, GotoMoves, ThreadSorts DEF StartProcess, HoldsPermit
  <2>3. QED BY <2>1, <2>2, MoveKeepsPermits, ThreadSorts
<1>22. ASSUME NEW w \in Workers, EndProcess(w) PROVE Conserved
  <2>1. permits' = permits /\ \A u \in Threads \ {w} : pc'[u] = pc[u]
    BY <1>0, <1>22, GotoMoves, ThreadSorts DEF EndProcess
  <2>2. HoldsPermit(w)' <=> HoldsPermit(w)
    BY <1>0, <1>22, GotoMoves, ThreadSorts DEF EndProcess, HoldsPermit
  <2>3. QED BY <2>1, <2>2, MoveKeepsPermits, ThreadSorts
<1>23. ASSUME NEW w \in Workers, FinishLogic(w) PROVE Conserved
  <2>1. permits' = permits /\ \A u \in Threads \ {w} : pc'[u] = pc[u]
    BY <1>0, <1>23, GotoMoves, ThreadSorts DEF FinishLogic
  <2>2. HoldsPermit(w)' <=> HoldsPermit(w)
    BY <1>0, <1>23, GotoMoves, ThreadSorts DEF FinishLogic, HoldsPermit
  <2>3. QED BY <2>1, <2>2, MoveKeepsPermits, ThreadSorts
<1>24. ASSUME NEW w \in Workers, UnregisterRun(w) PROVE Conserved
  <2>0. kind[w] = "task" => "hook_error" \notin Faults
    BY ThreadSorts DEF KindsAreEntries, NoLeaks
  <2>1. permits' = permits /\ \A u \in Threads \ {w} : pc'[u] = pc[u]
    BY <1>0, <1>24, <2>0, GotoMoves, ThreadSorts DEF UnregisterRun
  <2>2. HoldsPermit(w)' <=> HoldsPermit(w)
    BY <1>0, <1>24, <2>0, GotoMoves, ThreadSorts DEF UnregisterRun, HoldsPermit
  <2>3. QED BY <2>1, <2>2, MoveKeepsPermits, ThreadSorts
<1>25. ASSUME NEW w \in Workers, UntrackWorker(w) PROVE Conserved
  <2>1. permits' = permits /\ \A u \in Threads \ {w} : pc'[u] = pc[u]
    BY <1>0, <1>25, GotoMoves, ThreadSorts DEF UntrackWorker
  <2>2. HoldsPermit(w)' <=> HoldsPermit(w)
    BY <1>0, <1>25, GotoMoves, ThreadSorts DEF UntrackWorker, HoldsPermit
  <2>3. QED BY <2>1, <2>2, MoveKeepsPermits, ThreadSorts
<1>26. ASSUME NEW w \in Workers, ReleaseLock(w) PROVE Conserved
  <2>1. permits' = permits /\ \A u \in Threads \ {w} : pc'[u] = pc[u]
    BY <1>0, <1>26, GotoMoves, ThreadSorts DEF ReleaseLock
  <2>2. HoldsPermit(w)' <=> HoldsPermit(w)
    BY <1>0, <1>26, GotoMoves, ThreadSorts DEF ReleaseLock, HoldsPermit
  <2>3. QED BY <2>1, <2>2, MoveKeepsPermits, ThreadSorts
<1>27. ASSUME NEW p \in Projects, HealProject(p) PROVE Conserved
  <2>1. permits' = permits /\ \A u \in Threads \ {"scheduler"} : pc'[u] = pc[u]
    BY <1>0, <1>27, CallMoves, ThreadSorts DEF HealProject
  <2>2. HoldsPermit("scheduler")' <=> HoldsPermit("scheduler")
    BY <1>0, <1>27, CallMoves, ThreadSorts DEF HealProject, HoldsPermit
  <2>3. QED BY <2>1, <2>2, MoveKeepsPermits, ThreadSorts
<1>28. ASSUME HealBranch("scheduler") PROVE Conserved
  <2>1. permits' = permits /\ \A u \in Threads \ {"scheduler"} : pc'[u] = pc[u]
    BY <1>0, <1>28, GotoMoves, ReturnMoves, ThreadSorts DEF HealBranch
  <2>2. HoldsPermit("scheduler")' <=> HoldsPermit("scheduler")
    BY <1>0, <1>28, GotoMoves, ReturnMoves, ThreadSorts DEF HealBranch, HoldsPermit
  <2>3. QED BY <2>1, <2>2, MoveKeepsPermits, ThreadSorts
<1>29. ASSUME GhostStatus("scheduler") PROVE Conserved
  <2>1. permits' = permits /\ \A u \in Threads \ {"scheduler"} : pc'[u] = pc[u]
    BY <1>0, <1>29, GotoMoves, ReturnMoves, ThreadSorts DEF GhostStatus
  <2>2. HoldsPermit("scheduler")' <=> HoldsPermit("scheduler")
    BY <1>0, <1>29, GotoMoves, ReturnMoves, ThreadSorts DEF GhostStatus, HoldsPermit
  <2>3. QED BY <2>1, <2>2, MoveKeepsPermits, ThreadSorts
<1>30. ASSUME GhostUnlock("scheduler") PROVE Conserved
  <2>1. permits' = permits /\ \A u \in Threads \ {"scheduler"} : pc'[u] = pc[u]
    BY <1>0, <1>30, GotoMoves, ReturnMoves, ThreadSorts DEF GhostUnlock
  <2>2. HoldsPermit("scheduler")' <=> HoldsPermit("scheduler")
    BY <1>0, <1>30, GotoMoves, ReturnMoves, ThreadSorts DEF GhostUnlock, HoldsPermit
  <2>3. QED BY <2>1, <2>2, MoveKeepsPermits, ThreadSorts
<1>31. ASSUME CheckTicket("scheduler") PROVE Conserved
  <2>1. permits' = permits /\ \A u \in Threads \ {"scheduler"} : pc'[u] = pc[u]
    BY <1>0, <1>31, GotoMoves, ReturnMoves, ThreadSorts DEF CheckTicket
  <2>2. HoldsPermit("scheduler")' <=> HoldsPermit("scheduler")
    BY <1>0, <1>31, GotoMoves, ReturnMoves, ThreadSorts DEF CheckTicket, HoldsPermit
  <2>3. QED BY <2>1, <2>2, MoveKeepsPermits, ThreadSorts
<1>32. ASSUME GhostPermit("scheduler") PROVE Conserved
  BY <1>32 DEF GhostPermit
<1>33. ASSUME SchedulerDrain PROVE Conserved
  <2>1. permits' = permits /\ \A u \in Threads \ {"scheduler"} : pc'[u] = pc[u]
    BY <1>0, <1>33, CallMoves, ThreadSorts DEF SchedulerDrain
  <2>2. HoldsPermit("scheduler")' <=> HoldsPermit("scheduler")
    BY <1>0, <1>33, CallMoves, ThreadSorts DEF SchedulerDrain, HoldsPermit
  <2>3. QED BY <2>1, <2>2, MoveKeepsPermits, ThreadSorts
<1>34. ASSUME DailyReset \/ Tick \/ BoundsReached \/ UNCHANGED vars PROVE Conserved
  <2>1. UNCHANGED <<pc, permits>>
    BY <1>34 DEF DailyReset, Tick, BoundsReached, vars, threads
  <2>2. QED BY <2>1, PermitsKept DEF HoldsPermit
<1>. QED
  BY <1>1, <1>2, <1>3, <1>4, <1>5, <1>6, <1>7, <1>8, <1>9, <1>10, <1>11, <1>12, <1>13, <1>14, <1>15, <1>16,
     <1>17, <1>18, <1>19, <1>20, <1>21, <1>22, <1>23, <1>24, <1>25, <1>26, <1>27, <1>28, <1>29, <1>30, <1>31,
     <1>32, <1>33, <1>34 DEF Next, LaunchStep, RunStep, HealStep

\* Launches, refusals, queued launches, recoveries and the ends of runs give back what
\* they took, for any number of projects, workers and permits; only healing makes one.
THEOREM PermitsAddUp ==
  ASSUME IsFiniteSet(Workers), NoLeaks PROVE Spec => PermitsConserved
<1>1. Init => KindsAreEntries
  BY DEF Init, KindsAreEntries
<1>2. TypeInv /\ StatusInv /\ KindsAreEntries /\ [Next]_vars => (TypeInv /\ StatusInv /\ KindsAreEntries)'
  BY TypeStep, StatusStep, KindStep
<1>3. TypeInv /\ StatusInv /\ KindsAreEntries /\ [Next]_vars
        => [pc["scheduler"] # "ghost_permit" /\ permits < PermitCap
              => permits' + PermitsInUse' = permits + PermitsInUse]_vars
  <2>1. Conserved <=> permits' + PermitsInUse' = permits + PermitsInUse
    BY DEF Conserved, PermitsInUse, Holders
  <2>2. QED BY <2>1, PermitsStep
<1>4. QED
  BY TypeInit, StatusInit, <1>1, <1>2, <1>3, PTL DEF Spec, PermitsConserved
-----------------------------------------------------------------------------
(* A launch by the scheduler holds project_state_lock from the check of its  *)
(* ticket to worker.start(), whatever lock and permit it has to wait for: no *)
(* run ends and no reset comes in between.                                   *)

HeldPCs == {"acquire", "recover", "unlock", "repair", "reacquire", "permit", "ticket", "claim", "register",
            "undo", "undo_permit", "spawn", "start"}
LockInv ==
  /\ \A t \in Threads : pc[t] \in HeldPCs /\ kind[t] = "scheduled" => t = "scheduler" /\ project_state_lock = t
  /\ \A t \in Threads : pc[t] = "look" => kind[t] = "heal"

LEMMA GotoLock ==
  ASSUME ThreadTypes, LockInv, NEW t \in Threads, NEW l, Goto(t, l), Stay,
         l # "look", l \notin HeldPCs \/ pc[t] \in HeldPCs \/ pc[t] = "look"
  PROVE  LockInv'
  BY ThreadSorts DEF ThreadTypes, LockInv, Goto, Stay
LEMMA ReturnLock == ASSUME ThreadTypes, LockInv, NEW t \in Threads, Return(t) PROVE LockInv'
  BY ThreadSorts DEF ThreadTypes, LockInv, Return, HeldPCs
LEMMA CallLock ==
  ASSUME ThreadTypes, LockInv, NEW t \in Threads, NEW p, NEW k, NEW l, Call(t, p, k, l),
         k = "heal" \/ (l # "look" /\ (k # "scheduled" \/ l \notin HeldPCs)),
         UNCHANGED project_state_lock
  PROVE  LockInv'
  BY ThreadSorts DEF ThreadTypes, LockInv, Call, Goto

LEMMA LockStep == ASSUME TypeInv, StatusInv, LockInv, [Next]_vars PROVE LockInv'
<1>0. ThreadTypes
  BY DEF TypeInv
<1>1. ASSUME NEW p \in Projects, ConsiderScheduled(p) PROVE LockInv'
  BY <1>0, <1>1, CallLock, ThreadSorts DEF ConsiderScheduled, HeldPCs
<1>2. ASSUME NEW p \in Projects, NEW k \in {"manual", "task"}, CommandRun(p, k) PROVE LockInv'
  BY <1>0, <1>2, CallLock, ThreadSorts DEF CommandRun, HeldPCs
<1>3. ASSUME NEW p \in Projects, BotRun(p) PROVE LockInv'
  BY <1>0, <1>3, CallLock, ThreadSorts DEF BotRun, HeldPCs
<1>4. ASSUME NEW t \in Threads, AcquireLock(t) PROVE LockInv'
  BY <1>0, <1>4, GotoLock, ReturnLock, ThreadSorts DEF AcquireLock, HeldPCs
<1>5. ASSUME NEW t \in Threads, RecoverCheck(t) PROVE LockInv'
  BY <1>0, <1>5, GotoLock, ReturnLock, ThreadSorts DEF RecoverCheck, HeldPCs
<1>6. ASSUME NEW t \in Threads, RecoverUnlock(t) PROVE LockInv'
  BY <1>0, <1>6, GotoLock, ReturnLock, ThreadSorts DEF RecoverUnlock, HeldPCs
<1>7. ASSUME NEW t \in Threads, RecoverRepair(t) PROVE LockInv'
  BY <1>0, <1>7, GotoLock, ReturnLock, ThreadSorts DEF RecoverRepair, HeldPCs
<1>8. ASSUME NEW t \in Threads, Reacquire(t) PROVE LockInv'
  BY <1>0, <1>8, GotoLock, ReturnLock, ThreadSorts DEF Reacquire, HeldPCs
<1>9. ASSUME NEW t \in Threads, AcquirePermit(t) PROVE LockInv'
  BY <1>0, <1>9, GotoLock, ReturnLock, ThreadSorts DEF AcquirePermit, HeldPCs
<1>10. ASSUME NEW t \in Threads, ConsumeTicket(t) PROVE LockInv'
  BY <1>0, <1>10, GotoLock, ReturnLock, ThreadSorts DEF ConsumeTicket, HeldPCs
<1>11. ASSUME NEW t \in Threads, ClaimRun(t) PROVE LockInv'
  BY <1>0, <1>11, GotoLock, ReturnLock, ThreadSorts DEF ClaimRun, HeldPCs
<1>12. ASSUME NEW t \in Threads, RegisterRun(t) PROVE LockInv'
  BY <1>0, <1>12, GotoLock, ReturnLock, ThreadSorts DEF RegisterRun, HeldPCs
<1>13. ASSUME NEW t \in Threads, UndoLock(t) PROVE LockInv'
  BY <1>0, <1>13, GotoLock, ReturnLock, ThreadSorts DEF UndoLock, HeldPCs
<1>14. ASSUME NEW t \in Threads, UndoPermit(t) PROVE LockInv'
  BY <1>0, <1>14, GotoLock, ReturnLock, ThreadSorts DEF UndoPermit, HeldPCs
<1>15. ASSUME NEW t \in Threads, Spawn(t) PROVE LockInv'
  BY <1>0, <1>15, ThreadSorts DEF Spawn, ThreadTypes, LockInv, HeldPCs
<1>16. ASSUME NEW t \in Threads, Drain(t) PROVE LockInv'
  BY <1>0, <1>16, ReturnLock, ThreadSorts DEF Drain, ThreadTypes, LockInv, HeldPCs
<1>17. ASSUME NEW w \in Workers, StartThread(w) PROVE LockInv'
  BY <1>0, <1>17, ThreadSorts DEF StartThread, ThreadTypes, LockInv, HeldPCs, StatusInv, LaunchersWait
<1>18. ASSUME NEW w \in Workers, StartFails(w) PROVE LockInv'
  BY <1>0, <1>18, ThreadSorts DEF StartFails, ThreadTypes, LockInv, HeldPCs, StatusInv, LaunchersWait
<1>19. ASSUME NEW w \in Workers, BeginRun(w) PROVE LockInv'
  BY <1>0, <1>19, GotoLock, ReturnLock, ThreadSorts DEF BeginRun, HeldPCs
<1>20. ASSUME NEW w \in Workers, StartProcess(w) PROVE LockInv'
  BY <1>0, <1>20, GotoLock, ReturnLock, ThreadSorts DEF StartProcess, HeldPCs
<1>21. ASSUME NEW w \in Workers, EndProcess(w) PROVE LockInv'
  BY <1>0, <1>21, GotoLock, ReturnLock, ThreadSorts DEF EndProcess, HeldPCs
<1>22. ASSUME NEW w \in Workers, FinishLogic(w) PROVE LockInv'
  BY <1>0, <1>22, GotoLock, ReturnLock, ThreadSorts DEF FinishLogic, HeldPCs
<1>23. ASSUME NEW w \in Workers, UnregisterRun(w) PROVE LockInv'
  BY <1>0, <1>23, GotoLock, ReturnLock, ThreadSorts DEF UnregisterRun, HeldPCs
<1>24. ASSUME NEW w \in Workers, UntrackWorker(w) PROVE LockInv'
  BY <1>0, <1>24, GotoLock, ReturnLock, ThreadSorts DEF UntrackWorker, HeldPCs
<1>25. ASSUME NEW w \in Workers, ReleaseLock(w) PROVE LockInv'
  BY <1>0, <1>25, GotoLock, ReturnLock, ThreadSorts DEF ReleaseLock, HeldPCs
<1>26. ASSUME NEW w \in Workers, ReleasePermit(w) PROVE LockInv'
  BY <1>0, <1>26, GotoLock, ReturnLock, ThreadSorts DEF ReleasePermit, HeldPCs
<1>27. ASSUME NEW p \in Projects, HealProject(p) PROVE LockInv'
  BY <1>0, <1>27, CallLock, ThreadSorts DEF HealProject, HeldPCs
<1>28. ASSUME HealBranch("scheduler") PROVE LockInv'
  BY <1>0, <1>28, GotoLock, ReturnLock, ThreadSorts DEF HealBranch, HeldPCs
<1>29. ASSUME GhostStatus("scheduler") PROVE LockInv'
  BY <1>0, <1>29, GotoLock, ReturnLock, ThreadSorts DEF GhostStatus, HeldPCs
<1>30. ASSUME GhostUnlock("scheduler") PROVE LockInv'
  BY <1>0, <1>30, GotoLock, ReturnLock, ThreadSorts DEF GhostUnlock, HeldPCs
<1>31. ASSUME GhostPermit("scheduler") PROVE LockInv'
  BY <1>0, <1>31, GotoLock, ReturnLock, ThreadSorts DEF GhostPermit, HeldPCs
<1>32. ASSUME CheckTicket("scheduler") PROVE LockInv'
  BY <1>0, <1>32, ReturnLock, ThreadAssumption, ThreadSorts DEF CheckTicket, ThreadTypes, LockInv, Goto
<1>33. ASSUME SchedulerDrain PROVE LockInv'
  BY <1>0, <1>33, CallLock, ThreadSorts DEF SchedulerDrain, HeldPCs
<1>34. ASSUME DailyReset \/ Tick \/ BoundsReached \/ UNCHANGED vars PROVE LockInv'
  BY <1>34 DEF DailyReset, Tick, BoundsReached, vars, threads, LockInv
<1>. QED
  BY <1>1, <1>2, <1>3, <1>4, <1>5, <1>6, <1>7, <1>8, <1>9, <1>10, <1>11, <1>12, <1>13, <1>14, <1>15, <1>16,
     <1>17, <1>18, <1>19, <1>20, <1>21, <1>22, <1>23, <1>24, <1>25, <1>26, <1>27, <1>28, <1>29, <1>30, <1>31,
     <1>32, <1>33, <1>34
  DEF Next, LaunchStep, RunStep, HealStep

\* A thread leaves the ticket only by taking it.
LEMMA TicketTaken ==
  ASSUME TypeInv, StatusInv, [Next]_vars, NEW u \in Threads, pc[u] = "ticket", pc'[u] # "ticket" PROVE ConsumeTicket(u)
<1>0. ThreadTypes
  BY DEF TypeInv
<1>1. ASSUME NEW p \in Projects, ConsiderScheduled(p) PROVE FALSE
  BY <1>0, <1>1, GotoMoves, ReturnMoves, CallMoves, ThreadSorts DEF ConsiderScheduled
<1>2. ASSUME NEW p \in Projects, NEW k \in {"manual", "task"}, CommandRun(p, k) PROVE FALSE
  BY <1>0, <1>2, GotoMoves, ReturnMoves, CallMoves, ThreadSorts DEF CommandRun
<1>3. ASSUME NEW p \in Projects, BotRun(p) PROVE FALSE
  BY <1>0, <1>3, GotoMoves, ReturnMoves, CallMoves, ThreadSorts DEF BotRun
<1>4. ASSUME NEW t \in Threads, AcquireLock(t) PROVE FALSE
  BY <1>0, <1>4, GotoMoves, ReturnMoves, CallMoves, ThreadSorts DEF AcquireLock
<1>5. ASSUME NEW t \in Threads, RecoverCheck(t) PROVE FALSE
  BY <1>0, <1>5, GotoMoves, ReturnMoves, CallMoves, ThreadSorts DEF RecoverCheck
<1>6. ASSUME NEW t \in Threads, RecoverUnlock(t) PROVE FALSE
  BY <1>0, <1>6, GotoMoves, ReturnMoves, CallMoves, ThreadSorts DEF RecoverUnlock
<1>7. ASSUME NEW t \in Threads, RecoverRepair(t) PROVE FALSE
  BY <1>0, <1>7, GotoMoves, ReturnMoves, CallMoves, ThreadSorts DEF RecoverRepair
<1>8. ASSUME NEW t \in Threads, Reacquire(t) PROVE FALSE
  BY <1>0, <1>8, GotoMoves, ReturnMoves, CallMoves, ThreadSorts DEF Reacquire
<1>9. ASSUME NEW t \in Threads, AcquirePermit(t) PROVE FALSE
  BY <1>0, <1>9, GotoMoves, ReturnMoves, CallMoves, ThreadSorts DEF AcquirePermit
<1>10. ASSUME NEW t \in Threads, ConsumeTicket(t) PROVE ConsumeTicket(u)
  BY <1>0, <1>10, GotoMoves DEF ConsumeTicket
<1>11. ASSUME NEW t \in Threads, ClaimRun(t) PROVE FALSE
  BY <1>0, <1>11, GotoMoves, ReturnMoves, CallMoves, ThreadSorts DEF ClaimRun
<1>12. ASSUME NEW t \in Threads, RegisterRun(t) PROVE FALSE
  BY <1>0, <1>12, GotoMoves, ReturnMoves, CallMoves, ThreadSorts DEF RegisterRun
<1>13. ASSUME NEW t \in Threads, UndoLock(t) PROVE FALSE
  BY <1>0, <1>13, GotoMoves, ReturnMoves, CallMoves, ThreadSorts DEF UndoLock
<1>14. ASSUME NEW t \in Threads, UndoPermit(t) PROVE FALSE
  BY <1>0, <1>14, GotoMoves, ReturnMoves, CallMoves, ThreadSorts DEF UndoPermit
<1>15. ASSUME NEW t \in Threads, Spawn(t) PROVE FALSE
  BY <1>0, <1>15 DEF Spawn, ThreadTypes
<1>16. ASSUME NEW t \in Threads, Drain(t) PROVE FALSE
  BY <1>0, <1>16, ReturnMoves DEF Drain, ThreadTypes
<1>17. ASSUME NEW w \in Workers, StartThread(w) PROVE FALSE
  BY <1>0, <1>17, ThreadSorts DEF StartThread, ThreadTypes, StatusInv, LaunchersWait
<1>18. ASSUME NEW w \in Workers, StartFails(w) PROVE FALSE
  BY <1>0, <1>18, ThreadSorts DEF StartFails, ThreadTypes, StatusInv, LaunchersWait
<1>19. ASSUME NEW w \in Workers, BeginRun(w) PROVE FALSE
  BY <1>0, <1>19, GotoMoves, ReturnMoves, CallMoves, ThreadSorts DEF BeginRun
<1>20. ASSUME NEW w \in Workers, StartProcess(w) PROVE FALSE
  BY <1>0, <1>20, GotoMoves, ReturnMoves, CallMoves, ThreadSorts DEF StartProcess
<1>21. ASSUME NEW w \in Workers, EndProcess(w) PROVE FALSE
  BY <1>0, <1>21, GotoMoves, ReturnMoves, CallMoves, ThreadSorts DEF EndProcess
<1>22. ASSUME NEW w \in Workers, FinishLogic(w) PROVE FALSE
  BY <1>0, <1>22, GotoMoves, ReturnMoves, CallMoves, ThreadSorts DEF FinishLogic
<1>23. ASSUME NEW w \in Workers, UnregisterRun(w) PROVE FALSE
  BY <1>0, <1>23, GotoMoves, ReturnMoves, CallMoves, ThreadSorts DEF UnregisterRun
<1>24. ASSUME NEW w \in Workers, UntrackWorker(w) PROVE FALSE
  BY <1>0, <1>24, GotoMoves, ReturnMoves, CallMoves, ThreadSorts DEF UntrackWorker
<1>25. ASSUME NEW w \in Workers, ReleaseLock(w) PROVE FALSE
  BY <1>0, <1>25, GotoMoves, ReturnMoves, CallMoves, ThreadSorts DEF ReleaseLock
<1>26. ASSUME NEW w \in Workers, ReleasePermit(w) PROVE FALSE
  BY <1>0, <1>26, GotoMoves, ReturnMoves, CallMoves, ThreadSorts DEF ReleasePermit
<1>27. ASSUME NEW p \in Projects, HealProject(p) PROVE FALSE
  BY <1>0, <1>27, GotoMoves, ReturnMoves, CallMoves, ThreadSorts DEF HealProject
<1>28. ASSUME HealBranch("scheduler") PROVE FALSE
  BY <1>0, <1>28, GotoMoves, ReturnMoves, CallMoves, ThreadSorts DEF HealBranch
<1>29. ASSUME GhostStatus("scheduler") PROVE FALSE
  BY <1>0, <1>29, GotoMoves, ReturnMoves, CallMoves, ThreadSorts DEF GhostStatus
<1>30. ASSUME GhostUnlock("scheduler") PROVE FALSE
  BY <1>0, <1>30, GotoMoves, ReturnMoves, CallMoves, ThreadSorts DEF GhostUnlock
<1>31. ASSUME GhostPermit("scheduler") PROVE FALSE
  BY <1>0, <1>31, GotoMoves, ReturnMoves, CallMoves, ThreadSorts DEF GhostPermit
<1>32. ASSUME CheckTicket("scheduler") PROVE FALSE
  BY <1>0, <1>32, GotoMoves, ReturnMoves, CallMoves, ThreadSorts DEF CheckTicket
<1>33. ASSUME SchedulerDrain PROVE FALSE
  BY <1>0, <1>33, GotoMoves, ReturnMoves, CallMoves, ThreadSorts DEF SchedulerDrain
<1>34. ASSUME DailyReset \/ Tick \/ BoundsReached \/ UNCHANGED vars PROVE FALSE
  BY <1>34 DEF DailyReset, Tick, BoundsReached, vars, threads
<1>. QED
  BY <1>1, <1>2, <1>3, <1>4, <1>5, <1>6, <1>7, <1>8, <1>9, <1>10, <1>11, <1>12, <1>13, <1>14, <1>15, <1>16,
     <1>17, <1>18, <1>19, <1>20, <1>21, <1>22, <1>23, <1>24, <1>25, <1>26, <1>27, <1>28, <1>29, <1>30, <1>31,
     <1>32, <1>33, <1>34
  DEF Next, LaunchStep, RunStep, HealStep
-----------------------------------------------------------------------------
(* Tickets, as long as no launch is queued: a launch out of pending_queue     *)
(* takes next_run as it finds it.  What is consumed was due, next_run never   *)
(* falls behind it, and the launch that has checked its ticket finds it as    *)
(* it was, or as calculate_next_run makes it again, when it consumes it.      *)

BeforeTicket == {"acquire", "recover", "unlock", "repair", "reacquire", "permit", "ticket"}
AboutToConsume == pc["scheduler"] \in BeforeTicket /\ kind["scheduler"] = "scheduled"
Consumed(p) == last_consumed_ticket[p] <= next_run[p] /\ last_consumed_ticket[p] <= Today
Unused(p) == last_consumed_ticket[p] < next_run[p] /\ next_run[p] <= Today

TicketInv ==
  /\ \A p \in Projects : Consumed(p)
  /\ AboutToConsume => Unused(job["scheduler"])
  /\ \A t \in Threads : kind[t] # "pending"

\* A step that consumes nothing, and leaves each next_run or calculates it again.
NoneConsumed ==
  /\ \A p \in Projects : next_run'[p] \in {next_run[p], calculate_next_run(p)}
  /\ UNCHANGED last_consumed_ticket
  /\ now' \in Nat /\ now <= now'
NoneBegins ==
  /\ \A t \in Threads : kind'[t] # "pending"
  /\ AboutToConsume' => AboutToConsume /\ job'["scheduler"] = job["scheduler"]

LEMMA LaterDays == ASSUME NEW a \in Nat, NEW b \in Nat, a <= b PROVE a \div 2 \in Nat /\ b \div 2 \in Nat /\ a \div 2 <= b \div 2
<1>1. a \div 2 \in Nat /\ 2 * (a \div 2) <= a
  OBVIOUS
<1>2. b \div 2 \in Nat /\ b < 2 * (b \div 2) + 2
  OBVIOUS
<1>3. QED BY <1>1, <1>2

LEMMA RecalculatedTicket ==
  ASSUME TypeInv, NoneConsumed, NEW p \in Projects, Consumed(p) PROVE Consumed(p)' /\ (Unused(p) => Unused(p)')
<1>. DEFINE last == last_consumed_ticket[p]
            next == next_run[p]
<1>1. /\ last \in Nat \cup {-1} /\ next \in Nat /\ now \in Nat /\ last' = last
      /\ Today \in Nat /\ Today' \in Nat /\ Today <= Today'
  <2>1. now \in Nat /\ now' \in Nat /\ now <= now'
    BY DEF TypeInv, DataTypes, NoneConsumed
  <2>2. now \div 2 \in Nat /\ now' \div 2 \in Nat /\ now \div 2 <= now' \div 2
    <3>1. PICK a \in Nat : a = now
      BY <2>1
    <3>2. PICK b \in Nat : b = now'
      BY <2>1
    <3>3. a <= b
      BY <2>1, <3>1, <3>2
    <3>4. a \div 2 \in Nat /\ b \div 2 \in Nat /\ a \div 2 <= b \div 2
      BY <3>3, LaterDays
    <3>5. QED BY <3>1, <3>2, <3>4
  <2>3. Today \in Nat /\ Today' \in Nat /\ Today <= Today'
    BY <2>2 DEF Today
  <2>4. QED BY <2>1, <2>3 DEF TypeInv, DataTypes, NoneConsumed
<1>2. next' \in {next, calculate_next_run(p)}
  BY DEF NoneConsumed
<1>3. last <= Today => calculate_next_run(p) \in Nat /\ last <= calculate_next_run(p)
  BY <1>1 DEF calculate_next_run
<1>4. last < Today => calculate_next_run(p) = Today
  BY <1>1 DEF calculate_next_run
<1>. HIDE DEF last, next
<1>5. last' <= next' /\ last' <= Today' /\ (last < next /\ next <= Today => last' < next' /\ next' <= Today')
  <2>. DEFINE c == calculate_next_run(p)
              d == Today
              e == Today'
  <2>1. /\ last <= next /\ last <= d
    BY DEF Consumed, last, next
  <2>. HIDE DEF c, d, e
  <2>2. /\ d \in Nat /\ e \in Nat /\ d <= e /\ (last <= d => c \in Nat /\ last <= c) /\ (last < d => c = d)
    BY <1>1, <1>3, <1>4 DEF c, d, e
  <2>3. last' <= next' /\ last' <= e /\ (last < next /\ next <= d => last' < next' /\ next' <= e)
    BY <1>1, <1>2, <2>1, <2>2 DEF c
  <2>4. QED BY <2>3 DEF d, e
<1>6. QED BY <1>5 DEF Consumed, Unused, last, next

LEMMA TicketsKept == ASSUME TypeInv, TicketInv, NoneConsumed, NoneBegins, AboutToConsume => job["scheduler"] \in Projects
                     PROVE  TicketInv'
<1>1. \A p \in Projects : Consumed(p)'
  BY RecalculatedTicket DEF TicketInv
<1>2. AboutToConsume' => Unused(job["scheduler"])'
  <2>. SUFFICES ASSUME AboutToConsume' PROVE Unused(job["scheduler"])'
    OBVIOUS
  <2>1. PICK p \in Projects : p = job["scheduler"]
    BY DEF NoneBegins
  <2>2. p = job'["scheduler"] /\ Unused(p) /\ Consumed(p)
    BY <2>1 DEF NoneBegins, TicketInv
  <2>3. Unused(p)'
    BY <2>2, RecalculatedTicket
  <2>4. QED BY <2>2, <2>3 DEF Unused
<1>3. QED BY <1>1, <1>2 DEF TicketInv, NoneBegins

LEMMA GotoBegins ==
  ASSUME ThreadTypes, LockInv, TicketInv, NEW t \in Threads, NEW l, Goto(t, l), Stay,
         l \notin BeforeTicket \/ pc[t] \in BeforeTicket \cup {"look"}
  PROVE  NoneBegins
  BY ThreadSorts DEF ThreadTypes, LockInv, TicketInv, NoneBegins, AboutToConsume, Goto, Stay
LEMMA ReturnBegins == ASSUME ThreadTypes, TicketInv, NEW t \in Threads, Return(t) PROVE NoneBegins
  BY ThreadSorts DEF ThreadTypes, TicketInv, NoneBegins, AboutToConsume, Return, BeforeTicket
LEMMA CallBegins ==
  ASSUME ThreadTypes, TicketInv, NEW t \in Threads, NEW p, NEW k, NEW l, Call(t, p, k, l),
         k # "pending", k # "scheduled" \/ l \notin BeforeTicket
  PROVE  NoneBegins
  BY ThreadSorts DEF ThreadTypes, TicketInv, NoneBegins, AboutToConsume, Call, Goto
LEMMA SameTickets == ASSUME TypeInv, UNCHANGED <<next_run, last_consumed_ticket, now>> PROVE NoneConsumed
  BY DEF TypeInv, DataTypes, NoneConsumed

LEMMA TicketStep ==
  ASSUME TypeInv, StatusInv, LockInv, TicketInv, pending_queue = << >>, [Next]_vars PROVE TicketInv'
<1>0. /\ ThreadTypes /\ DataTypes
      /\ AboutToConsume => job["scheduler"] \in Projects
  BY ThreadSorts DEF TypeInv, ThreadTypes, AboutToConsume, BeforeTicket
<1>1. ASSUME NEW p \in Projects, ConsiderScheduled(p) PROVE TicketInv'
  <2>1. NoneBegins
    BY <1>0, <1>1, GotoBegins, ReturnBegins, CallBegins, ThreadSorts DEF ConsiderScheduled, BeforeTicket
  <2>2. NoneConsumed
    BY <1>1, SameTickets DEF ConsiderScheduled, ticket, clock
  <2>3. QED BY <1>0, <2>1, <2>2, TicketsKept
<1>2. ASSUME NEW p \in Projects, NEW k \in {"manual", "task"}, CommandRun(p, k) PROVE TicketInv'
  <2>1. NoneBegins
    BY <1>0, <1>2, GotoBegins, ReturnBegins, CallBegins, ThreadSorts DEF CommandRun, BeforeTicket
  <2>2. NoneConsumed
    BY <1>2, SameTickets DEF CommandRun, ticket, clock
  <2>3. QED BY <1>0, <2>1, <2>2, TicketsKept
<1>3. ASSUME NEW p \in Projects, BotRun(p) PROVE TicketInv'
  <2>1. NoneBegins
    BY <1>0, <1>3, GotoBegins, ReturnBegins, CallBegins, ThreadSorts DEF BotRun, BeforeTicket
  <2>2. NoneConsumed
    BY <1>3, SameTickets DEF BotRun, ticket, clock
  <2>3. QED BY <1>0, <2>1, <2>2, TicketsKept
<1>4. ASSUME NEW t \in Threads, AcquireLock(t) PROVE TicketInv'
  <2>1. NoneBegins
    BY <1>0, <1>4, GotoBegins, ReturnBegins, CallBegins, ThreadSorts DEF AcquireLock, BeforeTicket
  <2>2. NoneConsumed
    BY <1>4, SameTickets DEF AcquireLock, ticket, clock
  <2>3. QED BY <1>0, <2>1, <2>2, TicketsKept
<1>5. ASSUME NEW t \in Threads, RecoverCheck(t) PROVE TicketInv'
  <2>1. NoneBegins
    BY <1>0, <1>5, GotoBegins, ReturnBegins, CallBegins, ThreadSorts DEF RecoverCheck, BeforeTicket
  <2>2. NoneConsumed
    BY <1>5, SameTickets DEF RecoverCheck, ticket, clock
  <2>3. QED BY <1>0, <2>1, <2>2, TicketsKept
<1>6. ASSUME NEW t \in Threads, RecoverUnlock(t) PROVE TicketInv'
  <2>1. NoneBegins
    BY <1>0, <1>6, GotoBegins, ReturnBegins, CallBegins, ThreadSorts DEF RecoverUnlock, BeforeTicket
  <2>2. NoneConsumed
    BY <1>6, SameTickets DEF RecoverUnlock, ticket, clock
  <2>3. QED BY <1>0, <2>1, <2>2, TicketsKept
<1>7. ASSUME NEW t \in Threads, RecoverRepair(t) PROVE TicketInv'
  <2>1. NoneBegins
    BY <1>0, <1>7, GotoBegins, ReturnBegins, CallBegins, ThreadSorts DEF RecoverRepair, BeforeTicket
  <2>2. NoneConsumed
    BY <1>0, <1>7 DEF RecoverRepair, NoneConsumed, DataTypes, clock, ticket
  <2>3. QED BY <1>0, <2>1, <2>2, TicketsKept
<1>8. ASSUME NEW t \in Threads, Reacquire(t) PROVE TicketInv'
  <2>1. NoneBegins
    BY <1>0, <1>8, GotoBegins, ReturnBegins, CallBegins, ThreadSorts DEF Reacquire, BeforeTicket
  <2>2. NoneConsumed
    BY <1>8, SameTickets DEF Reacquire, ticket, clock
  <2>3. QED BY <1>0, <2>1, <2>2, TicketsKept
<1>9. ASSUME NEW t \in Threads, AcquirePermit(t) PROVE TicketInv'
  <2>1. NoneBegins
    BY <1>0, <1>9, GotoBegins, ReturnBegins, CallBegins, ThreadSorts DEF AcquirePermit, BeforeTicket
  <2>2. NoneConsumed
    BY <1>9, SameTickets DEF AcquirePermit, ticket, clock
  <2>3. QED BY <1>0, <2>1, <2>2, TicketsKept
<1>10. ASSUME NEW t \in Threads, ConsumeTicket(t) PROVE TicketInv'
  <2>1. PICK p \in Projects : p = job[t]
    BY <1>0, <1>10 DEF ThreadTypes, ConsumeTicket
  <2>2. /\ pc' = [pc EXCEPT ![t] = IF Engine THEN "claim" ELSE "spawn"] /\ pc[t] = "ticket"
        /\ UNCHANGED <<job, kind, next_run, now>> /\ kind[t] # "pending"
        /\ last_consumed_ticket' = IF kind[t] = "scheduled" THEN [last_consumed_ticket EXCEPT ![p] = next_run[p]]
                                                            ELSE last_consumed_ticket
    BY <1>0, <2>1, <1>10 DEF ConsumeTicket, Goto, Stay, clock, TicketInv, DataTypes
  <2>3. CASE kind[t] = "scheduled"
    <3>1. t = "scheduler" /\ AboutToConsume /\ Unused(p)
      BY <2>1, <2>2, <2>3 DEF LockInv, HeldPCs, AboutToConsume, BeforeTicket, TicketInv
    <3>2. ~AboutToConsume'
      BY <1>0, <2>2, <3>1 DEF AboutToConsume, BeforeTicket, ThreadTypes
    <3>3. \A q \in Projects : Consumed(q)'
      <4>1. next_run[p] \in Nat
        BY <1>0 DEF DataTypes
      <4>2. Today' = Today
        BY <2>2 DEF Today
      <4>3. QED BY <1>0, <2>2, <2>3, <3>1, <4>1, <4>2 DEF Consumed, Unused, DataTypes, TicketInv
    <3>4. QED BY <2>2, <3>2, <3>3 DEF TicketInv
  <2>4. CASE kind[t] # "scheduled"
    <3>1. NoneConsumed
      BY <2>2, <2>4, SameTickets
    <3>2. NoneBegins
      BY <1>0, <2>2, <2>4, ThreadSorts DEF NoneBegins, TicketInv, AboutToConsume, ThreadTypes
    <3>3. QED BY <1>0, <3>1, <3>2, TicketsKept
  <2>5. QED BY <2>3, <2>4
<1>11. ASSUME NEW t \in Threads, ClaimRun(t) PROVE TicketInv'
  <2>1. NoneBegins
    BY <1>0, <1>11, GotoBegins, ReturnBegins, CallBegins, ThreadSorts DEF ClaimRun, BeforeTicket
  <2>2. NoneConsumed
    BY <1>11, SameTickets DEF ClaimRun, ticket, clock
  <2>3. QED BY <1>0, <2>1, <2>2, TicketsKept
<1>12. ASSUME NEW t \in Threads, RegisterRun(t) PROVE TicketInv'
  <2>1. NoneBegins
    BY <1>0, <1>12, GotoBegins, ReturnBegins, CallBegins, ThreadSorts DEF RegisterRun, BeforeTicket
  <2>2. NoneConsumed
    BY <1>12, SameTickets DEF RegisterRun, ticket, clock
  <2>3. QED BY <1>0, <2>1, <2>2, TicketsKept
<1>13. ASSUME NEW t \in Threads, UndoLock(t) PROVE TicketInv'
  <2>1. NoneBegins
    BY <1>0, <1>13, GotoBegins, ReturnBegins, CallBegins, ThreadSorts DEF UndoLock, BeforeTicket
  <2>2. NoneConsumed
    BY <1>13, SameTickets DEF UndoLock, ticket, clock
  <2>3. QED BY <1>0, <2>1, <2>2, TicketsKept
<1>14. ASSUME NEW t \in Threads, UndoPermit(t) PROVE TicketInv'
  <2>1. NoneBegins
    BY <1>0, <1>14, GotoBegins, ReturnBegins, CallBegins, ThreadSorts DEF UndoPermit, BeforeTicket
  <2>2. NoneConsumed
    BY <1>14, SameTickets DEF UndoPermit, ticket, clock
  <2>3. QED BY <1>0, <2>1, <2>2, TicketsKept
<1>15. ASSUME NEW t \in Threads, Spawn(t) PROVE TicketInv'
  <2>1. NoneBegins
    BY <1>0, <1>15, ThreadSorts DEF Spawn, ThreadTypes, NoneBegins, AboutToConsume, BeforeTicket, TicketInv
  <2>2. NoneConsumed
    BY <1>15, SameTickets DEF Spawn, ticket, clock
  <2>3. QED BY <1>0, <2>1, <2>2, TicketsKept
<1>16. ASSUME NEW t \in Threads, Drain(t) PROVE TicketInv'
  <2>1. NoneBegins
    BY <1>0, <1>16, ReturnBegins DEF Drain
  <2>2. NoneConsumed
    BY <1>16, SameTickets DEF Drain, ticket, clock
  <2>3. QED BY <1>0, <2>1, <2>2, TicketsKept
<1>17. ASSUME NEW w \in Workers, StartThread(w) PROVE TicketInv'
  <2>1. NoneBegins
    BY <1>0, <1>17, ThreadSorts DEF StartThread, ThreadTypes, NoneBegins, AboutToConsume, BeforeTicket,
       TicketInv, StatusInv, LaunchersWait
  <2>2. NoneConsumed
    BY <1>17, SameTickets DEF StartThread, ticket, clock
  <2>3. QED BY <1>0, <2>1, <2>2, TicketsKept
<1>18. ASSUME NEW w \in Workers, StartFails(w) PROVE TicketInv'
  <2>1. NoneBegins
    BY <1>0, <1>18, ThreadSorts DEF StartFails, ThreadTypes, NoneBegins, AboutToConsume, BeforeTicket,
       TicketInv, StatusInv, LaunchersWait
  <2>2. NoneConsumed
    BY <1>18, SameTickets DEF StartFails, ticket, clock
  <2>3. QED BY <1>0, <2>1, <2>2, TicketsKept
<1>19. ASSUME NEW w \in Workers, BeginRun(w) PROVE TicketInv'
  <2>1. NoneBegins
    BY <1>0, <1>19, GotoBegins, ReturnBegins, CallBegins, ThreadSorts DEF BeginRun, BeforeTicket
  <2>2. NoneConsumed
    BY <1>19, SameTickets DEF BeginRun, ticket, clock
  <2>3. QED BY <1>0, <2>1, <2>2, TicketsKept
<1>20. ASSUME NEW w \in Workers, StartProcess(w) PROVE TicketInv'
  <2>1. NoneBegins
    BY <1>0, <1>20, GotoBegins, ReturnBegins, CallBegins, ThreadSorts DEF StartProcess, BeforeTicket
  <2>2. NoneConsumed
    BY <1>20, SameTickets DEF StartProcess, ticket, clock
  <2>3. QED BY <1>0, <2>1, <2>2, TicketsKept
<1>21. ASSUME NEW w \in Workers, EndProcess(w) PROVE TicketInv'
  <2>1. NoneBegins
    BY <1>0, <1>21, GotoBegins, ReturnBegins, CallBegins, ThreadSorts DEF EndProcess, BeforeTicket
  <2>2. NoneConsumed
    BY <1>21, SameTickets DEF EndProcess, ticket, clock
  <2>3. QED BY <1>0, <2>1, <2>2, TicketsKept
<1>22. ASSUME NEW w \in Workers, FinishLogic(w) PROVE TicketInv'
  <2>1. NoneBegins
    BY <1>0, <1>22, GotoBegins, ReturnBegins, CallBegins, ThreadSorts DEF FinishLogic, BeforeTicket
  <2>2. NoneConsumed
    BY <1>0, <1>22 DEF FinishLogic, NoneConsumed, DataTypes, clock, ticket
  <2>3. QED BY <1>0, <2>1, <2>2, TicketsKept
<1>23. ASSUME NEW w \in Workers, UnregisterRun(w) PROVE TicketInv'
  <2>1. NoneBegins
    BY <1>0, <1>23, GotoBegins, ReturnBegins, CallBegins, ThreadSorts DEF UnregisterRun, BeforeTicket
  <2>2. NoneConsumed
    BY <1>23, SameTickets DEF UnregisterRun, ticket, clock
  <2>3. QED BY <1>0, <2>1, <2>2, TicketsKept
<1>24. ASSUME NEW w \in Workers, UntrackWorker(w) PROVE TicketInv'
  <2>1. NoneBegins
    BY <1>0, <1>24, GotoBegins, ReturnBegins, CallBegins, ThreadSorts DEF UntrackWorker, BeforeTicket
  <2>2. NoneConsumed
    BY <1>24, SameTickets DEF UntrackWorker, ticket, clock
  <2>3. QED BY <1>0, <2>1, <2>2, TicketsKept
<1>25. ASSUME NEW w \in Workers, ReleaseLock(w) PROVE TicketInv'
  <2>1. NoneBegins
    BY <1>0, <1>25, GotoBegins, ReturnBegins, CallBegins, ThreadSorts DEF ReleaseLock, BeforeTicket
  <2>2. NoneConsumed
    BY <1>25, SameTickets DEF ReleaseLock, ticket, clock
  <2>3. QED BY <1>0, <2>1, <2>2, TicketsKept
<1>26. ASSUME NEW w \in Workers, ReleasePermit(w) PROVE TicketInv'
  <2>1. NoneBegins
    BY <1>0, <1>26, GotoBegins, ReturnBegins, CallBegins, ThreadSorts DEF ReleasePermit, BeforeTicket
  <2>2. NoneConsumed
    BY <1>26, SameTickets DEF ReleasePermit, ticket, clock
  <2>3. QED BY <1>0, <2>1, <2>2, TicketsKept
<1>27. ASSUME NEW p \in Projects, HealProject(p) PROVE TicketInv'
  <2>1. NoneBegins
    BY <1>0, <1>27, GotoBegins, ReturnBegins, CallBegins, ThreadSorts DEF HealProject, BeforeTicket
  <2>2. NoneConsumed
    BY <1>27, SameTickets DEF HealProject, ticket, clock
  <2>3. QED BY <1>0, <2>1, <2>2, TicketsKept
<1>28. ASSUME HealBranch("scheduler") PROVE TicketInv'
  <2>1. NoneBegins
    BY <1>0, <1>28, GotoBegins, ReturnBegins, CallBegins, ThreadSorts DEF HealBranch, BeforeTicket
  <2>2. NoneConsumed
    BY <1>28, SameTickets DEF HealBranch, ticket, clock
  <2>3. QED BY <1>0, <2>1, <2>2, TicketsKept
<1>29. ASSUME GhostStatus("scheduler") PROVE TicketInv'
  <2>1. NoneBegins
    BY <1>0, <1>29, GotoBegins, ReturnBegins, CallBegins, ThreadSorts DEF GhostStatus, BeforeTicket
  <2>2. NoneConsumed
    BY <1>0, <1>29 DEF GhostStatus, NoneConsumed, DataTypes, clock, ticket
  <2>3. QED BY <1>0, <2>1, <2>2, TicketsKept
<1>30. ASSUME GhostUnlock("scheduler") PROVE TicketInv'
  <2>1. NoneBegins
    BY <1>0, <1>30, GotoBegins, ReturnBegins, CallBegins, ThreadSorts DEF GhostUnlock, BeforeTicket
  <2>2. NoneConsumed
    BY <1>30, SameTickets DEF GhostUnlock, ticket, clock
  <2>3. QED BY <1>0, <2>1, <2>2, TicketsKept
<1>31. ASSUME GhostPermit("scheduler") PROVE TicketInv'
  <2>1. NoneBegins
    BY <1>0, <1>31, GotoBegins, ReturnBegins, CallBegins, ThreadSorts DEF GhostPermit, BeforeTicket
  <2>2. NoneConsumed
    BY <1>31, SameTickets DEF GhostPermit, ticket, clock
  <2>3. QED BY <1>0, <2>1, <2>2, TicketsKept
<1>32. ASSUME CheckTicket("scheduler") PROVE TicketInv'
  <2>1. CASE Return("scheduler")
    BY <1>0, <1>32, <2>1, ReturnBegins, SameTickets, TicketsKept, ThreadSorts DEF CheckTicket, ticket, clock
  <2>2. CASE TicketAllowed(job["scheduler"]) /\ Goto("scheduler", "acquire") /\ UNCHANGED <<job, kind>>
    <3>1. PICK p \in Projects : p = job["scheduler"]
      BY <1>0, <1>32, ThreadSorts DEF ThreadTypes, CheckTicket
    <3>2. UNCHANGED <<job, kind, next_run, last_consumed_ticket, now>> /\ Today' = Today
      BY <1>32, <2>2 DEF CheckTicket, ticket, clock, Today
    <3>3. Consumed(p) /\ now >= 2 * next_run[p] + 1 /\ next_run[p] # last_consumed_ticket[p]
      BY <2>2, <3>1 DEF TicketInv, TicketAllowed, DueAt
    <3>4. next_run[p] \in Nat /\ last_consumed_ticket[p] \in Nat \cup {-1} /\ now \in Nat
      BY <1>0 DEF DataTypes
    <3>5. Unused(p)
      BY <3>3, <3>4 DEF Consumed, Unused, Today
    <3>6. QED BY <3>1, <3>2, <3>5 DEF TicketInv, Consumed, Unused
  <2>3. QED BY <1>32, <2>1, <2>2 DEF CheckTicket
<1>33. ASSUME SchedulerDrain PROVE TicketInv'
  BY <1>33 DEF SchedulerDrain
<1>34. ASSUME DailyReset \/ Tick \/ BoundsReached \/ UNCHANGED vars PROVE TicketInv'
  <2>1. NoneBegins
    BY <1>34 DEF DailyReset, Tick, BoundsReached, vars, threads, NoneBegins, AboutToConsume, TicketInv
  <2>2. NoneConsumed
    <3>1. CASE DailyReset
      <4>. DEFINE c(p) == calculate_next_run(p)
      <4>1. next_run' = [p \in Projects |-> IF p \in {q \in Projects : ~HasLiveRuntime(q)} THEN c(p) ELSE next_run[p]]
        BY <3>1 DEF DailyReset
      <4>2. \A p \in Projects : next_run'[p] \in {next_run[p], c(p)}
        <5>. HIDE DEF c
        <5>1. QED BY <4>1
      <4>3. QED BY <1>0, <3>1, <4>2 DEF DailyReset, NoneConsumed, DataTypes
    <3>2. CASE Tick
      BY <1>0, <3>2 DEF Tick, ticket, NoneConsumed, DataTypes
    <3>3. CASE BoundsReached \/ UNCHANGED vars
      BY <3>3, SameTickets DEF BoundsReached, vars, ticket, clock
    <3>4. QED BY <1>34, <3>1, <3>2, <3>3
  <2>3. QED BY <1>0, <2>1, <2>2, TicketsKept
<1>. QED
  BY <1>1, <1>2, <1>3, <1>4, <1>5, <1>6, <1>7, <1>8, <1>9, <1>10, <1>11, <1>12, <1>13, <1>14, <1>15, <1>16,
     <1>17, <1>18, <1>19, <1>20, <1>21, <1>22, <1>23, <1>24, <1>25, <1>26, <1>27, <1>28, <1>29, <1>30, <1>31,
     <1>32, <1>33, <1>34
  DEF Next, LaunchStep, RunStep, HealStep


LEMMA LockInit == Init => LockInv /\ TicketInv
  BY TodayIsNat, ThreadSorts DEF Init, LockInv, HeldPCs, TicketInv, Consumed, AboutToConsume, BeforeTicket, Today

\* A scheduled launch takes a ticket newer than any its project has taken, and not one
\* of a day to come, on every path of recovery, refusal and reset, however commands, the
\* bot and the workers interleave, as long as no launch has been put into pending_queue
\* (_process_pending launches without a look at the ticket).
THEOREM TicketsInOrder == Spec /\ [](pending_queue = << >>) => TicketsUsedInOrder
<1>. DEFINE Step == \A t \in Threads : ScheduledLaunch(t) =>
                       /\ last_consumed_ticket'[job[t]] > last_consumed_ticket[job[t]]
                       /\ last_consumed_ticket'[job[t]] <= Today
            Empty == pending_queue = << >>
<1>1. Init => LockInv /\ TicketInv
  BY LockInit
<1>2. ASSUME TypeInv, StatusInv, LockInv, TicketInv, Empty, [Next]_vars PROVE LockInv' /\ TicketInv'
  BY <1>2, LockStep, TicketStep
<1>3. ASSUME TypeInv, StatusInv, LockInv, TicketInv, Empty, [Next]_vars PROVE [Step]_vars
  <2>. SUFFICES ASSUME NEW t \in Threads, ScheduledLaunch(t)
                PROVE  /\ last_consumed_ticket'[job[t]] > last_consumed_ticket[job[t]]
                       /\ last_consumed_ticket'[job[t]] <= Today
    OBVIOUS
  <2>1. ConsumeTicket(t)
    BY <1>3, TicketTaken DEF ScheduledLaunch
  <2>2. /\ DataTypes /\ pc[t] = "ticket" /\ kind[t] = "scheduled" /\ job[t] \in Projects
    BY <1>3 DEF ScheduledLaunch, TicketInv, TypeInv, ThreadTypes
  <2>3. t = "scheduler" /\ Unused(job[t])
    BY <1>3, <2>2 DEF LockInv, HeldPCs, TicketInv, AboutToConsume, BeforeTicket
  <2>4. last_consumed_ticket'[job[t]] = next_run[job[t]]
    BY <2>1, <2>2 DEF ConsumeTicket, DataTypes
  <2>5. QED
    BY <2>2, <2>3, <2>4 DEF Unused, DataTypes
<1>4. QED
  BY <1>1, <1>2, <1>3, StatusInvariance, PTL DEF Spec, TicketsUsedInOrder
-----------------------------------------------------------------------------
(* A run of the scheduler is tracked while it executes.  A worker untracks    *)
(* whatever its project has tracked under the worker's own run_id, so the     *)
(* run_id of a scheduled run has to be newer than that of every worker of     *)
(* the project that has ended and not yet untracked: it is read from          *)
(* execution_id, which the scheduler has counted up while it holds            *)
(* project_state_lock, so that no run ends before its own is tracked.         *)

RunPCs == {"created", "begin", "running", "process", "finished"}
ScheduledRun(w) == pc[w] \in RunPCs /\ kind[w] = "scheduled"
SchedulerHasCounted == pc["scheduler"] \in {"claim", "register", "spawn"} /\ kind["scheduler"] = "scheduled"

RunIdsPast == \A w \in Workers : pc[w] \in RunPCs \cup {"untrack"} => run_id[w] <= execution_id[job[w]]
EndedRunsOlder ==
  \A w \in Workers :
    SchedulerHasCounted /\ pc[w] \in {"finished", "untrack"} /\ job[w] = job["scheduler"]
      => run_id[w] < execution_id[job[w]]
UntrackedOlder ==
  \A v, w \in Workers : ScheduledRun(w) /\ pc[v] = "untrack" /\ job[v] = job[w] => run_id[v] < run_id[w]
ScheduledTracked == \A w \in Workers : ScheduledRun(w) => project_workers[job[w]] = w
TrackInv == RunIdsPast /\ EndedRunsOlder /\ UntrackedOlder /\ ScheduledTracked

\* A step that starts and ends no run.
TrackKept ==
  /\ UNCHANGED <<project_workers, execution_id, run_id>>
  /\ \A w \in Workers : /\ pc'[w] \in RunPCs => pc[w] \in RunPCs /\ job'[w] = job[w] /\ kind'[w] = kind[w]
                        /\ pc'[w] \in {"finished", "untrack"} => pc[w] = pc'[w] /\ job'[w] = job[w]
  /\ SchedulerHasCounted' => SchedulerHasCounted /\ job'["scheduler"] = job["scheduler"]

LEMMA KeptTracking == ASSUME TrackInv, TrackKept PROVE TrackInv'
<1>1. \A w \in Workers : ScheduledRun(w)' => ScheduledRun(w) /\ job'[w] = job[w]
  BY DEF TrackKept, ScheduledRun
<1>2. RunIdsPast'
  BY DEF TrackInv, TrackKept, RunIdsPast
<1>3. EndedRunsOlder'
  BY DEF TrackInv, TrackKept, EndedRunsOlder
<1>4. UntrackedOlder'
  BY <1>1 DEF TrackInv, TrackKept, UntrackedOlder
<1>5. ScheduledTracked'
  BY <1>1 DEF TrackInv, TrackKept, ScheduledTracked
<1>6. QED BY <1>2, <1>3, <1>4, <1>5 DEF TrackInv

LEMMA GotoTracking ==
  ASSUME ThreadTypes, NEW t \in Threads, NEW l, Goto(t, l), Stay, UNCHANGED <<project_workers, execution_id>>,
         l \notin {"finished", "untrack"}, l \notin RunPCs \/ pc[t] \in RunPCs,
         l \notin {"claim", "register", "spawn"} \/ pc[t] \in {"claim", "register", "spawn"}
  PROVE  TrackKept
  BY ThreadSorts DEF ThreadTypes, Goto, Stay, TrackKept, SchedulerHasCounted
LEMMA ReturnTracking ==
  ASSUME ThreadTypes, NEW t \in Threads, Return(t), UNCHANGED <<project_workers, execution_id>> PROVE TrackKept
  BY ThreadSorts DEF ThreadTypes, Return, TrackKept, SchedulerHasCounted, RunPCs
LEMMA CallTracking ==
  ASSUME ThreadTypes, NEW t \in Threads, NEW p, NEW k, NEW l, Call(t, p, k, l),
         UNCHANGED <<project_workers, execution_id>>,
         l \notin RunPCs \cup {"untrack", "claim", "register", "spawn"}
  PROVE  TrackKept
  BY ThreadSorts DEF ThreadTypes, Call, Goto, TrackKept, SchedulerHasCounted, RunPCs

\* Two threads of a project are not registered at the same time.
LEMMA RunAlone ==
  ASSUME RunInv, NEW t \in Threads, NEW u \in Threads, Registered(t), Registered(u), job[t] = job[u] PROVE t = u
  BY DEF RunInv

LEMMA TrackStep ==
  ASSUME Engine = TRUE, TypeInv, RunInv, StatusInv, LockInv, TrackInv, [Next]_vars PROVE TrackInv'
<1>0. ThreadTypes /\ DataTypes
  BY DEF TypeInv
<1>1. ASSUME NEW p \in Projects, ConsiderScheduled(p) PROVE TrackInv'
  <2>1. TrackKept
    BY <1>0, <1>1, GotoTracking, ReturnTracking, CallTracking, ThreadSorts DEF ConsiderScheduled, tracking,
       ticket, RunPCs
  <2>2. QED BY <2>1, KeptTracking
<1>2. ASSUME NEW p \in Projects, NEW k \in {"manual", "task"}, CommandRun(p, k) PROVE TrackInv'
  <2>1. TrackKept
    BY <1>0, <1>2, GotoTracking, ReturnTracking, CallTracking, ThreadSorts DEF CommandRun, tracking, ticket, RunPCs
  <2>2. QED BY <2>1, KeptTracking
<1>3. ASSUME NEW p \in Projects, BotRun(p) PROVE TrackInv'
  <2>1. TrackKept
    BY <1>0, <1>3, GotoTracking, ReturnTracking, CallTracking, ThreadSorts DEF BotRun, tracking, ticket, RunPCs
  <2>2. QED BY <2>1, KeptTracking
<1>4. ASSUME NEW t \in Threads, AcquireLock(t) PROVE TrackInv'
  <2>1. TrackKept
    BY <1>0, <1>4, GotoTracking, ReturnTracking, CallTracking, ThreadSorts DEF AcquireLock, tracking, ticket, RunPCs
  <2>2. QED BY <2>1, KeptTracking
<1>5. ASSUME NEW t \in Threads, RecoverCheck(t) PROVE TrackInv'
  <2>1. TrackKept
    BY <1>0, <1>5, GotoTracking, ReturnTracking, CallTracking, ThreadSorts DEF RecoverCheck, tracking, ticket, RunPCs
  <2>2. QED BY <2>1, KeptTracking
<1>6. ASSUME NEW t \in Threads, RecoverUnlock(t) PROVE TrackInv'
  <2>1. TrackKept
    BY <1>0, <1>6, GotoTracking, ReturnTracking, CallTracking, ThreadSorts DEF RecoverUnlock, tracking, ticket, RunPCs
  <2>2. QED BY <2>1, KeptTracking
<1>7. ASSUME NEW t \in Threads, RecoverRepair(t) PROVE TrackInv'
  <2>1. TrackKept
    BY <1>0, <1>7, GotoTracking, ReturnTracking, CallTracking, ThreadSorts DEF RecoverRepair, tracking, ticket, RunPCs
  <2>2. QED BY <2>1, KeptTracking
<1>8. ASSUME NEW t \in Threads, Reacquire(t) PROVE TrackInv'
  <2>1. TrackKept
    BY <1>0, <1>8, GotoTracking, ReturnTracking, CallTracking, ThreadSorts DEF Reacquire, tracking, ticket, RunPCs
  <2>2. QED BY <2>1, KeptTracking
<1>9. ASSUME NEW t \in Threads, AcquirePermit(t) PROVE TrackInv'
  <2>1. TrackKept
    BY <1>0, <1>9, GotoTracking, ReturnTracking, CallTracking, ThreadSorts DEF AcquirePermit, tracking, ticket, RunPCs
  <2>2. QED BY <2>1, KeptTracking
<1>10. ASSUME NEW t \in Threads, ConsumeTicket(t) PROVE TrackInv'
  <2>1. PICK p \in Projects : p = job[t]
    BY <1>0, <1>10 DEF ThreadTypes, ConsumeTicket
  <2>2. /\ pc[t] = "ticket" /\ pc' = [pc EXCEPT ![t] = IF Engine THEN "claim" ELSE "spawn"]
        /\ UNCHANGED <<job, kind, run_id, project_workers>>
        /\ execution_id' = [execution_id EXCEPT ![p] = IF kind[t] \in {"scheduled", "manual"} THEN @ + 1 ELSE @]
    BY <2>1, <1>10 DEF ConsumeTicket, Goto, Stay, tracking
  <2>3. \A q \in Projects : /\ execution_id[q] \in Nat /\ execution_id'[q] \in Nat
                            /\ execution_id[q] <= execution_id'[q]
                            /\ kind[t] = "scheduled" /\ q = p => execution_id[q] < execution_id'[q]
    BY <1>0, <2>2 DEF DataTypes
  <2>4. \A w \in Workers : /\ pc'[w] \in RunPCs \cup {"untrack"} => pc'[w] = pc[w] /\ job[w] \in Projects
                           /\ run_id[w] \in Nat
    BY <1>0, <2>2, ThreadSorts DEF ThreadTypes, RunPCs
  <2>5. RunIdsPast'
    BY <2>2, <2>3, <2>4 DEF TrackInv, RunIdsPast
  <2>6. EndedRunsOlder'
    <3>1. SUFFICES ASSUME NEW w \in Workers, SchedulerHasCounted', pc'[w] \in {"finished", "untrack"},
                          job[w] = job["scheduler"]
                   PROVE  run_id[w] < execution_id'[job[w]]
      BY <2>2 DEF EndedRunsOlder
    <3>2. pc[w] \in {"finished", "untrack"} /\ job[w] \in Projects /\ run_id[w] \in Nat
      BY <2>4, <3>1 DEF RunPCs
    <3>3. run_id[w] <= execution_id[job[w]]
      BY <3>2 DEF TrackInv, RunIdsPast, RunPCs
    <3>4. CASE t = "scheduler"
      <4>1. kind[t] = "scheduled" /\ job[w] = p
        BY <2>1, <2>2, <3>1, <3>4 DEF SchedulerHasCounted
      <4>2. QED BY <2>3, <3>2, <3>3, <4>1
    <3>5. CASE t # "scheduler"
      <4>1. SchedulerHasCounted
        BY <1>0, <2>2, <3>1, <3>5, ThreadSorts DEF SchedulerHasCounted, ThreadTypes
      <4>2. run_id[w] < execution_id[job[w]]
        BY <3>1, <3>2, <4>1 DEF TrackInv, EndedRunsOlder
      <4>3. QED BY <2>3, <3>2, <4>2
    <3>6. QED BY <3>4, <3>5
  <2>7. \A w \in Workers : ScheduledRun(w)' => ScheduledRun(w)
    BY <2>2, <2>4 DEF ScheduledRun
  <2>8. UntrackedOlder' /\ ScheduledTracked'
    BY <2>2, <2>4, <2>7 DEF TrackInv, UntrackedOlder, ScheduledTracked
  <2>9. QED BY <2>5, <2>6, <2>8 DEF TrackInv
<1>11. ASSUME NEW t \in Threads, ClaimRun(t) PROVE TrackInv'
  <2>1. TrackKept
    BY <1>0, <1>11, GotoTracking, ReturnTracking, CallTracking, ThreadSorts DEF ClaimRun, tracking, ticket, RunPCs
  <2>2. QED BY <2>1, KeptTracking
<1>12. ASSUME NEW t \in Threads, RegisterRun(t) PROVE TrackInv'
  <2>1. TrackKept
    BY <1>0, <1>12, GotoTracking, ReturnTracking, CallTracking, ThreadSorts DEF RegisterRun, tracking, ticket, RunPCs
  <2>2. QED BY <2>1, KeptTracking
<1>13. ASSUME NEW t \in Threads, UndoLock(t) PROVE TrackInv'
  <2>1. TrackKept
    BY <1>0, <1>13, GotoTracking, ReturnTracking, CallTracking, ThreadSorts DEF UndoLock, tracking, ticket, RunPCs
  <2>2. QED BY <2>1, KeptTracking
<1>14. ASSUME NEW t \in Threads, UndoPermit(t) PROVE TrackInv'
  <2>1. TrackKept
    BY <1>0, <1>14, GotoTracking, ReturnTracking, CallTracking, ThreadSorts DEF UndoPermit, tracking, ticket, RunPCs
  <2>2. QED BY <2>1, KeptTracking
<1>15. ASSUME NEW t \in Threads, Spawn(t) PROVE TrackInv'
  <2>1. PICK p \in Projects : p = job[t]
    BY <1>0, <1>15 DEF ThreadTypes, Spawn
  <2>2. PICK w \in Workers :
          /\ pc[w] = "idle" /\ pc' = [pc EXCEPT ![t] = "start", ![w] = "created"]
          /\ job' = [job EXCEPT ![w] = p] /\ kind' = [kind EXCEPT ![w] = kind[t]]
          /\ run_id' = [run_id EXCEPT ![w] = execution_id[p]]
          /\ project_workers' = [project_workers EXCEPT ![p] = TrackedWorker(t, w)]
    BY <2>1, <1>15 DEF Spawn
  <2>3. pc[t] = "spawn" /\ UNCHANGED execution_id
    BY <1>15 DEF Spawn, ticket
  <2>4. /\ pc'[w] = "created" /\ job'[w] = p /\ kind'[w] = kind[t] /\ run_id'[w] = execution_id[p]
        /\ execution_id[p] \in Nat /\ pc'[t] = "start"
    BY <1>0, <2>1, <2>2, <2>3, ThreadSorts DEF ThreadTypes, DataTypes
  <2>5. \A u \in Workers : u # w => /\ pc'[u] = IF u = t THEN "start" ELSE pc[u]
                                    /\ job'[u] = job[u] /\ kind'[u] = kind[u] /\ run_id'[u] = run_id[u]
    BY <1>0, <2>2, ThreadSorts DEF ThreadTypes
  <2>6. RunIdsPast'
    BY <2>3, <2>4, <2>5 DEF TrackInv, RunIdsPast, RunPCs
  <2>7. EndedRunsOlder'
    <3>1. SchedulerHasCounted' => SchedulerHasCounted /\ job'["scheduler"] = job["scheduler"]
      BY <1>0, <2>2, ThreadSorts, ThreadAssumption DEF SchedulerHasCounted, ThreadTypes
    <3>2. QED BY <2>3, <2>4, <2>5, <3>1 DEF TrackInv, EndedRunsOlder
  <2>8. kind[t] = "scheduled" => \A v \in Workers : pc[v] = "untrack" /\ job[v] = p => run_id[v] < execution_id[p]
    <3>1. kind[t] = "scheduled" => t = "scheduler" /\ SchedulerHasCounted
      BY <2>3 DEF LockInv, HeldPCs, SchedulerHasCounted
    <3>2. QED BY <2>1, <3>1 DEF TrackInv, EndedRunsOlder
  <2>9. UntrackedOlder'
    <3>1. SUFFICES ASSUME NEW v \in Workers, NEW u \in Workers, ScheduledRun(u)', pc'[v] = "untrack", job'[v] = job'[u]
                   PROVE  run_id'[v] < run_id'[u]
      BY DEF UntrackedOlder
    <3>2. v # w /\ pc[v] = "untrack" /\ job'[v] = job[v] /\ run_id'[v] = run_id[v]
      BY <2>4, <2>5, <3>1
    <3>3. CASE u = w
      BY <2>4, <2>8, <3>1, <3>2, <3>3 DEF ScheduledRun
    <3>4. CASE u # w
      <4>1. ScheduledRun(u) /\ job'[u] = job[u] /\ run_id'[u] = run_id[u]
        BY <2>5, <3>1, <3>4 DEF ScheduledRun, RunPCs
      <4>2. QED BY <3>1, <3>2, <4>1 DEF TrackInv, UntrackedOlder
    <3>5. QED BY <3>3, <3>4
  <2>10. ScheduledTracked'
    <3>1. SUFFICES ASSUME NEW u \in Workers, ScheduledRun(u)' PROVE project_workers'[job'[u]] = u
      BY DEF ScheduledTracked
    <3>2. CASE u = w
      <4>1. TrackedWorker(t, w) = w
        BY <2>4, <3>1, <3>2 DEF ScheduledRun, TrackedWorker
      <4>2. QED BY <1>0, <2>1, <2>2, <2>4, <3>2, <4>1 DEF DataTypes
    <3>3. CASE u # w
      <4>1. ScheduledRun(u) /\ job'[u] = job[u] /\ u # t
        BY <2>4, <2>5, <3>1, <3>3 DEF ScheduledRun, RunPCs
      <4>2. job[u] # p
        BY <2>1, <2>3, <4>1, RunAlone, ThreadSorts DEF ScheduledRun, RunPCs, Registered, RegisteredPCs
      <4>3. project_workers'[job[u]] = project_workers[job[u]]
        BY <1>0, <2>2, <4>2 DEF DataTypes
      <4>4. QED BY <4>1, <4>3 DEF TrackInv, ScheduledTracked
    <3>4. QED BY <3>2, <3>3
  <2>11. QED BY <2>6, <2>7, <2>9, <2>10 DEF TrackInv
<1>16. ASSUME NEW t \in Threads, Drain(t) PROVE TrackInv'
  <2>1. TrackKept
    BY <1>0, <1>16, ReturnTracking, ThreadSorts DEF Drain, tracking, ticket, ThreadTypes, TrackKept,
       SchedulerHasCounted, RunPCs
  <2>2. QED BY <2>1, KeptTracking
<1>17. ASSUME NEW w \in Workers, StartThread(w) PROVE TrackInv'
  <2>1. TrackKept
    BY <1>0, <1>17, ThreadSorts DEF StartThread, ThreadTypes, TrackKept, SchedulerHasCounted, RunPCs, StatusInv,
       LaunchersWait, tracking, ticket
  <2>2. QED BY <2>1, KeptTracking
<1>18. ASSUME NEW w \in Workers, StartFails(w) PROVE TrackInv'
  <2>1. PICK p \in Projects : p = job[w]
    BY <1>0, <1>18, ThreadSorts DEF ThreadTypes, StartFails
  <2>2. /\ pc[w] = "created" /\ pc' = [pc EXCEPT ![w] = "idle", ![launcher[w]] = "idle"]
        /\ job' = [job EXCEPT ![w] = NoProject, ![launcher[w]] = NoProject]
        /\ kind' = [kind EXCEPT ![w] = "none", ![launcher[w]] = "none"]
        /\ UNCHANGED <<run_id, execution_id>>
        /\ project_workers' \in {project_workers, [project_workers EXCEPT ![p] = NoThread]}
    BY <2>1, <1>18 DEF StartFails, ticket
  <2>3. launcher[w] \in Threads /\ pc[launcher[w]] = "start"
    BY <2>2 DEF StatusInv, LaunchersWait
  <2>4. \A u \in Threads : pc'[u] # "idle" => /\ u # w /\ u # launcher[w]
                                              /\ pc'[u] = pc[u] /\ job'[u] = job[u] /\ kind'[u] = kind[u]
    BY <1>0, <2>2, <2>3, ThreadSorts DEF ThreadTypes
  <2>5. SchedulerHasCounted' => SchedulerHasCounted /\ job'["scheduler"] = job["scheduler"]
    BY <2>4, ThreadSorts DEF SchedulerHasCounted
  <2>6. RunIdsPast' /\ EndedRunsOlder' /\ UntrackedOlder'
    <3>1. \A u \in Workers : pc'[u] # "idle" => pc'[u] = pc[u] /\ job'[u] = job[u] /\ kind'[u] = kind[u]
      BY <2>4, ThreadSorts
    <3>2. RunIdsPast'
      BY <2>2, <3>1 DEF TrackInv, RunIdsPast, RunPCs
    <3>3. EndedRunsOlder'
      BY <2>2, <2>5, <3>1 DEF TrackInv, EndedRunsOlder
    <3>4. \A u \in Workers : ScheduledRun(u)' => ScheduledRun(u) /\ job'[u] = job[u]
      BY <3>1 DEF ScheduledRun, RunPCs
    <3>5. UntrackedOlder'
      BY <2>2, <3>1, <3>4 DEF TrackInv, UntrackedOlder
    <3>6. QED BY <3>2, <3>3, <3>5
  <2>7. ScheduledTracked'
    <3>1. SUFFICES ASSUME NEW u \in Workers, ScheduledRun(u)' PROVE project_workers'[job'[u]] = u
      BY DEF ScheduledTracked
    <3>2. ScheduledRun(u) /\ job'[u] = job[u] /\ u # w
      BY <2>4, <3>1, ThreadSorts DEF ScheduledRun, RunPCs
    <3>3. job[u] # p
      BY <2>1, <2>2, <3>2, RunAlone, ThreadSorts DEF ScheduledRun, RunPCs, Registered, RegisteredPCs
    <3>4. job[u] \in Projects
      BY <1>0, <3>2, ThreadSorts DEF ThreadTypes, ScheduledRun, RunPCs
    <3>5. project_workers'[job[u]] = project_workers[job[u]]
      BY <1>0, <2>2, <3>3, <3>4 DEF DataTypes
    <3>6. QED BY <3>2, <3>5 DEF TrackInv, ScheduledTracked
  <2>8. QED BY <2>6, <2>7 DEF TrackInv
<1>19. ASSUME NEW w \in Workers, BeginRun(w) PROVE TrackInv'
  <2>1. TrackKept
    BY <1>0, <1>19, GotoTracking, ReturnTracking, CallTracking, ThreadSorts DEF BeginRun, tracking, ticket, RunPCs
  <2>2. QED BY <2>1, KeptTracking
<1>20. ASSUME NEW w \in Workers, StartProcess(w) PROVE TrackInv'
  <2>1. TrackKept
    BY <1>0, <1>20, GotoTracking, ReturnTracking, CallTracking, ThreadSorts DEF StartProcess, tracking, ticket, RunPCs
  <2>2. QED BY <2>1, KeptTracking
<1>21. ASSUME NEW w \in Workers, EndProcess(w) PROVE TrackInv'
  <2>1. TrackKept
    BY <1>0, <1>21, GotoTracking, ReturnTracking, CallTracking, ThreadSorts DEF EndProcess, tracking, ticket, RunPCs
  <2>2. QED BY <2>1, KeptTracking
<1>22. ASSUME NEW w \in Workers, FinishLogic(w) PROVE TrackInv'
  <2>1. ~SchedulerHasCounted
    BY <1>22, ThreadSorts, ThreadAssumption DEF FinishLogic, StateLockFree, LockInv, HeldPCs,
       SchedulerHasCounted, Callers
  <2>2. /\ pc[w] = "running" /\ pc' = [pc EXCEPT ![w] = "finished"]
        /\ UNCHANGED <<job, kind, run_id, execution_id, project_workers>>
    BY <1>22 DEF FinishLogic, Goto, Stay, tracking
  <2>3. ~SchedulerHasCounted'
    BY <1>0, <2>1, <2>2, ThreadSorts DEF SchedulerHasCounted, ThreadTypes
  <2>4. \A u \in Workers : pc'[u] = IF u = w THEN "finished" ELSE pc[u]
    BY <1>0, <2>2, ThreadSorts DEF ThreadTypes
  <2>5. QED
    BY <2>2, <2>3, <2>4 DEF TrackInv, RunIdsPast, EndedRunsOlder, UntrackedOlder, ScheduledTracked,
       ScheduledRun, RunPCs
<1>23. ASSUME NEW w \in Workers, UnregisterRun(w) PROVE TrackInv'
  <2>0. SUFFICES ASSUME ~ Return(w) PROVE TrackInv'
    BY <1>0, <1>23, ReturnTracking, KeptTracking, ThreadSorts DEF UnregisterRun, ticket
  <2>1. /\ pc[w] = "finished" /\ pc'[w] \in {"untrack", "release_lock"}
        /\ \A u \in Threads \ {w} : pc'[u] = pc[u]
        /\ UNCHANGED <<job, kind, run_id, execution_id, project_workers>>
    BY <1>0, <1>23, <2>0, ThreadSorts DEF UnregisterRun, Goto, Stay, ThreadTypes, ticket
  <2>2. SchedulerHasCounted' => SchedulerHasCounted
    BY <2>1, ThreadSorts DEF SchedulerHasCounted
  <2>3. RunIdsPast' /\ EndedRunsOlder'
    BY <2>1, <2>2, ThreadSorts DEF TrackInv, RunIdsPast, EndedRunsOlder, RunPCs
  <2>4. \A u \in Workers : ScheduledRun(u)' => ScheduledRun(u) /\ job[u] # job[w]
    <3>1. SUFFICES ASSUME NEW u \in Workers, ScheduledRun(u)' PROVE ScheduledRun(u) /\ job[u] # job[w]
      OBVIOUS
    <3>2. ScheduledRun(u) /\ u # w
      BY <2>1, <3>1, ThreadSorts DEF ScheduledRun, RunPCs
    <3>3. QED BY <2>1, <3>2, RunAlone, ThreadSorts DEF ScheduledRun, RunPCs, Registered, RegisteredPCs
  <2>5. UntrackedOlder' /\ ScheduledTracked'
    BY <2>1, <2>4, ThreadSorts DEF TrackInv, UntrackedOlder, ScheduledTracked
  <2>6. QED BY <2>3, <2>5 DEF TrackInv
<1>24. ASSUME NEW w \in Workers, UntrackWorker(w) PROVE TrackInv'
  <2>1. PICK p \in Projects : p = job[w]
    BY <1>0, <1>24, ThreadSorts DEF ThreadTypes, UntrackWorker
  <2>2. /\ pc[w] = "untrack" /\ pc'[w] = "release_lock"
        /\ \A u \in Threads \ {w} : pc'[u] = pc[u]
        /\ UNCHANGED <<job, kind, run_id, execution_id>>
        /\ \/ UNCHANGED project_workers
           \/ /\ project_workers' = [project_workers EXCEPT ![p] = NoThread]
              /\ run_id[project_workers[p]] = run_id[w]
    BY <1>0, <2>1, <1>24, ThreadSorts DEF UntrackWorker, Goto, Stay, ThreadTypes, DataTypes, ticket
  <2>3. SchedulerHasCounted' => SchedulerHasCounted
    BY <2>2, ThreadSorts DEF SchedulerHasCounted
  <2>4. \A u \in Workers : ScheduledRun(u)' => ScheduledRun(u)
    BY <2>2, ThreadSorts DEF ScheduledRun, RunPCs
  <2>5. RunIdsPast' /\ EndedRunsOlder' /\ UntrackedOlder'
    BY <2>2, <2>3, <2>4, ThreadSorts DEF TrackInv, RunIdsPast, EndedRunsOlder, UntrackedOlder, RunPCs
  <2>6. ScheduledTracked'
    <3>1. SUFFICES ASSUME NEW u \in Workers, ScheduledRun(u) PROVE project_workers'[job[u]] = u
      BY <2>2, <2>4 DEF ScheduledTracked
    <3>2. project_workers[job[u]] = u /\ (job[u] = p => run_id[w] < run_id[u])
      BY <2>1, <2>2, <3>1 DEF TrackInv, ScheduledTracked, UntrackedOlder
    <3>3. run_id[w] \in Nat
      BY <1>0 DEF ThreadTypes
    <3>4. job[u] \in Projects /\ project_workers \in [Projects -> Workers \cup {NoThread}]
      BY <1>0, <3>1, ThreadSorts DEF ThreadTypes, DataTypes, ScheduledRun, RunPCs
    <3>5. CASE UNCHANGED project_workers
      BY <3>2, <3>5
    <3>6. CASE /\ project_workers' = [project_workers EXCEPT ![p] = NoThread]
               /\ run_id[project_workers[p]] = run_id[w]
      <4>1. job[u] # p
        BY <3>2, <3>3, <3>6
      <4>2. QED BY <3>2, <3>4, <3>6, <4>1
    <3>7. QED BY <2>2, <3>5, <3>6
  <2>7. QED BY <2>5, <2>6 DEF TrackInv
<1>25. ASSUME NEW w \in Workers, ReleaseLock(w) PROVE TrackInv'
  <2>1. TrackKept
    BY <1>0, <1>25, GotoTracking, ReturnTracking, CallTracking, ThreadSorts DEF ReleaseLock, tracking, ticket, RunPCs
  <2>2. QED BY <2>1, KeptTracking
<1>26. ASSUME NEW w \in Workers, ReleasePermit(w) PROVE TrackInv'
  <2>1. TrackKept
    BY <1>0, <1>26, GotoTracking, ReturnTracking, CallTracking, ThreadSorts DEF ReleasePermit, tracking, ticket,
       RunPCs
  <2>2. QED BY <2>1, KeptTracking
<1>27. ASSUME NEW p \in Projects, HealProject(p) PROVE TrackInv'
  <2>1. TrackKept
    BY <1>0, <1>27, CallTracking, ThreadSorts DEF HealProject, tracking, ticket, RunPCs
  <2>2. QED BY <2>1, KeptTracking
<1>28. ASSUME HealBranch("scheduler") PROVE TrackInv'
  <2>1. TrackKept
    BY <1>0, <1>28, GotoTracking, ReturnTracking, CallTracking, ThreadSorts DEF HealBranch, tracking, ticket, RunPCs
  <2>2. QED BY <2>1, KeptTracking
<1>29. ASSUME GhostStatus("scheduler") PROVE TrackInv'
  <2>1. TrackKept
    BY <1>0, <1>29, GotoTracking, ReturnTracking, CallTracking, ThreadSorts DEF GhostStatus, tracking, ticket, RunPCs
  <2>2. QED BY <2>1, KeptTracking
<1>30. ASSUME GhostUnlock("scheduler") PROVE TrackInv'
  <2>1. TrackKept
    BY <1>0, <1>30, GotoTracking, ReturnTracking, CallTracking, ThreadSorts DEF GhostUnlock, tracking, ticket, RunPCs
  <2>2. QED BY <2>1, KeptTracking
<1>31. ASSUME GhostPermit("scheduler") PROVE TrackInv'
  <2>1. TrackKept
    BY <1>0, <1>31, GotoTracking, ReturnTracking, CallTracking, ThreadSorts DEF GhostPermit, tracking, ticket, RunPCs
  <2>2. QED BY <2>1, KeptTracking
<1>32. ASSUME CheckTicket("scheduler") PROVE TrackInv'
  <2>1. TrackKept
    BY <1>0, <1>32, ReturnTracking, ThreadSorts DEF CheckTicket, tracking, ticket, ThreadTypes, TrackKept,
       SchedulerHasCounted, Goto, RunPCs
  <2>2. QED BY <2>1, KeptTracking
<1>33. ASSUME SchedulerDrain PROVE TrackInv'
  <2>1. TrackKept
    BY <1>0, <1>33, GotoTracking, ReturnTracking, CallTracking, ThreadSorts DEF SchedulerDrain, tracking,
       ticket, RunPCs
  <2>2. QED BY <2>1, KeptTracking
<1>34. ASSUME DailyReset \/ Tick \/ BoundsReached \/ UNCHANGED vars PROVE TrackInv'
  <2>1. TrackKept
    BY <1>34 DEF DailyReset, Tick, BoundsReached, vars, threads, tracking, ticket, TrackKept, SchedulerHasCounted
  <2>2. QED BY <2>1, KeptTracking
<1>. QED
  BY <1>1, <1>2, <1>3, <1>4, <1>5, <1>6, <1>7, <1>8, <1>9, <1>10, <1>11, <1>12, <1>13, <1>14, <1>15, <1>16,
     <1>17, <1>18, <1>19, <1>20, <1>21, <1>22, <1>23, <1>24, <1>25, <1>26, <1>27, <1>28, <1>29, <1>30, <1>31,
     <1>32, <1>33, <1>34
  DEF Next, LaunchStep, RunStep, HealStep


\* The worker of a run started by the scheduler is the tracked one as long as it
\* executes, in the engine and with every mix of the other launches but manual ones: a
\* run_project_manual counts execution_id without project_state_lock, and the run it
\* starts may then share its run_id with one that is about to untrack.
THEOREM LiveIsTracked == ASSUME Engine = TRUE, "manual" \notin Entries PROVE Spec => []LiveRunIsTracked
<1>1. Init => LockInv /\ TrackInv /\ KindsAreEntries
  BY LockInit, ThreadSorts
     DEF Init, TrackInv, RunIdsPast, EndedRunsOlder, UntrackedOlder, ScheduledTracked, ScheduledRun, RunPCs, KindsAreEntries
<1>2. ASSUME TypeInv, RunInv, StatusInv, LockInv, TrackInv, KindsAreEntries, [Next]_vars
      PROVE  LockInv' /\ TrackInv' /\ KindsAreEntries'
  BY <1>2, LockStep, TrackStep, KindStep
<1>3. TrackInv /\ KindsAreEntries => LiveRunIsTracked
  BY ThreadSorts DEF TrackInv, ScheduledTracked, ScheduledRun, RunPCs, KindsAreEntries, LiveRunIsTracked, Executing
<1>4. QED
  BY <1>1, <1>2, <1>3, RunInvariance, StatusInvariance, PTL DEF Spec
=============================================================================

--------------------------- MODULE FailoverProofs ---------------------------
(* Theorems about Failover, for any nodes, faults and number of days. *)
EXTENDS Failover, TLAPS

\* Today and tomorrow are tickets of the bounded horizon.
LEMMA DaysInRange == ASSUME now \in 0 .. MaxNow PROVE Today \in Nat /\ Today \in Tickets /\ Today + 1 \in Tickets
  BY BoundAssumption DEF Today, Tickets

\* calculate_next_run stays within the horizon.
LEMMA NextRunIsTicket == ASSUME now \in 0 .. MaxNow, NEW last PROVE NextRun(last) \in Tickets
  BY DaysInRange DEF NextRun

\* The first day is a ticket.
LEMMA ZeroIsTicket == 0 \in Tickets
  BY BoundAssumption DEF Tickets

Rows == [assigned : Nodes, status : {"active", "closed"}]

\* The types of all but the rows.
NodeTypes ==
  /\ lease_owner \in Nodes \cup {NoNode}
  /\ lease_live \in BOOLEAN
  /\ mode \in [Nodes -> {"down", "booting", "up", "stopping"}]
  /\ is_primary \in [Nodes -> BOOLEAN]
  /\ waiting \in [Nodes -> BOOLEAN]
  /\ next_run \in [Nodes -> Tickets]
  /\ last_consumed_ticket \in [Nodes -> Tickets \cup {-1}]
  /\ current_date \in [Nodes -> Nat]
  /\ launch \in [Nodes -> LaunchPCs]
  /\ run_key \in [Nodes -> Tickets]
  /\ sync \in [Nodes -> SyncPCs]
  /\ seen_owner \in [Nodes -> Nodes \cup {NoNode}]
  /\ seen_ticket \in [Nodes -> Tickets]
  /\ now \in 0 .. MaxNow
  /\ started \in [Nodes -> SUBSET Tickets]

\* The rows, and what a node may rely on: the row of a run belongs to its node, and
\* is active while the run lasts; a heartbeat finds its row; the row of a ticket
\* that was executed names the node that did it.
RowInv ==
  /\ scheduled_runs \in [Tickets -> {NoRow} \cup Rows]
  /\ \A n \in Nodes : launch[n] = "running" => scheduled_runs[run_key[n]] = Row(n, "active")
  /\ \A n \in Nodes : launch[n] = "close" => scheduled_runs[run_key[n]].assigned = n
  /\ \A n \in Nodes : sync[n] = "beat" => scheduled_runs[seen_ticket[n]].assigned \in Nodes
  /\ \A n \in Nodes : \A tk \in started[n] : scheduled_runs[tk].assigned = n

Inv == NodeTypes /\ RowInv

\* Nothing is running and no row exists at first.
LEMMA InvInit == Init => Inv
<1> SUFFICES ASSUME Init PROVE Inv
  OBVIOUS
<1>1. NodeTypes
  <2>1. now \in 0 .. MaxNow
    BY BoundAssumption DEF Init
  <2>2. QED BY <2>1, ZeroIsTicket DEF Init, NodeTypes, LaunchPCs, SyncPCs
<1>2. RowInv
  BY DEF Init, RowInv
<1>3. QED BY <1>1, <1>2 DEF Inv

\* An INSERT leaves existing rows alone.
LEMMA InsertKeepsRows ==
  ASSUME scheduled_runs \in [Tickets -> {NoRow} \cup Rows], NEW k \in Tickets, NEW r \in Rows,
         InsertIfAbsent(k, r)
  PROVE  /\ scheduled_runs' \in [Tickets -> {NoRow} \cup Rows]
         /\ \A tk \in Tickets : scheduled_runs[tk] # NoRow => scheduled_runs'[tk] = scheduled_runs[tk]
  BY DEF InsertIfAbsent

\* An UPDATE of a status leaves the assignments alone.
LEMMA UpdateKeepsAssigned ==
  ASSUME scheduled_runs \in [Tickets -> {NoRow} \cup Rows], NEW k \in Tickets,
         NEW s \in {"active", "closed"}, scheduled_runs[k] \in Rows,
         scheduled_runs' = [scheduled_runs EXCEPT ![k].status = s]
  PROVE  /\ scheduled_runs' \in [Tickets -> {NoRow} \cup Rows]
         /\ scheduled_runs'[k] = Row(scheduled_runs[k].assigned, s)
         /\ \A tk \in Tickets \ {k} : scheduled_runs'[tk] = scheduled_runs[tk]
  BY DEF Rows, Row

\* Rows that exist are kept by a step after which no node relies on a row it did
\* not rely on before.
LEMMA KeptRows ==
  ASSUME NodeTypes, RowInv, started' = started,
         scheduled_runs' \in [Tickets -> {NoRow} \cup Rows],
         \A tk \in Tickets : scheduled_runs[tk] # NoRow => scheduled_runs'[tk] = scheduled_runs[tk],
         \A m \in Nodes : launch'[m] \in {"running", "close"}
                           => launch'[m] = launch[m] /\ run_key'[m] = run_key[m],
         \A m \in Nodes : sync'[m] = "beat" => sync[m] = "beat" /\ seen_ticket'[m] = seen_ticket[m]
  PROVE  RowInv'
<1>1. ASSUME NEW m \in Nodes, launch'[m] = "running" PROVE scheduled_runs'[run_key'[m]] = Row(m, "active")
  <2>1. /\ launch[m] = "running" /\ run_key'[m] = run_key[m]
        /\ run_key[m] \in Tickets /\ scheduled_runs[run_key[m]] = Row(m, "active")
    BY <1>1 DEF RowInv, NodeTypes
  <2>2. Row(m, "active") # NoRow
    BY NodeAssumption DEF Row, NoRow
  <2>3. QED BY <2>1, <2>2
<1>2. ASSUME NEW m \in Nodes, launch'[m] = "close" PROVE scheduled_runs'[run_key'[m]].assigned = m
  <2>1. /\ launch[m] = "close" /\ run_key'[m] = run_key[m]
        /\ run_key[m] \in Tickets /\ scheduled_runs[run_key[m]].assigned = m
    BY <1>2 DEF RowInv, NodeTypes
  <2>2. scheduled_runs[run_key[m]] # NoRow
    BY <2>1, NodeAssumption DEF NoRow
  <2>3. QED BY <2>1, <2>2
<1>3. ASSUME NEW m \in Nodes, sync'[m] = "beat" PROVE scheduled_runs'[seen_ticket'[m]].assigned \in Nodes
  <2>1. /\ seen_ticket'[m] = seen_ticket[m] /\ seen_ticket[m] \in Tickets
        /\ scheduled_runs[seen_ticket[m]].assigned \in Nodes
    BY <1>3 DEF RowInv, NodeTypes
  <2>2. scheduled_runs[seen_ticket[m]] # NoRow
    BY <2>1, NodeAssumption DEF NoRow
  <2>3. QED BY <2>1, <2>2
<1>4. ASSUME NEW m \in Nodes, NEW tk \in started[m] PROVE scheduled_runs'[tk].assigned = m
  <2>1. tk \in Tickets /\ scheduled_runs[tk].assigned = m
    BY <1>4 DEF RowInv, NodeTypes
  <2>2. scheduled_runs[tk] # NoRow
    BY <2>1, NodeAssumption DEF NoRow
  <2>3. QED BY <2>1, <2>2
<1>5. QED
  BY <1>1, <1>2, <1>3, <1>4 DEF RowInv

\* Every step keeps the invariant, action by action.
LEMMA InvStep == Inv /\ [Next]_vars => Inv'
<1> SUFFICES ASSUME NodeTypes, RowInv, [Next]_vars PROVE NodeTypes' /\ RowInv'
  BY DEF Inv
<1>1. ASSUME NEW n \in Nodes, CheckTicket(n) PROVE NodeTypes' /\ RowInv'
  <2>1. NodeTypes'
    BY <1>1 DEF CheckTicket, GoLaunch, lease, project, syncing, NodeTypes, LaunchPCs, SyncPCs
  <2>2. RowInv'
    BY <1>1 DEF CheckTicket, GoLaunch, lease, project, syncing, NodeTypes, RowInv
  <2>3. QED BY <2>1, <2>2
<1>2. ASSUME NEW n \in Nodes, ConsumeTicket(n) PROVE NodeTypes' /\ RowInv'
  <2>1. NodeTypes'
    BY <1>2 DEF ConsumeTicket, GoLaunch, lease, syncing, NodeTypes, LaunchPCs, SyncPCs
  <2>2. RowInv'
    BY <1>2 DEF ConsumeTicket, GoLaunch, lease, syncing, NodeTypes, RowInv
  <2>3. QED BY <2>1, <2>2
<1>3. ASSUME NEW n \in Nodes, AskPolicy(n) PROVE NodeTypes' /\ RowInv'
  <2>1. NodeTypes'
    BY <1>3, ZeroIsTicket DEF AskPolicy, GoLaunch, EndLaunch, lease, project, syncing, NodeTypes, LaunchPCs, SyncPCs
  <2>2. RowInv'
    BY <1>3 DEF AskPolicy, GoLaunch, EndLaunch, lease, project, syncing, NodeTypes, RowInv
  <2>3. QED BY <2>1, <2>2
<1>4. ASSUME NEW n \in Nodes, InsertRun(n) PROVE NodeTypes' /\ RowInv'
  <2>1. NodeTypes'
    BY <1>4 DEF InsertRun, GoLaunch, lease, project, syncing, NodeTypes, LaunchPCs, SyncPCs
  <2>2. RowInv'
    <3>1. run_key[n] \in Tickets /\ Row(n, "active") \in Rows
      BY DEF NodeTypes, Row, Rows
    <3>2. /\ scheduled_runs' \in [Tickets -> {NoRow} \cup Rows]
          /\ \A tk \in Tickets : scheduled_runs[tk] # NoRow => scheduled_runs'[tk] = scheduled_runs[tk]
      BY <1>4, <3>1, InsertKeepsRows DEF InsertRun, RowInv
    <3>3. QED BY <1>4, <3>2, KeptRows DEF InsertRun, GoLaunch, syncing, NodeTypes
  <2>3. QED BY <2>1, <2>2
<1>5. ASSUME NEW n \in Nodes, LookupRun(n) PROVE NodeTypes' /\ RowInv'
  <2>1. NodeTypes'
    <3>1. CASE Claimed(n)
      <4>1. waiting' \in [Nodes -> BOOLEAN] /\ launch' \in [Nodes -> LaunchPCs]
        BY <1>5, <3>1 DEF LookupRun, GoLaunch, NodeTypes, LaunchPCs
      <4>2. started' \in [Nodes -> SUBSET Tickets]
        BY <1>5, <3>1 DEF LookupRun, NodeTypes
      <4>3. QED BY <1>5, <3>1, <4>1, <4>2 DEF LookupRun, lease, syncing, NodeTypes
    <3>2. CASE ~Claimed(n)
      BY <1>5, <3>2, ZeroIsTicket DEF LookupRun, GoLaunch, EndLaunch, lease, syncing, NodeTypes, LaunchPCs
    <3>3. QED BY <3>1, <3>2
  <2>2. RowInv'
    <3>1. scheduled_runs' = scheduled_runs /\ sync' = sync /\ seen_ticket' = seen_ticket
      BY <1>5 DEF LookupRun, syncing
    <3>2. CASE ~Claimed(n)
      BY <1>5, <3>1, <3>2 DEF LookupRun, EndLaunch, GoLaunch, NodeTypes, RowInv
    <3>3. CASE Claimed(n)
      <4>1. /\ scheduled_runs[run_key[n]] = Row(n, "active")
            /\ scheduled_runs[run_key[n]].assigned = n
        BY <3>3 DEF Claimed, Row
      <4>2. /\ launch' = [launch EXCEPT ![n] = "running"] /\ run_key' = run_key
            /\ started' = [started EXCEPT ![n] = @ \cup {run_key[n]}]
        BY <1>5, <3>3 DEF LookupRun, GoLaunch
      <4>3. \A m \in Nodes : \A tk \in started'[m] : scheduled_runs[tk].assigned = m
        BY <4>1, <4>2 DEF NodeTypes, RowInv
      <4>4. QED BY <3>1, <4>1, <4>2, <4>3 DEF NodeTypes, RowInv
    <3>4. QED BY <3>2, <3>3
  <2>3. QED BY <2>1, <2>2
<1>6. ASSUME NEW n \in Nodes, CloseRun(n) PROVE NodeTypes' /\ RowInv'
  <2>1. NodeTypes'
    BY <1>6, ZeroIsTicket DEF CloseRun, EndLaunch, lease, project, syncing, GoLaunch, NodeTypes, LaunchPCs, SyncPCs
  <2>2. RowInv'
    <3> DEFINE k == run_key[n]
    <3>1. /\ k \in Tickets /\ scheduled_runs[k].assigned = n /\ launch[n] = "close"
          /\ scheduled_runs \in [Tickets -> {NoRow} \cup Rows]
      BY <1>6 DEF CloseRun, NodeTypes, RowInv
    <3>2. scheduled_runs[k] \in Rows
      BY <3>1, NodeAssumption DEF NoRow
    <3>3. /\ scheduled_runs' \in [Tickets -> {NoRow} \cup Rows]
          /\ scheduled_runs'[k] = Row(n, "closed")
          /\ \A tk \in Tickets \ {k} : scheduled_runs'[tk] = scheduled_runs[tk]
      BY <1>6, <3>1, <3>2, UpdateKeepsAssigned DEF CloseRun
    <3> HIDE DEF k
    <3>4. \A tk \in Tickets : scheduled_runs'[tk].assigned = scheduled_runs[tk].assigned
      BY <3>1, <3>3 DEF Row
    <3>5. /\ launch' = [launch EXCEPT ![n] = "idle"] /\ run_key' = [run_key EXCEPT ![n] = 0]
          /\ sync' = sync /\ seen_ticket' = seen_ticket /\ started' = started
      BY <1>6 DEF CloseRun, EndLaunch, GoLaunch, syncing
    <3>6. ASSUME NEW m \in Nodes, launch'[m] = "running"
          PROVE  scheduled_runs'[run_key'[m]] = Row(m, "active")
      <4>1. m # n /\ launch[m] = "running" /\ run_key'[m] = run_key[m] /\ run_key[m] \in Tickets
        BY <3>5, <3>6 DEF NodeTypes
      <4>2. scheduled_runs[run_key[m]] = Row(m, "active")
        BY <4>1 DEF RowInv
      <4>3. run_key[m] # k
        BY <3>1, <4>1, <4>2 DEF Row
      <4>4. QED BY <3>3, <4>1, <4>2, <4>3
    <3>7. ASSUME NEW m \in Nodes, launch'[m] = "close"
          PROVE  scheduled_runs'[run_key'[m]].assigned = m
      BY <3>4, <3>5, <3>7 DEF NodeTypes, RowInv
    <3>8. ASSUME NEW m \in Nodes, sync'[m] = "beat"
          PROVE  scheduled_runs'[seen_ticket'[m]].assigned \in Nodes
      BY <3>4, <3>5, <3>8 DEF NodeTypes, RowInv
    <3>9. ASSUME NEW m \in Nodes, NEW tk \in started'[m] PROVE scheduled_runs'[tk].assigned = m
      BY <3>4, <3>5, <3>9 DEF NodeTypes, RowInv
    <3>10. QED BY <3>3, <3>6, <3>7, <3>8, <3>9 DEF RowInv
  <2>3. QED BY <2>1, <2>2
<1>7. ASSUME NEW n \in Nodes, ResetDay(n) PROVE NodeTypes' /\ RowInv'
  <2>1. NodeTypes'
    <3>1. /\ NextRun(last_consumed_ticket[n]) \in Tickets /\ Today \in Nat
      BY NextRunIsTicket, DaysInRange DEF NodeTypes
    <3>2. /\ waiting' \in [Nodes -> BOOLEAN] /\ next_run' \in [Nodes -> Tickets]
          /\ current_date' \in [Nodes -> Nat]
      BY <1>7, <3>1 DEF ResetDay, NodeTypes
    <3>3. QED BY <1>7, <3>2 DEF ResetDay, lease, running, syncing, NodeTypes
  <2>2. RowInv'
    BY <1>7 DEF ResetDay, lease, running, syncing, NodeTypes, RowInv
  <2>3. QED BY <2>1, <2>2
<1>8. ASSUME NEW n \in Nodes, FinishRun(n) PROVE NodeTypes' /\ RowInv'
  <2>1. NodeTypes'
    BY <1>8, NextRunIsTicket DEF FinishRun, GoLaunch, lease, running, syncing, NodeTypes, LaunchPCs, SyncPCs
  <2>2. RowInv'
    <3>1. scheduled_runs[run_key[n]] = Row(n, "active")
      BY <1>8 DEF FinishRun, RowInv
    <3>2. scheduled_runs[run_key[n]].assigned = n
      BY <3>1 DEF Row
    <3>3. QED BY <1>8, <3>2 DEF FinishRun, GoLaunch, lease, syncing, NodeTypes, RowInv
  <2>3. QED BY <2>1, <2>2
<1>9. ASSUME NEW n \in Nodes, LaunchFails(n) PROVE NodeTypes' /\ RowInv'
  <2>1. NodeTypes'
    BY <1>9, ZeroIsTicket DEF LaunchFails, EndLaunch, lease, project, syncing, GoLaunch, NodeTypes, LaunchPCs, SyncPCs
  <2>2. RowInv'
    BY <1>9 DEF LaunchFails, EndLaunch, lease, project, syncing, GoLaunch, NodeTypes, RowInv
  <2>3. QED BY <2>1, <2>2
<1>10. ASSUME NEW n \in Nodes, UpsertLease(n) PROVE NodeTypes' /\ RowInv'
  <2>1. NodeTypes'
    BY <1>10 DEF UpsertLease, GoSync, SyncStep, TakeLease, lease, running, NodeTypes, LaunchPCs, SyncPCs
  <2>2. RowInv'
    BY <1>10 DEF UpsertLease, GoSync, SyncStep, TakeLease, lease, running, NodeTypes, RowInv
  <2>3. QED BY <2>1, <2>2
<1>11. ASSUME NEW n \in Nodes, ReadLease(n) PROVE NodeTypes' /\ RowInv'
  <2>1. NodeTypes'
    BY <1>11 DEF ReadLease, GoSync, SyncStep, lease, running, NodeTypes, LaunchPCs, SyncPCs
  <2>2. RowInv'
    BY <1>11 DEF ReadLease, GoSync, SyncStep, lease, running, NodeTypes, RowInv
  <2>3. QED BY <2>1, <2>2
<1>12. ASSUME NEW n \in Nodes, CheckOwner(n) PROVE NodeTypes' /\ RowInv'
  <2>1. NodeTypes'
    BY <1>12 DEF CheckOwner, GoSync, SyncStep, ForgetOwner, lease, running, NodeTypes, LaunchPCs, SyncPCs
  <2>2. RowInv'
    BY <1>12 DEF CheckOwner, GoSync, SyncStep, ForgetOwner, lease, running, NodeTypes, RowInv
  <2>3. QED BY <2>1, <2>2
<1>13. ASSUME NEW n \in Nodes, ForceTakeover(n) PROVE NodeTypes' /\ RowInv'
  <2>1. NodeTypes'
    BY <1>13 DEF ForceTakeover, GoSync, SyncStep, ForgetOwner, TakeLease, lease, running, NodeTypes, LaunchPCs, SyncPCs
  <2>2. RowInv'
    BY <1>13 DEF ForceTakeover, GoSync, SyncStep, ForgetOwner, TakeLease, lease, running, NodeTypes, RowInv
  <2>3. QED BY <2>1, <2>2
<1>14. ASSUME NEW n \in Nodes, RereadLease(n) PROVE NodeTypes' /\ RowInv'
  <2>1. NodeTypes'
    BY <1>14 DEF RereadLease, GoSync, SyncStep, lease, running, NodeTypes, LaunchPCs, SyncPCs
  <2>2. RowInv'
    BY <1>14 DEF RereadLease, GoSync, SyncStep, lease, running, NodeTypes, RowInv
  <2>3. QED BY <2>1, <2>2
<1>15. ASSUME NEW n \in Nodes, SkipReconcile(n) PROVE NodeTypes' /\ RowInv'
  <2>1. NodeTypes'
    BY <1>15 DEF SkipReconcile, GoSync, SyncStep, lease, running, NodeTypes, LaunchPCs, SyncPCs
  <2>2. RowInv'
    BY <1>15 DEF SkipReconcile, GoSync, SyncStep, lease, running, NodeTypes, RowInv
  <2>3. QED BY <2>1, <2>2
<1>16. ASSUME NEW n \in Nodes, Backfill(n) PROVE NodeTypes' /\ RowInv'
  <2>1. NodeTypes'
    BY <1>16 DEF Backfill, GoSync, SyncStep, lease, running, NodeTypes, LaunchPCs, SyncPCs
  <2>2. RowInv'
    <3>1. /\ scheduled_runs' \in [Tickets -> {NoRow} \cup Rows]
          /\ \A tk \in Tickets : scheduled_runs[tk] # NoRow => scheduled_runs'[tk] = scheduled_runs[tk]
      <4>1. CASE last_consumed_ticket[n] = -1
        BY <1>16, <4>1 DEF Backfill, RowInv
      <4>2. CASE last_consumed_ticket[n] # -1
        <5>1. last_consumed_ticket[n] \in Tickets /\ Row(n, "closed") \in Rows
          BY <4>2 DEF NodeTypes, Row, Rows
        <5>2. QED BY <1>16, <4>2, <5>1, InsertKeepsRows DEF Backfill, RowInv
      <4>3. QED BY <4>1, <4>2
    <3>2. QED BY <1>16, <3>1, KeptRows DEF Backfill, SyncStep, GoSync, running, NodeTypes
  <2>3. QED BY <2>1, <2>2
<1>17. ASSUME NEW n \in Nodes, ReconcileRead(n) PROVE NodeTypes' /\ RowInv'
  <2>1. NodeTypes'
    BY <1>17 DEF ReconcileRead, GoSync, SyncStep, lease, running, NodeTypes, LaunchPCs, SyncPCs
  <2>2. RowInv'
    BY <1>17 DEF ReconcileRead, GoSync, SyncStep, lease, running, NodeTypes, RowInv
  <2>3. QED BY <2>1, <2>2
<1>18. ASSUME NEW n \in Nodes, MarkConsumed(n) PROVE NodeTypes' /\ RowInv'
  <2>1. NodeTypes'
    BY <1>18, NextRunIsTicket, ZeroIsTicket DEF MarkConsumed, GoSync, SyncStep, ForgetTicket, lease, running, NodeTypes, LaunchPCs, SyncPCs
  <2>2. RowInv'
    BY <1>18 DEF MarkConsumed, GoSync, SyncStep, ForgetTicket, lease, running, NodeTypes, RowInv
  <2>3. QED BY <2>1, <2>2
<1>19. ASSUME NEW n \in Nodes, FindActiveRun(n) PROVE NodeTypes' /\ RowInv'
  <2>1. NodeTypes'
    BY <1>19 DEF FindActiveRun, GoSync, lease, project, running, NodeTypes, LaunchPCs, SyncPCs
  <2>2. RowInv'
    <3>1. CASE launch[n] = "running"
      <4>1. scheduled_runs[run_key[n]] = Row(n, "active")
        BY <3>1 DEF RowInv
      <4>2. scheduled_runs[run_key[n]].assigned = n
        BY <4>1 DEF Row
      <4>3. QED BY <1>19, <3>1, <4>2 DEF FindActiveRun, GoSync, running, NodeTypes, RowInv
    <3>2. CASE launch[n] # "running"
      BY <1>19, <3>2 DEF FindActiveRun, GoSync, running, NodeTypes, RowInv
    <3>3. QED BY <3>1, <3>2
  <2>3. QED BY <2>1, <2>2
<1>20. ASSUME NEW n \in Nodes, HeartbeatRun(n) PROVE NodeTypes' /\ RowInv'
  <2>1. NodeTypes'
    BY <1>20, ZeroIsTicket DEF HeartbeatRun, GoSync, SyncStep, ForgetTicket, lease, running, NodeTypes, LaunchPCs, SyncPCs
  <2>2. RowInv'
    <3> DEFINE k == seen_ticket[n]
    <3>1. /\ k \in Tickets /\ scheduled_runs[k].assigned \in Nodes
          /\ scheduled_runs \in [Tickets -> {NoRow} \cup Rows]
      BY <1>20 DEF HeartbeatRun, SyncStep, NodeTypes, RowInv
    <3>2. scheduled_runs[k] \in Rows
      BY <3>1, NodeAssumption DEF NoRow
    <3>3. /\ scheduled_runs' \in [Tickets -> {NoRow} \cup Rows]
          /\ scheduled_runs'[k] = Row(scheduled_runs[k].assigned, "active")
          /\ \A tk \in Tickets \ {k} : scheduled_runs'[tk] = scheduled_runs[tk]
      BY <1>20, <3>1, <3>2, UpdateKeepsAssigned DEF HeartbeatRun
    <3>4. /\ launch' = launch /\ run_key' = run_key /\ started' = started
          /\ sync' = [sync EXCEPT ![n] = "idle"] /\ seen_ticket' = [seen_ticket EXCEPT ![n] = 0]
      BY <1>20 DEF HeartbeatRun, SyncStep, GoSync, ForgetTicket, running
    <3> HIDE DEF k
    <3>5. \A tk \in Tickets : scheduled_runs'[tk].assigned = scheduled_runs[tk].assigned
      BY <3>1, <3>3 DEF Row
    <3>6. ASSUME NEW m \in Nodes, launch'[m] = "running"
          PROVE  scheduled_runs'[run_key'[m]] = Row(m, "active")
      <4>1. run_key[m] \in Tickets /\ scheduled_runs[run_key[m]] = Row(m, "active")
        BY <3>4, <3>6 DEF NodeTypes, RowInv
      <4>2. CASE run_key[m] = k
        BY <3>3, <3>4, <4>1, <4>2 DEF Row
      <4>3. CASE run_key[m] # k
        BY <3>3, <3>4, <4>1, <4>3
      <4>4. QED BY <4>2, <4>3
    <3>7. ASSUME NEW m \in Nodes, launch'[m] = "close"
          PROVE  scheduled_runs'[run_key'[m]].assigned = m
      BY <3>4, <3>5, <3>7 DEF NodeTypes, RowInv
    <3>8. ASSUME NEW m \in Nodes, sync'[m] = "beat"
          PROVE  scheduled_runs'[seen_ticket'[m]].assigned \in Nodes
      BY <3>4, <3>5, <3>8 DEF NodeTypes, RowInv
    <3>9. ASSUME NEW m \in Nodes, NEW tk \in started'[m] PROVE scheduled_runs'[tk].assigned = m
      BY <3>4, <3>5, <3>9 DEF NodeTypes, RowInv
    <3>10. QED BY <3>3, <3>6, <3>7, <3>8, <3>9 DEF RowInv
  <2>3. QED BY <2>1, <2>2
<1>21. ASSUME NEW n \in Nodes, SyncFails(n) PROVE NodeTypes' /\ RowInv'
  <2>1. NodeTypes'
    BY <1>21, ZeroIsTicket DEF SyncFails, GoSync, ForgetOwner, ForgetTicket, lease, project, running, NodeTypes, LaunchPCs, SyncPCs
  <2>2. RowInv'
    BY <1>21 DEF SyncFails, GoSync, ForgetOwner, ForgetTicket, lease, project, running, NodeTypes, RowInv
  <2>3. QED BY <2>1, <2>2
<1>22. ASSUME NEW n \in Nodes, Boot(n) PROVE NodeTypes' /\ RowInv'
  <2>1. NodeTypes'
    BY <1>22, NextRunIsTicket, DaysInRange DEF Boot, lease, running, syncing, NodeTypes, LaunchPCs, SyncPCs, RestoredTicket
  <2>2. RowInv'
    BY <1>22 DEF Boot, lease, running, syncing, NodeTypes, RowInv
  <2>3. QED BY <2>1, <2>2
<1>23. ASSUME NEW n \in Nodes, Stop(n) PROVE NodeTypes' /\ RowInv'
  <2>1. NodeTypes'
    BY <1>23 DEF Stop, ReleaseLease, lease, project, running, syncing, NodeTypes, LaunchPCs, SyncPCs
  <2>2. RowInv'
    BY <1>23 DEF Stop, ReleaseLease, lease, project, running, syncing, NodeTypes, RowInv
  <2>3. QED BY <2>1, <2>2
<1>24. ASSUME NEW n \in Nodes, Exit(n) PROVE NodeTypes' /\ RowInv'
  <2>1. NodeTypes'
    BY <1>24, ZeroIsTicket DEF Exit, EndLaunch, GoSync, ForgetOwner, ForgetTicket, lease, project, GoLaunch, NodeTypes, LaunchPCs, SyncPCs
  <2>2. RowInv'
    BY <1>24 DEF Exit, EndLaunch, GoSync, ForgetOwner, ForgetTicket, lease, project, GoLaunch, NodeTypes, RowInv
  <2>3. QED BY <2>1, <2>2
<1>25. ASSUME LeaseExpires PROVE NodeTypes' /\ RowInv'
  BY <1>25 DEF LeaseExpires, NodeTypes, RowInv, project, running, syncing
<1>26. ASSUME Tick PROVE NodeTypes' /\ RowInv'
  BY <1>26, BoundAssumption DEF Tick, NodeTypes, RowInv, lease, project, running, syncing
<1>27. CASE UNCHANGED vars
  BY <1>27 DEF vars, NodeTypes, RowInv, lease, project, running, syncing
<1>28. QED
  BY <1>1, <1>2, <1>3, <1>4, <1>5, <1>6, <1>7, <1>8, <1>9, <1>10, <1>11, <1>12, <1>13, <1>14, <1>15, <1>16, <1>17, <1>18, <1>19, <1>20, <1>21, <1>22, <1>23, <1>24, <1>25, <1>26, <1>27
  DEF Next, LaunchStep, SyncRound

\* The invariant holds in every behaviour.
LEMMA InvAlways == Spec => []Inv
  BY InvInit, InvStep, PTL DEF Spec

\* The two parts together type every variable.
LEMMA InvTypes == Inv => TypeOK
  BY DEF Inv, NodeTypes, RowInv, TypeOK, Rows

\* Every variable keeps its type; in particular a heartbeat or a finish_run updates
\* a row that exists.
THEOREM TypeCorrect == Spec => []TypeOK
  BY InvAlways, InvTypes, PTL

\* A node executes only under an active row of its own.
THEOREM RunsAreRecorded == Spec => []ExecutionIsRecorded
<1>1. Inv => ExecutionIsRecorded
  BY DEF Inv, RowInv, ExecutionIsRecorded
<1>2. QED
  BY <1>1, InvAlways, PTL

\* No ticket is executed by two nodes, ever: not after a takeover, a restart, an
\* error of D1 or a late heartbeat.
THEOREM OneNode == Spec => []OneNodePerTicket
<1>1. Inv => OneNodePerTicket
  BY DEF Inv, NodeTypes, RowInv, OneNodePerTicket
<1>2. QED
  BY <1>1, InvAlways, PTL
-----------------------------------------------------------------------------
(* The lease.  With the priorities of the sample files no node ever sees the *)
(* main one as an owner it may take the lease from.                          *)

SeenInv == \A n \in Nodes : seen_owner[n] # Main

\* With the sample priorities the main node is no node's lower owner.
LEMMA MainIsHighest ==
  ASSUME Settings = "samples", NEW n \in Nodes, LowerOwner(n) PROVE lease_owner # Main
  BY DEF LowerOwner, node_priority

LEMMA SeenStep == ASSUME Settings = "samples", Inv, SeenInv, [Next]_vars PROVE SeenInv'
<1>. USE NodeAssumption DEF Inv, NodeTypes
<1>1. ASSUME NEW n \in Nodes, ReadLease(n) PROVE SeenInv'
  <2>1. \/ LowerOwner(n) /\ seen_owner' = [seen_owner EXCEPT ![n] = lease_owner]
        \/ seen_owner' = seen_owner
    BY <1>1 DEF ReadLease
  <2>2. CASE seen_owner' = seen_owner
    BY <2>2 DEF SeenInv
  <2>3. CASE LowerOwner(n) /\ seen_owner' = [seen_owner EXCEPT ![n] = lease_owner]
    BY <2>3, MainIsHighest DEF SeenInv
  <2>4. QED BY <2>1, <2>2, <2>3
<1>2. ASSUME NEW n \in Nodes, seen_owner' = seen_owner \/ ForgetOwner(n) PROVE SeenInv'
  BY <1>2 DEF SeenInv, ForgetOwner
<1>3. QED
  BY <1>1, <1>2 DEF Next, LaunchStep, SyncRound, CheckTicket, ConsumeTicket, AskPolicy, InsertRun, LookupRun,
     CloseRun, ResetDay, FinishRun, LaunchFails, UpsertLease, CheckOwner, ForceTakeover, RereadLease,
     SkipReconcile, Backfill, ReconcileRead, MarkConsumed, FindActiveRun, HeartbeatRun, SyncFails, Boot,
     Stop, Exit, LeaseExpires, Tick, syncing, vars

\* What a step can do to the owner of the lease.
OwnerMoves ==
  \/ lease_owner' = lease_owner
  \/ lease_owner' = NoNode
  \/ \E n \in Nodes : lease_owner' = n /\ (lease_owner \in {NoNode, n, seen_owner[n]} \/ ~lease_live)

LEMMA OwnerStep == [Next]_vars => OwnerMoves
<1> SUFFICES ASSUME [Next]_vars PROVE OwnerMoves
  OBVIOUS
<1>1. ASSUME NEW n \in Nodes, UpsertLease(n) PROVE OwnerMoves
  BY <1>1 DEF UpsertLease, TakeLease, lease, OwnerMoves
<1>2. ASSUME NEW n \in Nodes, ForceTakeover(n) PROVE OwnerMoves
  BY <1>2 DEF ForceTakeover, TakeLease, lease, OwnerMoves
<1>3. ASSUME NEW n \in Nodes, Stop(n) PROVE OwnerMoves
  BY <1>3 DEF Stop, ReleaseLease, lease, OwnerMoves
<1>4. ASSUME lease_owner' = lease_owner PROVE OwnerMoves
  BY <1>4 DEF OwnerMoves
<1>5. QED
  BY <1>1, <1>2, <1>3, <1>4 DEF Next, LaunchStep, SyncRound, CheckTicket, ConsumeTicket, AskPolicy, InsertRun,
     LookupRun, CloseRun, ResetDay, FinishRun, LaunchFails, ReadLease, CheckOwner, RereadLease,
     SkipReconcile, Backfill, ReconcileRead, MarkConsumed, FindActiveRun, HeartbeatRun, SyncFails, Boot,
     Exit, LeaseExpires, Tick, lease, vars

\* With the priorities of the sample files nobody takes a live lease from the main
\* node: not between its reads and a takeover, and not after restarts or errors.
THEOREM MainKeeps == ASSUME Settings = "samples" PROVE Spec => MainKeepsLease
<1>1. Init => SeenInv
  BY NodeAssumption DEF Init, SeenInv
<1>2. Inv /\ SeenInv /\ [Next]_vars => (Inv /\ SeenInv)'
  BY SeenStep, InvStep
<1>3. Inv /\ SeenInv /\ [Next]_vars
        => [lease_owner = Main /\ lease_live => lease_owner' \in {Main, NoNode}]_lease
  BY OwnerStep, NodeAssumption DEF OwnerMoves, SeenInv
<1>4. QED
  BY <1>1, <1>2, <1>3, InvInit, PTL DEF Spec, MainKeepsLease
-----------------------------------------------------------------------------
(* A ticket is executed once: Failover implements RunBoard.  What the nodes  *)
(* owe to it is one fact, that a row read back as claimed is not one the     *)
(* node has executed before (FreshClaims).  It holds within one day whatever *)
(* goes wrong, and on any number of days if no process dies or loses an      *)
(* answer; the two arguments are different.                                  *)

FreshClaims == \A n \in Nodes : launch[n] = "lookup" /\ Claimed(n) => run_key[n] \notin started[n]

Used == UNION {started[n] : n \in Nodes}
Executing == {<<n, run_key[n]>> : n \in {m \in Nodes : launch[m] = "running"}}
BoardStep == [Board!Next]_<<Used, Executing>>

\* A step that starts and ends no run leaves the board as it is.
LEMMA BoardStutters ==
  ASSUME started' = started,
         \A m \in Nodes : launch'[m] = "running" <=> launch[m] = "running",
         \A m \in Nodes : launch[m] = "running" => run_key'[m] = run_key[m]
  PROVE  BoardStep
<1>1. Used' = Used
  BY DEF Used
<1>2. Executing' = Executing
  <2>1. ASSUME NEW e PROVE e \in Executing' <=> e \in Executing
    BY DEF Executing
  <2>2. QED BY <2>1 DEF Executing
<1>3. QED BY <1>1, <1>2 DEF BoardStep

\* A run that leaves "running" is taken off the board.
LEMMA BoardEnds ==
  ASSUME NodeTypes, NEW n \in Nodes, launch[n] = "running", launch'[n] # "running", started' = started,
         \A m \in Nodes \ {n} : launch'[m] = launch[m] /\ run_key'[m] = run_key[m]
  PROVE  BoardStep
<1>1. PICK k \in Tickets : k = run_key[n]
  BY DEF NodeTypes
<1>2. <<n, k>> \in Executing
  BY <1>1 DEF Executing
<1>3. Executing' = Executing \ {<<n, k>>}
  <2>1. ASSUME NEW e PROVE e \in Executing' <=> e \in Executing /\ e # <<n, k>>
    <3>1. e \in Executing' <=> \E m \in Nodes : launch'[m] = "running" /\ e = <<m, run_key'[m]>>
      BY DEF Executing
    <3>2. e \in Executing <=> \E m \in Nodes : launch[m] = "running" /\ e = <<m, run_key[m]>>
      BY DEF Executing
    <3>3. QED BY <3>1, <3>2, <1>1
  <2>2. QED BY <2>1 DEF Executing
<1>4. Used' = Used
  BY DEF Used
<1>5. Board!End(n, k)
  BY <1>2, <1>3, <1>4 DEF Board!End, Used, Executing
<1>6. QED BY <1>1, <1>5 DEF BoardStep, Board!Next

\* A claim that is fresh puts a ticket on the board that was never there.
LEMMA BoardExecutes ==
  ASSUME NodeTypes, RowInv, FreshClaims, NEW n \in Nodes, LookupRun(n), Claimed(n) PROVE BoardStep
<1>1. PICK k \in Tickets : k = run_key[n]
  BY DEF NodeTypes
<1>2. /\ launch[n] = "lookup" /\ launch' = [launch EXCEPT ![n] = "running"] /\ run_key' = run_key
      /\ started' = [started EXCEPT ![n] = @ \cup {k}]
  BY <1>1 DEF LookupRun, GoLaunch
<1>3. k \notin Used
  <2>1. scheduled_runs[k].assigned = n
    BY <1>1 DEF Claimed, Row
  <2>2. \A m \in Nodes : k \in started[m] => m = n
    BY <2>1 DEF RowInv
  <2>3. QED BY <1>1, <1>2, <2>2 DEF FreshClaims, Used
<1>4. Used' = Used \cup {k}
  BY <1>2 DEF Used, NodeTypes
<1>5. Executing' = Executing \cup {<<n, k>>}
  <2>1. ASSUME NEW e PROVE e \in Executing' <=> e \in Executing \/ e = <<n, k>>
    <3>1. e \in Executing' <=> \E m \in Nodes : launch'[m] = "running" /\ e = <<m, run_key[m]>>
      BY <1>2 DEF Executing
    <3>2. e \in Executing <=> \E m \in Nodes : launch[m] = "running" /\ e = <<m, run_key[m]>>
      BY DEF Executing
    <3>3. \A m \in Nodes : launch'[m] = "running" <=> m = n \/ launch[m] = "running"
      BY <1>2 DEF NodeTypes
    <3>4. QED BY <3>1, <3>2, <3>3, <1>1
  <2>2. QED BY <2>1 DEF Executing
<1>6. Board!Execute(n, k)
  BY <1>3, <1>4, <1>5 DEF Board!Execute, Used, Executing
<1>7. QED BY <1>1, <1>6 DEF BoardStep, Board!Next

LEMMA ImplementsBoard == ASSUME Inv, FreshClaims, [Next]_vars PROVE BoardStep
<1>0. NodeTypes /\ RowInv
  BY DEF Inv
<1>1. ASSUME NEW n \in Nodes, CheckTicket(n) PROVE BoardStep
  BY <1>0, <1>1, BoardStutters DEF CheckTicket, GoLaunch, EndLaunch, running, NodeTypes
<1>2. ASSUME NEW n \in Nodes, ConsumeTicket(n) PROVE BoardStep
  BY <1>0, <1>2, BoardStutters DEF ConsumeTicket, GoLaunch, EndLaunch, running, NodeTypes
<1>3. ASSUME NEW n \in Nodes, AskPolicy(n) PROVE BoardStep
  BY <1>0, <1>3, BoardStutters DEF AskPolicy, GoLaunch, EndLaunch, running, NodeTypes
<1>4. ASSUME NEW n \in Nodes, InsertRun(n) PROVE BoardStep
  BY <1>0, <1>4, BoardStutters DEF InsertRun, GoLaunch, EndLaunch, running, NodeTypes
<1>5. ASSUME NEW n \in Nodes, CloseRun(n) PROVE BoardStep
  BY <1>0, <1>5, BoardStutters DEF CloseRun, GoLaunch, EndLaunch, running, NodeTypes
<1>6. ASSUME NEW n \in Nodes, ResetDay(n) PROVE BoardStep
  BY <1>0, <1>6, BoardStutters DEF ResetDay, GoLaunch, EndLaunch, running, NodeTypes
<1>7. ASSUME NEW n \in Nodes, LaunchFails(n) PROVE BoardStep
  BY <1>0, <1>7, BoardStutters DEF LaunchFails, GoLaunch, EndLaunch, running, NodeTypes
<1>8. ASSUME NEW n \in Nodes, UpsertLease(n) PROVE BoardStep
  BY <1>8, BoardStutters DEF UpsertLease, SyncStep, running
<1>9. ASSUME NEW n \in Nodes, ReadLease(n) PROVE BoardStep
  BY <1>9, BoardStutters DEF ReadLease, SyncStep, running
<1>10. ASSUME NEW n \in Nodes, CheckOwner(n) PROVE BoardStep
  BY <1>10, BoardStutters DEF CheckOwner, SyncStep, running
<1>11. ASSUME NEW n \in Nodes, ForceTakeover(n) PROVE BoardStep
  BY <1>11, BoardStutters DEF ForceTakeover, SyncStep, running
<1>12. ASSUME NEW n \in Nodes, RereadLease(n) PROVE BoardStep
  BY <1>12, BoardStutters DEF RereadLease, SyncStep, running
<1>13. ASSUME NEW n \in Nodes, SkipReconcile(n) PROVE BoardStep
  BY <1>13, BoardStutters DEF SkipReconcile, SyncStep, running
<1>14. ASSUME NEW n \in Nodes, Backfill(n) PROVE BoardStep
  BY <1>14, BoardStutters DEF Backfill, SyncStep, running
<1>15. ASSUME NEW n \in Nodes, ReconcileRead(n) PROVE BoardStep
  BY <1>15, BoardStutters DEF ReconcileRead, SyncStep, running
<1>16. ASSUME NEW n \in Nodes, MarkConsumed(n) PROVE BoardStep
  BY <1>16, BoardStutters DEF MarkConsumed, SyncStep, running
<1>17. ASSUME NEW n \in Nodes, HeartbeatRun(n) PROVE BoardStep
  BY <1>17, BoardStutters DEF HeartbeatRun, SyncStep, running
<1>18. ASSUME NEW n \in Nodes, FindActiveRun(n) PROVE BoardStep
  BY <1>18, BoardStutters DEF FindActiveRun, running
<1>19. ASSUME NEW n \in Nodes, SyncFails(n) PROVE BoardStep
  BY <1>19, BoardStutters DEF SyncFails, running
<1>20. ASSUME NEW n \in Nodes, Boot(n) PROVE BoardStep
  BY <1>20, BoardStutters DEF Boot, running
<1>21. ASSUME NEW n \in Nodes, Stop(n) PROVE BoardStep
  BY <1>21, BoardStutters DEF Stop, running
<1>22. ASSUME NEW n \in Nodes, LookupRun(n) PROVE BoardStep
  <2>1. CASE Claimed(n)
    BY <1>0, <1>22, <2>1, BoardExecutes
  <2>2. CASE ~Claimed(n)
    BY <1>0, <1>22, <2>2, BoardStutters DEF LookupRun, EndLaunch, GoLaunch, NodeTypes
  <2>3. QED BY <2>1, <2>2
<1>23. ASSUME NEW n \in Nodes, FinishRun(n) PROVE BoardStep
  BY <1>0, <1>23, BoardEnds DEF FinishRun, GoLaunch, running, NodeTypes
<1>24. ASSUME NEW n \in Nodes, Exit(n) PROVE BoardStep
  <2>1. CASE launch[n] = "running"
    BY <1>0, <1>24, <2>1, BoardEnds DEF Exit, EndLaunch, GoLaunch, NodeTypes
  <2>2. CASE launch[n] # "running"
    BY <1>0, <1>24, <2>2, BoardStutters DEF Exit, EndLaunch, GoLaunch, NodeTypes
  <2>3. QED BY <2>1, <2>2
<1>25. ASSUME LeaseExpires \/ Tick \/ UNCHANGED vars PROVE BoardStep
  BY <1>25, BoardStutters DEF LeaseExpires, Tick, vars, running
<1>. QED
  BY <1>1, <1>2, <1>3, <1>4, <1>5, <1>6, <1>7, <1>8, <1>9, <1>10, <1>11, <1>12, <1>13, <1>14, <1>15, <1>16, <1>17, <1>18, <1>19, <1>20, <1>21, <1>22, <1>23, <1>24, <1>25
  DEF Next, LaunchStep, SyncRound

LEMMA BoardInit == Init => Used = {} /\ Executing = {}
  BY DEF Init, Used, Executing

\* Within one day, a launch has found the project waiting, and it waits only until
\* its first run: the date has not changed since.
DayInv ==
  \A n \in Nodes : /\ current_date[n] = 0
                   /\ launch[n] \in {"consume", "policy", "insert", "lookup"} => waiting[n]
                   /\ waiting[n] => started[n] = {}

LEMMA FirstDay == ASSUME MaxNow \in {0, 1}, now \in 0 .. MaxNow PROVE Today = 0
  BY DEF Today

\* No launch begins and nothing that waits has run.
DayKept ==
  /\ UNCHANGED <<current_date, waiting, started>>
  /\ \A m \in Nodes : launch'[m] \in {"consume", "policy", "insert", "lookup"}
                        => launch[m] \in {"consume", "policy", "insert", "lookup"}

LEMMA KeptDay == ASSUME DayInv, DayKept PROVE DayInv'
  BY DEF DayInv, DayKept

LEMMA DayStep == ASSUME MaxNow \in {0, 1}, Inv, DayInv, [Next]_vars PROVE DayInv'
<1>0. NodeTypes /\ Today = 0
  BY FirstDay DEF Inv, NodeTypes
<1>1. ASSUME NEW n \in Nodes, CheckTicket(n) PROVE DayInv'
  BY <1>0, <1>1 DEF CheckTicket, GoLaunch, project, DayInv, NodeTypes
<1>2. ASSUME NEW n \in Nodes, ConsumeTicket(n) PROVE DayInv'
  BY <1>0, <1>2, KeptDay DEF ConsumeTicket, GoLaunch, EndLaunch, project, DayKept, NodeTypes
<1>3. ASSUME NEW n \in Nodes, AskPolicy(n) PROVE DayInv'
  BY <1>0, <1>3, KeptDay DEF AskPolicy, GoLaunch, EndLaunch, project, DayKept, NodeTypes
<1>4. ASSUME NEW n \in Nodes, InsertRun(n) PROVE DayInv'
  BY <1>0, <1>4, KeptDay DEF InsertRun, GoLaunch, EndLaunch, project, DayKept, NodeTypes
<1>5. ASSUME NEW n \in Nodes, CloseRun(n) PROVE DayInv'
  BY <1>0, <1>5, KeptDay DEF CloseRun, GoLaunch, EndLaunch, project, DayKept, NodeTypes
<1>6. ASSUME NEW n \in Nodes, FinishRun(n) PROVE DayInv'
  BY <1>0, <1>6, KeptDay DEF FinishRun, GoLaunch, EndLaunch, project, DayKept, NodeTypes
<1>7. ASSUME NEW n \in Nodes, LaunchFails(n) PROVE DayInv'
  BY <1>0, <1>7, KeptDay DEF LaunchFails, GoLaunch, EndLaunch, project, DayKept, NodeTypes
<1>8. ASSUME NEW n \in Nodes, UpsertLease(n) PROVE DayInv'
  BY <1>8, KeptDay DEF UpsertLease, SyncStep, running, DayKept
<1>9. ASSUME NEW n \in Nodes, ReadLease(n) PROVE DayInv'
  BY <1>9, KeptDay DEF ReadLease, SyncStep, running, DayKept
<1>10. ASSUME NEW n \in Nodes, CheckOwner(n) PROVE DayInv'
  BY <1>10, KeptDay DEF CheckOwner, SyncStep, running, DayKept
<1>11. ASSUME NEW n \in Nodes, ForceTakeover(n) PROVE DayInv'
  BY <1>11, KeptDay DEF ForceTakeover, SyncStep, running, DayKept
<1>12. ASSUME NEW n \in Nodes, RereadLease(n) PROVE DayInv'
  BY <1>12, KeptDay DEF RereadLease, SyncStep, running, DayKept
<1>13. ASSUME NEW n \in Nodes, SkipReconcile(n) PROVE DayInv'
  BY <1>13, KeptDay DEF SkipReconcile, SyncStep, running, DayKept
<1>14. ASSUME NEW n \in Nodes, Backfill(n) PROVE DayInv'
  BY <1>14, KeptDay DEF Backfill, SyncStep, running, DayKept
<1>15. ASSUME NEW n \in Nodes, ReconcileRead(n) PROVE DayInv'
  BY <1>15, KeptDay DEF ReconcileRead, SyncStep, running, DayKept
<1>16. ASSUME NEW n \in Nodes, MarkConsumed(n) PROVE DayInv'
  BY <1>16, KeptDay DEF MarkConsumed, SyncStep, running, DayKept
<1>17. ASSUME NEW n \in Nodes, HeartbeatRun(n) PROVE DayInv'
  BY <1>17, KeptDay DEF HeartbeatRun, SyncStep, running, DayKept
<1>18. ASSUME NEW n \in Nodes, FindActiveRun(n) PROVE DayInv'
  BY <1>18, KeptDay DEF FindActiveRun, running, project, DayKept
<1>19. ASSUME NEW n \in Nodes, SyncFails(n) PROVE DayInv'
  BY <1>19, KeptDay DEF SyncFails, running, project, DayKept
<1>20. ASSUME NEW n \in Nodes, Stop(n) PROVE DayInv'
  BY <1>20, KeptDay DEF Stop, running, project, DayKept
<1>21. ASSUME NEW n \in Nodes, ResetDay(n) PROVE DayInv'
  BY <1>0, <1>21 DEF ResetDay, DayInv
<1>22. ASSUME NEW n \in Nodes, Boot(n) PROVE DayInv'
  <2>1. /\ current_date' = [current_date EXCEPT ![n] = 0] /\ started' = started /\ launch' = launch
        /\ waiting' = [waiting EXCEPT ![n] = @ \/ current_date[n] # 0]
    BY <1>0, <1>22 DEF Boot, running
  <2>2. current_date' = current_date /\ \A m \in Nodes : waiting'[m] = waiting[m]
    BY <1>0, <2>1 DEF DayInv, NodeTypes
  <2>3. QED BY <2>1, <2>2 DEF DayInv
<1>23. ASSUME NEW n \in Nodes, LookupRun(n) PROVE DayInv'
  <2>1. CASE Claimed(n)
    BY <1>0, <1>23, <2>1 DEF LookupRun, GoLaunch, DayInv, NodeTypes
  <2>2. CASE ~Claimed(n)
    BY <1>0, <1>23, <2>2, KeptDay DEF LookupRun, GoLaunch, EndLaunch, DayKept, NodeTypes
  <2>3. QED BY <2>1, <2>2
<1>24. ASSUME NEW n \in Nodes, Exit(n) PROVE DayInv'
  BY <1>0, <1>24, KeptDay DEF Exit, EndLaunch, GoLaunch, project, DayKept, NodeTypes
<1>25. ASSUME LeaseExpires \/ Tick \/ UNCHANGED vars PROVE DayInv'
  BY <1>25, KeptDay DEF LeaseExpires, Tick, vars, running, project, DayKept
<1>. QED
  BY <1>1, <1>2, <1>3, <1>4, <1>5, <1>6, <1>7, <1>8, <1>9, <1>10, <1>11, <1>12, <1>13, <1>14, <1>15, <1>16, <1>17, <1>18, <1>19, <1>20, <1>21, <1>22, <1>23, <1>24, <1>25
  DEF Next, LaunchStep, SyncRound

\* Whatever crashes, stops, fails or comes late: on one day a ticket is executed once,
\* by one node, with any number of nodes.
THEOREM OnceInADay == ASSUME MaxNow \in {0, 1} PROVE Spec => TicketsExecutedOnce
<1>1. Init => DayInv
  BY DEF Init, DayInv
<1>2. Inv /\ DayInv /\ [Next]_vars => (Inv /\ DayInv)'
  BY DayStep, InvStep
<1>3. DayInv => FreshClaims
  BY DEF DayInv, FreshClaims
<1>4. Inv /\ DayInv /\ [Next]_vars => BoardStep
  BY <1>3, ImplementsBoard
<1>5. QED
  BY <1>1, <1>2, <1>4, InvInit, BoardInit, PTL
  DEF Spec, BoardStep, Used, Executing, TicketsExecutedOnce, Board!Spec, Board!Init

\* Without a death in between, an active row is the row of a launch or a run that
\* goes on, a heartbeat beats for the run of its node, and a node that looks up a row
\* of a ticket it has executed finds it closed.
OpenInv ==
  /\ \A n \in Nodes : mode[n] # "stopping"
  /\ \A n \in Nodes : sync[n] = "beat" => launch[n] \in {"running", "close"} /\ run_key[n] = seen_ticket[n]
  /\ \A n \in Nodes : \A tk \in Tickets :
       scheduled_runs[tk] = Row(n, "active") => launch[n] \in {"lookup", "running", "close"} /\ run_key[n] = tk
  /\ \A n \in Nodes : launch[n] = "lookup" /\ run_key[n] \in started[n]
                        => scheduled_runs[run_key[n]].status = "closed"

NoDeaths == Faults \subseteq {"stall"}

LEMMA RowsAreRows ==
  ASSUME RowInv, NEW tk \in Tickets, scheduled_runs[tk].assigned \in Nodes
  PROVE  /\ scheduled_runs[tk] # NoRow /\ scheduled_runs[tk].status \in {"active", "closed"}
         /\ scheduled_runs[tk] = Row(scheduled_runs[tk].assigned, scheduled_runs[tk].status)
  BY NodeAssumption DEF RowInv, Rows, Row, NoRow

\* A step that touches no row, no run and no heartbeat.
OpenKept ==
  /\ UNCHANGED <<scheduled_runs, launch, run_key, started>>
  /\ \A m \in Nodes : mode'[m] # "stopping"
  /\ \A m \in Nodes : sync'[m] = "beat" => sync[m] = "beat" /\ seen_ticket'[m] = seen_ticket[m]

LEMMA KeptOpen == ASSUME OpenInv, OpenKept PROVE OpenInv'
  BY DEF OpenInv, OpenKept

\* A launch that is no run yet moves on, or gives up without a claimed row.
LEMMA LaunchKeepsOpen ==
  ASSUME Inv, OpenInv, NEW n \in Nodes, launch[n] \notin {"running", "close"},
         launch[n] = "lookup" => ~Claimed(n), launch'[n] \notin {"lookup", "running", "close"},
         UNCHANGED <<scheduled_runs, mode, syncing, started>>,
         \A m \in Nodes \ {n} : launch'[m] = launch[m] /\ run_key'[m] = run_key[m]
  PROVE  OpenInv'
<1>. USE DEF syncing
<1>1. \A m \in Nodes : sync'[m] = "beat" => launch'[m] \in {"running", "close"} /\ run_key'[m] = seen_ticket'[m]
  BY DEF OpenInv
<1>2. ASSUME NEW m \in Nodes, NEW tk \in Tickets, scheduled_runs[tk] = Row(m, "active")
      PROVE  launch'[m] \in {"lookup", "running", "close"} /\ run_key'[m] = tk
  BY <1>2 DEF OpenInv, Claimed
<1>3. QED
  BY <1>1, <1>2 DEF OpenInv

LEMMA OpenStep == ASSUME NoDeaths, Inv, OpenInv, [Next]_vars PROVE OpenInv'
<1>0. NodeTypes /\ RowInv
  BY DEF Inv
<1>1. ASSUME NEW n \in Nodes, CheckTicket(n) PROVE OpenInv'
  BY <1>0, <1>1, LaunchKeepsOpen DEF CheckTicket, GoLaunch, EndLaunch, syncing, NodeTypes
<1>2. ASSUME NEW n \in Nodes, ConsumeTicket(n) PROVE OpenInv'
  BY <1>0, <1>2, LaunchKeepsOpen DEF ConsumeTicket, GoLaunch, EndLaunch, syncing, NodeTypes
<1>3. ASSUME NEW n \in Nodes, AskPolicy(n) PROVE OpenInv'
  BY <1>0, <1>3, LaunchKeepsOpen DEF AskPolicy, GoLaunch, EndLaunch, syncing, NodeTypes
<1>4. ASSUME NEW n \in Nodes, InsertRun(n) PROVE OpenInv'
  <2>0. PICK k \in Tickets : k = run_key[n]
    BY <1>0 DEF NodeTypes
  <2>1. /\ launch[n] = "insert" /\ launch' = [launch EXCEPT ![n] = "lookup"]
        /\ InsertIfAbsent(k, Row(n, "active"))
        /\ UNCHANGED <<mode, run_key, sync, seen_ticket, started>>
    BY <1>4, <2>0 DEF InsertRun, GoLaunch, syncing
  <2>2. \A tk \in Tickets : scheduled_runs'[tk] =
          IF tk = k /\ scheduled_runs[k] = NoRow THEN Row(n, "active") ELSE scheduled_runs[tk]
    BY <1>0, <2>1 DEF InsertIfAbsent, RowInv
  <2>3. \A m \in Nodes : launch'[m] = IF m = n THEN "lookup" ELSE launch[m]
    BY <1>0, <2>1 DEF NodeTypes
  <2>4. \A m \in Nodes : sync'[m] = "beat" => launch'[m] \in {"running", "close"} /\ run_key'[m] = seen_ticket'[m]
    BY <2>1, <2>3 DEF OpenInv
  <2>5. ASSUME NEW m \in Nodes, NEW tk \in Tickets, scheduled_runs'[tk] = Row(m, "active")
        PROVE  launch'[m] \in {"lookup", "running", "close"} /\ run_key'[m] = tk
    <3>1. CASE tk = k /\ scheduled_runs[k] = NoRow
      <4>1. m = n
        BY <2>2, <2>5, <3>1 DEF Row
      <4>2. QED BY <2>0, <2>1, <2>3, <3>1, <4>1
    <3>2. CASE ~(tk = k /\ scheduled_runs[k] = NoRow)
      BY <2>1, <2>2, <2>3, <2>5, <3>2 DEF OpenInv
    <3>3. QED BY <3>1, <3>2
  <2>6. ASSUME NEW m \in Nodes, launch'[m] = "lookup", run_key'[m] \in started'[m]
        PROVE  scheduled_runs'[run_key'[m]].status = "closed"
    <3>0. PICK j \in Tickets : j = run_key[m]
      BY <1>0 DEF NodeTypes
    <3>1. scheduled_runs[j].assigned = m /\ scheduled_runs'[j] = scheduled_runs[j]
      <4>1. scheduled_runs[j].assigned = m
        BY <1>0, <2>1, <2>6, <3>0 DEF RowInv
      <4>2. QED BY <1>0, <2>2, <4>1, RowsAreRows
    <3>2. CASE m = n
      <4>1. scheduled_runs[j] # Row(n, "active")
        BY <2>1 DEF OpenInv
      <4>2. QED BY <1>0, <2>1, <3>0, <3>1, <3>2, <4>1, RowsAreRows
    <3>3. CASE m # n
      BY <2>1, <2>3, <2>6, <3>0, <3>1, <3>3 DEF OpenInv
    <3>4. QED BY <3>2, <3>3
  <2>7. QED BY <2>1, <2>4, <2>5, <2>6 DEF OpenInv
<1>5. ASSUME NEW n \in Nodes, LookupRun(n) PROVE OpenInv'
  <2>1. CASE ~Claimed(n)
    BY <1>0, <1>5, <2>1, LaunchKeepsOpen DEF LookupRun, GoLaunch, EndLaunch, syncing, NodeTypes
  <2>2. CASE Claimed(n)
    <3>1. /\ launch[n] = "lookup" /\ launch' = [launch EXCEPT ![n] = "running"]
          /\ started' = [started EXCEPT ![n] = @ \cup {run_key[n]}]
          /\ UNCHANGED <<scheduled_runs, mode, run_key, sync, seen_ticket>>
      BY <1>5, <2>2 DEF LookupRun, GoLaunch, syncing
    <3>2. /\ \A m \in Nodes : launch'[m] = IF m = n THEN "running" ELSE launch[m]
          /\ \A m \in Nodes \ {n} : started'[m] = started[m]
      BY <1>0, <3>1 DEF NodeTypes
    <3>3. \A m \in Nodes : launch'[m] = "lookup" => m # n /\ launch[m] = "lookup" /\ started'[m] = started[m]
      BY <3>2
    <3>4. QED BY <3>1, <3>2, <3>3 DEF OpenInv
  <2>3. QED BY <2>1, <2>2
<1>6. ASSUME NEW n \in Nodes, FinishRun(n) PROVE OpenInv'
  <2>1. /\ launch[n] = "running" /\ launch' = [launch EXCEPT ![n] = "close"]
        /\ UNCHANGED <<scheduled_runs, mode, run_key, sync, seen_ticket, started>>
    BY <1>6 DEF FinishRun, GoLaunch, running, syncing
  <2>2. \A m \in Nodes : launch'[m] = IF m = n THEN "close" ELSE launch[m]
    BY <1>0, <2>1 DEF NodeTypes
  <2>3. QED BY <2>1, <2>2 DEF OpenInv
<1>7. ASSUME NEW n \in Nodes, CloseRun(n) PROVE OpenInv'
  <2>0. PICK k \in Tickets : k = run_key[n]
    BY <1>0 DEF NodeTypes
  <2>1. /\ launch[n] = "close" /\ sync[n] # "beat"
        /\ launch' = [launch EXCEPT ![n] = "idle"] /\ run_key' = [run_key EXCEPT ![n] = 0]
        /\ scheduled_runs' = [scheduled_runs EXCEPT ![k].status = "closed"]
        /\ UNCHANGED <<mode, sync, seen_ticket, started>>
    BY <1>7, <2>0 DEF CloseRun, EndLaunch, GoLaunch, syncing, NoDeaths
  <2>2. scheduled_runs[k].assigned = n /\ scheduled_runs[k] \in Rows
    <3>1. scheduled_runs[k].assigned = n
      BY <1>0, <2>0, <2>1 DEF RowInv
    <3>2. QED BY <1>0, <3>1, RowsAreRows DEF RowInv
  <2>3. /\ scheduled_runs'[k] = Row(n, "closed")
        /\ \A tk \in Tickets \ {k} : scheduled_runs'[tk] = scheduled_runs[tk]
    BY <1>0, <2>1, <2>2, UpdateKeepsAssigned DEF RowInv
  <2>4. \A m \in Nodes : /\ launch'[m] = IF m = n THEN "idle" ELSE launch[m]
                         /\ m # n => run_key'[m] = run_key[m]
    BY <1>0, <2>1 DEF NodeTypes
  <2>5. \A m \in Nodes : sync'[m] = "beat" => launch'[m] \in {"running", "close"} /\ run_key'[m] = seen_ticket'[m]
    BY <2>1, <2>4 DEF OpenInv
  <2>6. ASSUME NEW m \in Nodes, NEW tk \in Tickets, scheduled_runs'[tk] = Row(m, "active")
        PROVE  launch'[m] \in {"lookup", "running", "close"} /\ run_key'[m] = tk
    <3>1. tk # k
      BY <2>3, <2>6 DEF Row
    <3>2. launch[m] \in {"lookup", "running", "close"} /\ run_key[m] = tk
      BY <2>3, <2>6, <3>1 DEF OpenInv
    <3>3. QED BY <2>0, <2>4, <3>1, <3>2
  <2>7. ASSUME NEW m \in Nodes, launch'[m] = "lookup", run_key'[m] \in started'[m]
        PROVE  scheduled_runs'[run_key'[m]].status = "closed"
    <3>0. PICK j \in Tickets : j = run_key[m]
      BY <1>0 DEF NodeTypes
    <3>1. run_key'[m] = j /\ scheduled_runs[j].status = "closed"
      BY <2>1, <2>4, <2>7, <3>0 DEF OpenInv
    <3>2. CASE j = k
      BY <2>3, <3>1, <3>2 DEF Row
    <3>3. CASE j # k
      BY <2>3, <3>1, <3>3
    <3>4. QED BY <3>2, <3>3
  <2>8. QED BY <2>1, <2>5, <2>6, <2>7 DEF OpenInv
<1>8. ASSUME NEW n \in Nodes, UpsertLease(n) PROVE OpenInv'
  <2>1. \A m \in Nodes : sync'[m] = "beat" => sync[m] = "beat" /\ seen_ticket'[m] = seen_ticket[m]
    BY <1>0, <1>8 DEF UpsertLease, SyncStep, GoSync, ForgetOwner, ForgetTicket, syncing, NodeTypes
  <2>2. UNCHANGED <<scheduled_runs, launch, run_key, started, mode>>
    BY <1>8 DEF UpsertLease, SyncStep, running
  <2>3. QED BY <2>1, <2>2, KeptOpen DEF OpenKept, OpenInv
<1>9. ASSUME NEW n \in Nodes, ReadLease(n) PROVE OpenInv'
  <2>1. \A m \in Nodes : sync'[m] = "beat" => sync[m] = "beat" /\ seen_ticket'[m] = seen_ticket[m]
    BY <1>0, <1>9 DEF ReadLease, SyncStep, GoSync, ForgetOwner, ForgetTicket, syncing, NodeTypes
  <2>2. UNCHANGED <<scheduled_runs, launch, run_key, started, mode>>
    BY <1>9 DEF ReadLease, SyncStep, running
  <2>3. QED BY <2>1, <2>2, KeptOpen DEF OpenKept, OpenInv
<1>10. ASSUME NEW n \in Nodes, CheckOwner(n) PROVE OpenInv'
  <2>1. \A m \in Nodes : sync'[m] = "beat" => sync[m] = "beat" /\ seen_ticket'[m] = seen_ticket[m]
    BY <1>0, <1>10 DEF CheckOwner, SyncStep, GoSync, ForgetOwner, ForgetTicket, syncing, NodeTypes
  <2>2. UNCHANGED <<scheduled_runs, launch, run_key, started, mode>>
    BY <1>10 DEF CheckOwner, SyncStep, running
  <2>3. QED BY <2>1, <2>2, KeptOpen DEF OpenKept, OpenInv
<1>11. ASSUME NEW n \in Nodes, ForceTakeover(n) PROVE OpenInv'
  <2>1. \A m \in Nodes : sync'[m] = "beat" => sync[m] = "beat" /\ seen_ticket'[m] = seen_ticket[m]
    BY <1>0, <1>11 DEF ForceTakeover, SyncStep, GoSync, ForgetOwner, ForgetTicket, syncing, NodeTypes
  <2>2. UNCHANGED <<scheduled_runs, launch, run_key, started, mode>>
    BY <1>11 DEF ForceTakeover, SyncStep, running
  <2>3. QED BY <2>1, <2>2, KeptOpen DEF OpenKept, OpenInv
<1>12. ASSUME NEW n \in Nodes, RereadLease(n) PROVE OpenInv'
  <2>1. \A m \in Nodes : sync'[m] = "beat" => sync[m] = "beat" /\ seen_ticket'[m] = seen_ticket[m]
    BY <1>0, <1>12 DEF RereadLease, SyncStep, GoSync, ForgetOwner, ForgetTicket, syncing, NodeTypes
  <2>2. UNCHANGED <<scheduled_runs, launch, run_key, started, mode>>
    BY <1>12 DEF RereadLease, SyncStep, running
  <2>3. QED BY <2>1, <2>2, KeptOpen DEF OpenKept, OpenInv
<1>13. ASSUME NEW n \in Nodes, SkipReconcile(n) PROVE OpenInv'
  <2>1. \A m \in Nodes : sync'[m] = "beat" => sync[m] = "beat" /\ seen_ticket'[m] = seen_ticket[m]
    BY <1>0, <1>13 DEF SkipReconcile, SyncStep, GoSync, ForgetOwner, ForgetTicket, syncing, NodeTypes
  <2>2. UNCHANGED <<scheduled_runs, launch, run_key, started, mode>>
    BY <1>13 DEF SkipReconcile, SyncStep, running
  <2>3. QED BY <2>1, <2>2, KeptOpen DEF OpenKept, OpenInv
<1>14. ASSUME NEW n \in Nodes, ReconcileRead(n) PROVE OpenInv'
  <2>1. \A m \in Nodes : sync'[m] = "beat" => sync[m] = "beat" /\ seen_ticket'[m] = seen_ticket[m]
    BY <1>0, <1>14 DEF ReconcileRead, SyncStep, GoSync, ForgetOwner, ForgetTicket, syncing, NodeTypes
  <2>2. UNCHANGED <<scheduled_runs, launch, run_key, started, mode>>
    BY <1>14 DEF ReconcileRead, SyncStep, running
  <2>3. QED BY <2>1, <2>2, KeptOpen DEF OpenKept, OpenInv
<1>15. ASSUME NEW n \in Nodes, MarkConsumed(n) PROVE OpenInv'
  <2>1. \A m \in Nodes : sync'[m] = "beat" => sync[m] = "beat" /\ seen_ticket'[m] = seen_ticket[m]
    BY <1>0, <1>15 DEF MarkConsumed, SyncStep, GoSync, ForgetOwner, ForgetTicket, syncing, NodeTypes
  <2>2. UNCHANGED <<scheduled_runs, launch, run_key, started, mode>>
    BY <1>15 DEF MarkConsumed, SyncStep, running
  <2>3. QED BY <2>1, <2>2, KeptOpen DEF OpenKept, OpenInv
<1>16. ASSUME NEW n \in Nodes, Backfill(n) PROVE OpenInv'
  <2>1. /\ UNCHANGED <<launch, run_key, started, mode, seen_ticket>>
        /\ \A m \in Nodes : sync'[m] = "beat" => sync[m] = "beat"
    BY <1>0, <1>16 DEF Backfill, SyncStep, GoSync, running, NodeTypes
  <2>2. \A tk \in Tickets : \/ scheduled_runs'[tk] = scheduled_runs[tk]
                            \/ scheduled_runs[tk] = NoRow /\ scheduled_runs'[tk] = Row(n, "closed")
    BY <1>0, <1>16 DEF Backfill, InsertIfAbsent, RowInv
  <2>3. ASSUME NEW m \in Nodes, NEW tk \in Tickets, scheduled_runs'[tk] = Row(m, "active")
        PROVE  launch'[m] \in {"lookup", "running", "close"} /\ run_key'[m] = tk
    <3>1. scheduled_runs[tk] = Row(m, "active")
      BY <2>2, <2>3 DEF Row
    <3>2. QED BY <2>1, <3>1 DEF OpenInv
  <2>4. ASSUME NEW m \in Nodes, launch'[m] = "lookup", run_key'[m] \in started'[m]
        PROVE  scheduled_runs'[run_key'[m]].status = "closed"
    <3>0. PICK j \in Tickets : j = run_key[m]
      BY <1>0 DEF NodeTypes
    <3>1. scheduled_runs[j].assigned = m /\ scheduled_runs[j].status = "closed"
      BY <1>0, <2>1, <2>4, <3>0 DEF OpenInv, RowInv
    <3>2. scheduled_runs[j] # NoRow
      BY <1>0, <3>1, RowsAreRows
    <3>3. QED BY <2>1, <2>2, <3>0, <3>1, <3>2
  <2>5. QED BY <2>1, <2>3, <2>4 DEF OpenInv
<1>17. ASSUME NEW n \in Nodes, FindActiveRun(n) PROVE OpenInv'
  <2>1. /\ UNCHANGED <<scheduled_runs, launch, run_key, started>>
        /\ \A m \in Nodes : mode'[m] # "stopping"
    BY <1>0, <1>17 DEF FindActiveRun, running, NodeTypes, OpenInv
  <2>2. \A m \in Nodes : sync'[m] = "beat" => launch[m] \in {"running", "close"} /\ run_key[m] = seen_ticket'[m]
    BY <1>0, <1>17 DEF FindActiveRun, GoSync, NodeTypes, OpenInv
  <2>3. QED BY <2>1, <2>2 DEF OpenInv
<1>18. ASSUME NEW n \in Nodes, HeartbeatRun(n) PROVE OpenInv'
  <2>0. PICK k \in Tickets : k = seen_ticket[n]
    BY <1>0 DEF NodeTypes
  <2>1. /\ sync[n] = "beat" /\ scheduled_runs' = [scheduled_runs EXCEPT ![k].status = "active"]
        /\ UNCHANGED <<launch, run_key, started, mode>>
    BY <1>18, <2>0 DEF HeartbeatRun, SyncStep, running
  <2>2. \A m \in Nodes : sync'[m] = "beat" => sync[m] = "beat" /\ seen_ticket'[m] = seen_ticket[m]
    BY <1>0, <1>18 DEF HeartbeatRun, GoSync, ForgetTicket, NodeTypes
  <2>3. launch[n] \in {"running", "close"} /\ run_key[n] = k /\ scheduled_runs[k].assigned = n
    <3>1. launch[n] \in {"running", "close"} /\ run_key[n] = k
      BY <2>0, <2>1 DEF OpenInv
    <3>2. scheduled_runs[k] = Row(n, "active") \/ scheduled_runs[k].assigned = n
      BY <1>0, <3>1 DEF RowInv
    <3>3. QED BY <3>1, <3>2 DEF Row
  <2>4. scheduled_runs[k] \in Rows
    BY <1>0, <2>3, RowsAreRows DEF RowInv
  <2>5. /\ scheduled_runs'[k] = Row(n, "active")
        /\ \A tk \in Tickets \ {k} : scheduled_runs'[tk] = scheduled_runs[tk]
    BY <1>0, <2>1, <2>3, <2>4, UpdateKeepsAssigned DEF RowInv
  <2>6. ASSUME NEW m \in Nodes, NEW tk \in Tickets, scheduled_runs'[tk] = Row(m, "active")
        PROVE  launch'[m] \in {"lookup", "running", "close"} /\ run_key'[m] = tk
    <3>1. CASE tk = k
      <4>1. m = n
        BY <2>5, <2>6, <3>1 DEF Row
      <4>2. QED BY <2>1, <2>3, <3>1, <4>1
    <3>2. CASE tk # k
      BY <2>1, <2>5, <2>6, <3>2 DEF OpenInv
    <3>3. QED BY <3>1, <3>2
  <2>7. ASSUME NEW m \in Nodes, launch'[m] = "lookup", run_key'[m] \in started'[m]
        PROVE  scheduled_runs'[run_key'[m]].status = "closed"
    <3>0. PICK j \in Tickets : j = run_key[m]
      BY <1>0 DEF NodeTypes
    <3>1. scheduled_runs[j].assigned = m /\ scheduled_runs[j].status = "closed"
      BY <1>0, <2>1, <2>7, <3>0 DEF OpenInv, RowInv
    <3>2. j # k
      BY <2>1, <2>3, <2>7, <3>1
    <3>3. QED BY <2>1, <2>5, <3>0, <3>1, <3>2
  <2>8. QED BY <2>1, <2>2, <2>6, <2>7 DEF OpenInv
<1>19. ASSUME NEW n \in Nodes, ResetDay(n) PROVE OpenInv'
  BY <1>19, KeptOpen DEF ResetDay, running, syncing, OpenKept, OpenInv
<1>20. ASSUME NEW n \in Nodes, Boot(n) PROVE OpenInv'
  BY <1>0, <1>20, KeptOpen DEF Boot, running, syncing, OpenKept, OpenInv, NodeTypes
<1>21. ASSUME NEW n \in Nodes, LaunchFails(n) \/ SyncFails(n) \/ Stop(n) \/ Exit(n) PROVE OpenInv'
  BY <1>21 DEF LaunchFails, SyncFails, Stop, Exit, NoDeaths, OpenInv
<1>22. ASSUME LeaseExpires \/ Tick \/ UNCHANGED vars PROVE OpenInv'
  BY <1>22, KeptOpen DEF LeaseExpires, Tick, vars, running, syncing, OpenKept, OpenInv
<1>. QED
  BY <1>1, <1>2, <1>3, <1>4, <1>5, <1>6, <1>7, <1>8, <1>9, <1>10, <1>11, <1>12, <1>13, <1>14, <1>15, <1>16, <1>17, <1>18, <1>19, <1>20, <1>21, <1>22
  DEF Next, LaunchStep, SyncRound

\* As long as no process dies and no answer of D1 is lost or late, a ticket is executed
\* once, by one node, on any number of days and however long a sync thread stalls.
THEOREM OnceWithoutDeaths == ASSUME NoDeaths PROVE Spec => TicketsExecutedOnce
<1>1. Init => OpenInv
  BY NodeAssumption DEF Init, OpenInv, NoRow, Row
<1>2. Inv /\ OpenInv /\ [Next]_vars => (Inv /\ OpenInv)'
  BY OpenStep, InvStep
<1>3. OpenInv => FreshClaims
  <2> SUFFICES ASSUME OpenInv, NEW n \in Nodes, launch[n] = "lookup", Claimed(n), run_key[n] \in started[n]
               PROVE  FALSE
    BY DEF FreshClaims
  <2>1. scheduled_runs[run_key[n]].status = "closed"
    BY DEF OpenInv
  <2>2. QED BY <2>1 DEF Claimed, Row
<1>4. Inv /\ OpenInv /\ [Next]_vars => BoardStep
  BY <1>3, ImplementsBoard
<1>5. QED
  BY <1>1, <1>2, <1>4, InvInit, BoardInit, PTL
  DEF Spec, BoardStep, Used, Executing, TicketsExecutedOnce, Board!Spec, Board!Init
=============================================================================

------------------------------ MODULE Failover ------------------------------
(***************************************************************************)
(* The nodes that share the scheduled runs of one daily project through    *)
(* the D1 database: the lease, the rows of scheduled_runs, and on each     *)
(* node the thread that launches and runs the project and the sync thread. *)
(* One action is one statement sent to D1, or one access to what the two   *)
(* threads of a node share.                                                *)
(*                                                                         *)
(* Time is counted in half days, as in ProjectLaunch: a ticket is the      *)
(* number of its day and is due in the second half of it.                  *)
(***************************************************************************)
EXTENDS Integers, FiniteSets

CONSTANTS
  Nodes, NoNode,
  Main,           \* the node in the role "Main PC"; the others are "Sub PC"
  Settings,       \* where node_priority comes from: the sample files or the settings dialog
  Faults,         \* what may go wrong in the instance
  MaxNow          \* bound: last half day

Tickets == 0 .. MaxNow + 1

ASSUME NodeAssumption == /\ NoNode \notin Nodes
                         /\ Main \in Nodes
                         /\ Settings \in {"samples", "dialog"}
ASSUME FaultAssumption == Faults \subseteq {"crash", "stop", "stall", "d1_error", "late_heartbeat"}
ASSUME BoundAssumption == MaxNow \in Nat

VARIABLES
  \* in D1
  lease_owner, lease_live,  \* the row of scheduler_leases; expiry not reached
  scheduled_runs,           \* run_key -> row
  \* on each node
  mode,                     \* the process
  is_primary,               \* _is_primary, of the last refresh_lease
  waiting,                  \* project.status is WAITING
  next_run, last_consumed_ticket, current_date,
  launch, run_key,          \* the thread of the launch, then of the run
  sync, seen_owner, seen_ticket,  \* the sync thread and what it has read
  \* the world
  now,
  started                   \* history: the tickets each node has executed

lease    == <<lease_owner, lease_live>>
project  == <<waiting, next_run, last_consumed_ticket, current_date>>
running  == <<launch, run_key>>
syncing  == <<sync, seen_owner, seen_ticket>>
vars == <<lease, scheduled_runs, mode, is_primary, project, running, syncing, now, started>>

NoRow == [assigned |-> NoNode, status |-> "none"]
\* starting, running and finishing are "active"; completed, failed and cancelled "closed".
Row(n, s) == [assigned |-> n, status |-> s]

LaunchPCs == {"idle", "consume", "policy", "insert", "lookup", "running", "close"}
SyncPCs == {"idle", "read", "check", "takeover", "reread", "backfill", "reconcile", "mark",
            "heartbeat", "beat"}

TypeOK ==
  /\ lease_owner \in Nodes \cup {NoNode}
  /\ lease_live \in BOOLEAN
  /\ scheduled_runs \in [Tickets -> {NoRow} \cup [assigned : Nodes, status : {"active", "closed"}]]
  /\ mode \in [Nodes -> {"down", "booting", "up", "stopping"}]
  /\ is_primary \in [Nodes -> BOOLEAN]
  /\ waiting \in [Nodes -> BOOLEAN]
  /\ next_run \in [Nodes -> Tickets]
  /\ last_consumed_ticket \in [Nodes -> Tickets \cup {-1}]
  /\ current_date \in [Nodes -> Nat]
  /\ launch \in [Nodes -> LaunchPCs]
  /\ run_key \in [Nodes -> Tickets]
  /\ sync \in [Nodes -> SyncPCs]
  /\ seen_owner \in [Nodes -> Nodes \cup {NoNode}]
  /\ seen_ticket \in [Nodes -> Tickets]
  /\ now \in 0 .. MaxNow
  /\ started \in [Nodes -> SUBSET Tickets]

Today == now \div 2
DueAt(tk) == 2 * tk + 1

\* Project.calculate_next_run for schedule_type "daily", of the last ticket.
NextRun(last) == IF now >= DueAt(Today) /\ last = Today THEN Today + 1 ELSE Today

Init ==
  /\ lease_owner = NoNode /\ lease_live = FALSE
  /\ scheduled_runs = [tk \in Tickets |-> NoRow]
  /\ mode = [n \in Nodes |-> "down"]
  /\ is_primary = [n \in Nodes |-> FALSE]
  /\ waiting = [n \in Nodes |-> TRUE]
  /\ next_run = [n \in Nodes |-> 0]
  /\ last_consumed_ticket = [n \in Nodes |-> -1]
  /\ current_date = [n \in Nodes |-> 0]
  /\ launch = [n \in Nodes |-> "idle"]
  /\ run_key = [n \in Nodes |-> 0]
  /\ sync = [n \in Nodes |-> "idle"]
  /\ seen_owner = [n \in Nodes |-> NoNode]
  /\ seen_ticket = [n \in Nodes |-> 0]
  /\ now = 0
  /\ started = [n \in Nodes |-> {}]
-----------------------------------------------------------------------------
(* The launch of a scheduled run, and the run.                             *)

GoLaunch(n, l) == launch' = [launch EXCEPT ![n] = l]
EndLaunch(n) == GoLaunch(n, "idle") /\ run_key' = [run_key EXCEPT ![n] = 0]

\* try_consume_ticket_atomic, the check.  The sync thread takes no lock.
CheckTicket(n) ==
  /\ launch[n] = "idle" /\ mode[n] = "up" /\ waiting[n]
  /\ current_date[n] = Today
  /\ now >= DueAt(next_run[n])
  /\ next_run[n] # last_consumed_ticket[n]
  /\ next_run[n] = Today
  /\ GoLaunch(n, "consume")
  /\ UNCHANGED <<lease, scheduled_runs, mode, is_primary, project, run_key, syncing, now, started>>

ConsumeTicket(n) ==
  /\ launch[n] = "consume"
  /\ last_consumed_ticket' = [last_consumed_ticket EXCEPT ![n] = next_run[n]]
  /\ GoLaunch(n, "policy")
  /\ UNCHANGED <<lease, scheduled_runs, mode, is_primary, waiting, next_run, current_date,
                 run_key, syncing, now, started>>

\* should_allow_run and build_run_key: refused on a standby node.
AskPolicy(n) ==
  /\ launch[n] = "policy"
  /\ \/ /\ is_primary[n]
        /\ run_key' = [run_key EXCEPT ![n] = next_run[n]]
        /\ GoLaunch(n, "insert")
     \/ /\ ~is_primary[n]
        /\ EndLaunch(n)
  /\ UNCHANGED <<lease, scheduled_runs, mode, is_primary, project, syncing, now, started>>

\* Mutant: INSERT OR REPLACE.
InsertOrReplace(tk, row) == scheduled_runs' = [scheduled_runs EXCEPT ![tk] = row]

\* INSERT ... ON CONFLICT(run_key) DO NOTHING
InsertIfAbsent(tk, row) ==
  scheduled_runs' = IF scheduled_runs[tk] = NoRow THEN [scheduled_runs EXCEPT ![tk] = row]
                    ELSE scheduled_runs

InsertRun(n) ==
  /\ launch[n] = "insert"
  /\ InsertIfAbsent(run_key[n], Row(n, "active"))
  /\ GoLaunch(n, "lookup")
  /\ UNCHANGED <<lease, mode, is_primary, project, run_key, syncing, now, started>>

\* Mutants: the answer is not compared with the node, or with the status.
ClaimedByAnyone(n) == scheduled_runs[run_key[n]].status = "active"
ClaimedBefore(n) == scheduled_runs[run_key[n]].assigned = n

Claimed(n) == scheduled_runs[run_key[n]] = Row(n, "active")

\* The row read back decides whether the run is claimed; then it starts.
LookupRun(n) ==
  /\ launch[n] = "lookup"
  /\ \/ /\ Claimed(n)
        /\ GoLaunch(n, "running")
        /\ waiting' = [waiting EXCEPT ![n] = FALSE]
        /\ started' = [started EXCEPT ![n] = @ \cup {run_key[n]}]
        /\ UNCHANGED run_key
     \/ /\ ~Claimed(n)
        /\ EndLaunch(n)
        /\ UNCHANGED <<waiting, started>>
  /\ UNCHANGED <<lease, scheduled_runs, mode, is_primary, next_run, last_consumed_ticket,
                 current_date, syncing, now>>

\* The tasks have ended, and on_project_finish has taken the run out of the
\* tables of active runs.
FinishRun(n) ==
  /\ launch[n] = "running"
  /\ next_run' = [next_run EXCEPT ![n] = NextRun(last_consumed_ticket[n])]
  /\ GoLaunch(n, "close")
  /\ UNCHANGED <<lease, scheduled_runs, mode, is_primary, waiting, last_consumed_ticket,
                 current_date, run_key, syncing, now, started>>

\* finish_run.  Unless the instance has late heartbeats, a heartbeat the node has
\* sent before reaches D1 before.
CloseRun(n) ==
  /\ launch[n] = "close"
  /\ "late_heartbeat" \in Faults \/ sync[n] # "beat"
  /\ scheduled_runs' = [scheduled_runs EXCEPT ![run_key[n]].status = "closed"]
  /\ EndLaunch(n)
  /\ UNCHANGED <<lease, mode, is_primary, project, syncing, now, started>>

\* A statement of the launch or of finish_run raises.  That a statement takes
\* effect and its answer is lost is the statement followed by this step.
LaunchFails(n) ==
  /\ "d1_error" \in Faults
  /\ launch[n] \in {"insert", "lookup", "close"}
  /\ EndLaunch(n)
  /\ UNCHANGED <<lease, scheduled_runs, mode, is_primary, project, syncing, now, started>>

\* _reset_daily_state; a project that runs is skipped.
ResetDay(n) ==
  /\ mode[n] = "up"
  /\ launch[n] \in {"idle", "running", "close"}
  /\ current_date[n] # Today
  /\ current_date' = [current_date EXCEPT ![n] = Today]
  /\ \/ /\ launch[n] = "idle"
        /\ waiting' = [waiting EXCEPT ![n] = TRUE]
        /\ next_run' = [next_run EXCEPT ![n] = NextRun(last_consumed_ticket[n])]
     \/ /\ launch[n] # "idle"
        /\ UNCHANGED <<waiting, next_run>>
  /\ UNCHANGED <<lease, scheduled_runs, mode, is_primary, last_consumed_ticket, running,
                 syncing, now, started>>
-----------------------------------------------------------------------------
(* The sync thread: heartbeat, ticket reconciliation, heartbeats of runs.  *)

GoSync(n, l) == sync' = [sync EXCEPT ![n] = l]
SyncStep(n, from) == sync[n] = from /\ UNCHANGED <<mode, waiting, current_date, running, now, started>>

ForgetOwner(n) == seen_owner' = [seen_owner EXCEPT ![n] = NoNode]
ForgetTicket(n) == seen_ticket' = [seen_ticket EXCEPT ![n] = 0]

TakeLease(n) == lease_owner' = n /\ lease_live' = TRUE

\* Mutant: a lease that has expired stays with its owner.
UpsertKeepsExpired(n) ==
  /\ SyncStep(n, "idle")
  /\ mode[n] \in {"booting", "up"}
  /\ IF lease_owner \in {NoNode, n} THEN TakeLease(n) ELSE UNCHANGED lease
  /\ GoSync(n, "read")
  /\ UNCHANGED <<scheduled_runs, is_primary, next_run, last_consumed_ticket, seen_owner, seen_ticket>>

\* _upsert_lease: takes a lease that is absent, expired or its own.
UpsertLease(n) ==
  /\ SyncStep(n, "idle")
  /\ mode[n] \in {"booting", "up"}
  /\ IF lease_owner \in {NoNode, n} \/ ~lease_live THEN TakeLease(n) ELSE UNCHANGED lease
  /\ GoSync(n, "read")
  /\ UNCHANGED <<scheduled_runs, is_primary, next_run, last_consumed_ticket, seen_owner, seen_ticket>>

\* distributed_runtime.*.sample.json, and _collect_document of the dialog.
node_priority(n) == IF n # Main THEN 100 ELSE IF Settings = "samples" THEN 200 ELSE 10

\* Mutant: the smaller number is the higher priority.
HigherOwner(n) == lease_owner \in Nodes \ {n} /\ node_priority(lease_owner) > node_priority(n)

LowerOwner(n) == lease_owner \in Nodes \ {n} /\ node_priority(lease_owner) < node_priority(n)

\* _read_lease_row, and the answer unless a takeover is to be considered.
ReadLease(n) ==
  /\ SyncStep(n, "read")
  /\ \/ /\ LowerOwner(n)
        /\ seen_owner' = [seen_owner EXCEPT ![n] = lease_owner]
        /\ GoSync(n, "check")
        /\ UNCHANGED is_primary
     \/ /\ ~LowerOwner(n)
        /\ is_primary' = [is_primary EXCEPT ![n] = lease_owner = n]
        /\ GoSync(n, "backfill")
        /\ UNCHANGED seen_owner
  /\ UNCHANGED <<lease, scheduled_runs, next_run, last_consumed_ticket, seen_ticket>>

\* Mutant: finished runs count.
HasAnyRuns(n) == \E tk \in Tickets : scheduled_runs[tk].assigned = n

HasActiveRuns(n) == \E tk \in Tickets : scheduled_runs[tk] = Row(n, "active")

\* _owner_has_active_runs
CheckOwner(n) ==
  /\ SyncStep(n, "check")
  /\ \/ /\ HasActiveRuns(seen_owner[n])
        /\ is_primary' = [is_primary EXCEPT ![n] = FALSE]
        /\ ForgetOwner(n)
        /\ GoSync(n, "backfill")
     \/ /\ ~HasActiveRuns(seen_owner[n])
        /\ GoSync(n, "takeover")
        /\ UNCHANGED <<is_primary, seen_owner>>
  /\ UNCHANGED <<lease, scheduled_runs, next_run, last_consumed_ticket, seen_ticket>>

\* _force_takeover_lease
ForceTakeover(n) ==
  /\ SyncStep(n, "takeover")
  /\ IF lease_owner = seen_owner[n] THEN TakeLease(n) ELSE UNCHANGED lease
  /\ ForgetOwner(n)
  /\ GoSync(n, "reread")
  /\ UNCHANGED <<scheduled_runs, is_primary, next_run, last_consumed_ticket, seen_ticket>>

RereadLease(n) ==
  /\ SyncStep(n, "reread")
  /\ is_primary' = [is_primary EXCEPT ![n] = lease_owner = n]
  /\ GoSync(n, "backfill")
  /\ UNCHANGED <<lease, scheduled_runs, next_run, last_consumed_ticket, seen_owner, seen_ticket>>

\* Tickets are reconciled every 15 seconds only; always at start.
SkipReconcile(n) ==
  /\ SyncStep(n, "backfill")
  /\ mode[n] # "booting"
  /\ GoSync(n, "heartbeat")
  /\ UNCHANGED <<lease, scheduled_runs, is_primary, next_run, last_consumed_ticket, seen_owner, seen_ticket>>

\* backfill_local_scheduled_runs: a consumed ticket without a row gets a closed one.
Backfill(n) ==
  /\ SyncStep(n, "backfill")
  /\ IF last_consumed_ticket[n] # -1
     THEN InsertIfAbsent(last_consumed_ticket[n], Row(n, "closed"))
     ELSE UNCHANGED scheduled_runs
  /\ GoSync(n, "reconcile")
  /\ UNCHANGED <<lease, is_primary, next_run, last_consumed_ticket, seen_owner, seen_ticket>>

\* reconcile_consumed_tickets, up to the answer of its query.
ReconcileRead(n) ==
  LET tk == next_run[n]
      stale == now >= DueAt(tk) /\ tk # last_consumed_ticket[n] /\ scheduled_runs[tk] # NoRow
  IN
  /\ SyncStep(n, "reconcile")
  /\ \/ stale /\ seen_ticket' = [seen_ticket EXCEPT ![n] = tk] /\ GoSync(n, "mark")
     \/ ~stale /\ GoSync(n, "heartbeat") /\ UNCHANGED seen_ticket
  /\ UNCHANGED <<lease, scheduled_runs, is_primary, next_run, last_consumed_ticket, seen_owner>>

MarkConsumed(n) ==
  /\ SyncStep(n, "mark")
  /\ last_consumed_ticket' = [last_consumed_ticket EXCEPT ![n] = seen_ticket[n]]
  /\ next_run' = [next_run EXCEPT ![n] = NextRun(seen_ticket[n])]
  /\ ForgetTicket(n)
  /\ GoSync(n, "heartbeat")
  /\ UNCHANGED <<lease, scheduled_runs, is_primary, seen_owner>>

\* _heartbeat_active_runs looks for the active run, or the start-up is complete.
FindActiveRun(n) ==
  /\ sync[n] = "heartbeat"
  /\ \/ launch[n] = "running" /\ seen_ticket' = [seen_ticket EXCEPT ![n] = run_key[n]] /\ GoSync(n, "beat")
     \/ launch[n] # "running" /\ GoSync(n, "idle") /\ UNCHANGED seen_ticket
  /\ mode' = [mode EXCEPT ![n] = IF @ = "booting" THEN "up" ELSE @]
  /\ UNCHANGED <<lease, scheduled_runs, is_primary, project, running, seen_owner, now, started>>

\* heartbeat_run updates the row whatever its status.
HeartbeatRun(n) ==
  /\ SyncStep(n, "beat")
  /\ scheduled_runs' = [scheduled_runs EXCEPT ![seen_ticket[n]].status = "active"]
  /\ ForgetTicket(n)
  /\ GoSync(n, "idle")
  /\ UNCHANGED <<lease, is_primary, next_run, last_consumed_ticket, seen_owner>>

\* A statement raises and the rest of the round is skipped; a start-up is given up.
SyncFails(n) ==
  /\ "d1_error" \in Faults
  /\ \/ sync[n] \in {"read", "check", "takeover", "reread", "backfill", "reconcile", "beat"}
     \/ sync[n] = "idle" /\ mode[n] = "booting"
  /\ GoSync(n, "idle") /\ ForgetOwner(n) /\ ForgetTicket(n)
  /\ mode' = [mode EXCEPT ![n] = IF @ = "booting" THEN "down" ELSE @]
  /\ is_primary' = [is_primary EXCEPT ![n] = @ /\ mode[n] # "booting"]
  /\ UNCHANGED <<lease, scheduled_runs, project, running, now, started>>
-----------------------------------------------------------------------------
(* Processes, the lease and the clock.                                     *)

\* _load_session_state: what save_data wrote when the ticket was consumed.
RestoredTicket(n) == last_consumed_ticket[n]

\* Start.  A run that was interrupted is healed to Error; a new day makes the
\* project wait again.
Boot(n) ==
  /\ mode[n] = "down"
  /\ mode' = [mode EXCEPT ![n] = "booting"]
  /\ waiting' = [waiting EXCEPT ![n] = @ \/ current_date[n] # Today]
  /\ last_consumed_ticket' = [last_consumed_ticket EXCEPT ![n] = RestoredTicket(n)]
  /\ next_run' = [next_run EXCEPT ![n] = NextRun(RestoredTicket(n))]
  /\ current_date' = [current_date EXCEPT ![n] = Today]
  /\ UNCHANGED <<lease, scheduled_runs, is_primary, running, syncing, now, started>>

ReleaseLease(n) ==
  /\ IF lease_owner = n THEN lease_owner' = NoNode /\ lease_live' = FALSE ELSE UNCHANGED lease
  /\ is_primary' = [is_primary EXCEPT ![n] = FALSE]

\* stop(): releases the lease; threads in the middle of something go on.  A stop
\* whose release fails is a node that goes on for a while and then crashes.
Stop(n) ==
  /\ "stop" \in Faults
  /\ mode[n] = "up"
  /\ mode' = [mode EXCEPT ![n] = "stopping"]
  /\ ReleaseLease(n)
  /\ UNCHANGED <<scheduled_runs, project, running, syncing, now, started>>

Exit(n) ==
  /\ mode[n] = "stopping" \/ ("crash" \in Faults /\ mode[n] # "down")
  /\ mode' = [mode EXCEPT ![n] = "down"]
  /\ is_primary' = [is_primary EXCEPT ![n] = FALSE]
  /\ EndLaunch(n)
  /\ GoSync(n, "idle") /\ ForgetOwner(n) /\ ForgetTicket(n)
  /\ UNCHANGED <<lease, scheduled_runs, project, now, started>>

\* An owner that is gone, or whose sync thread stalls, does not renew in time.
LeaseExpires ==
  /\ lease_live
  /\ "stall" \in Faults \/ mode[lease_owner] \in {"down", "stopping"}
  /\ lease_live' = FALSE
  /\ UNCHANGED <<lease_owner, scheduled_runs, mode, is_primary, project, running, syncing, now, started>>

Tick ==
  /\ now < MaxNow
  /\ now' = now + 1
  /\ UNCHANGED <<lease, scheduled_runs, mode, is_primary, project, running, syncing, started>>

LaunchStep(n) == CheckTicket(n) \/ ConsumeTicket(n) \/ AskPolicy(n) \/ InsertRun(n) \/ LookupRun(n)
                 \/ CloseRun(n) \/ ResetDay(n)
SyncRound(n) == UpsertLease(n) \/ ReadLease(n) \/ CheckOwner(n) \/ ForceTakeover(n) \/ RereadLease(n)
                \/ SkipReconcile(n) \/ Backfill(n) \/ ReconcileRead(n) \/ MarkConsumed(n)
                \/ FindActiveRun(n) \/ HeartbeatRun(n)

Next == \/ \E n \in Nodes : \/ LaunchStep(n) \/ FinishRun(n) \/ LaunchFails(n)
                            \/ SyncRound(n) \/ SyncFails(n)
                            \/ Boot(n) \/ Stop(n) \/ Exit(n)
        \/ LeaseExpires \/ Tick

Spec == Init /\ [][Next]_vars

(* Threads of a live process run; a run ends; a lease that is not renewed  *)
(* expires.  No fairness of crashes, starts, or the clock.                 *)
Fairness == /\ \A n \in Nodes : WF_vars(LaunchStep(n)) /\ WF_vars(FinishRun(n)) /\ WF_vars(SyncRound(n))
            /\ WF_vars(LeaseExpires)
FairSpec == Spec /\ Fairness
-----------------------------------------------------------------------------
(* Properties.                                                             *)

\* A node executes only under an active row of its own, so that a node with a
\* higher priority sees the run and leaves it the lease.
ExecutionIsRecorded ==
  \A n \in Nodes : launch[n] = "running" => scheduled_runs[run_key[n]] = Row(n, "active")

\* No two nodes ever execute one ticket, at once or one after the other.
OneNodePerTicket ==
  \A m, n \in Nodes : \A tk \in Tickets : tk \in started[m] /\ tk \in started[n] => m = n

\* A ticket is executed once: restarts, retries and reconciliations do not bring
\* it back.
Board == INSTANCE RunBoard WITH
  used      <- UNION {started[n] : n \in Nodes},
  executing <- {<<n, run_key[n]>> : n \in {m \in Nodes : launch[m] = "running"}}
TicketsExecutedOnce == Board!Spec

\* A lease that is live is not taken from the main node; it may release it.
MainKeepsLease ==
  [][lease_owner = Main /\ lease_live => lease_owner' \in {Main, NoNode}]_lease

\* When the other nodes are down, the one that is up becomes primary, whatever rows
\* the others have left behind.
StandbyTakesOver ==
  \A n \in Nodes :
    (mode[n] = "up" /\ \A m \in Nodes \ {n} : mode[m] = "down")
      ~> (is_primary[n] \/ mode[n] # "up" \/ \E m \in Nodes \ {n} : mode[m] # "down")

\* A row that is active although its run has ended: its node has crashed, or a late
\* heartbeat has revived it.
Abandoned(n, tk) == scheduled_runs[tk] = Row(n, "active")
                    /\ ~(run_key[n] = tk /\ launch[n] \in {"lookup", "running", "close"})

\* The main node gets the lease back from a node that renews it all the time, when
\* the runs of that node have ended; unless one has left an active row behind.
MainReturns ==
  mode[Main] = "up" ~> (is_primary[Main] \/ mode[Main] # "up"
                        \/ \E n \in Nodes \ {Main}, tk \in Tickets : Abandoned(n, tk))

(* What texts of the repository say, and the code does not do.             *)

\* README.md: "the standby node waits until it owns the lease."  While one node
\* stays up, a ticket that is due is run by it or by another one on that day.
Due(tk) == now >= DueAt(tk) /\ Today = tk
DueTicketIsRun ==
  \A tk \in Tickets : \A n \in Nodes :
    (Due(tk) /\ mode[n] = "up")
      ~> (~Due(tk) \/ mode[n] # "up" \/ \E m \in Nodes : tk \in started[m])
=============================================================================

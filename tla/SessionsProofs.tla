----------------------------- MODULE SessionsProofs -----------------------------
(* Theorems about Sessions, for any schedules, slots and faults.              *)
EXTENDS Sessions, WellFoundedInduction, TLAPS

\* What calculate_next_run and the files may hand back to a project: TypeOK is
\* inductive only when the files hold what a project may load.
Tickets == Nat \cup {None}
FilesTyped ==
  /\ data_file.last_run \in Tickets /\ data_file.ticket \in Tickets
  /\ session_state.ticket \in Tickets
  /\ trace.ticket \in Tickets /\ trace.last_run \in Tickets
  /\ trace.last_run # None => trace.next_run \in Nat \cup {Never}
  /\ \A th \in Savers : payload[th].last_run \in Tickets /\ payload[th].ticket \in Tickets
  /\ current_date \in Nat

Inv == TypeOK /\ FilesTyped

\* What a worker that has left its last section shows is how its run ended.
EndIsFinal == (~up => run = "none") /\ (run = "finished" => status \in Final)

LEMMA NeverHasNoDay == Day(Never) \notin Nat
  BY SessionAssumption DEF Day, Never

LEMMA NowIsNat == ASSUME now \in 0 .. MaxNow PROVE now \in Nat
  BY SessionAssumption

LEMMA DaysAreNat == \A t \in Nat : Day(t) \in Nat
  BY SessionAssumption DEF Day

LEMMA DueIsNat == ASSUME config \in Configs PROVE \A d \in Nat : Due(d) \in Nat
<1>1. config.run_time \in Nat /\ SlotsPerDay \in Nat
  BY SessionAssumption
<1>2. ASSUME NEW d \in Nat PROVE Due(d) \in Nat
  <2>1. d * SlotsPerDay \in Nat
    BY <1>1
  <2>2. QED BY <1>1, <2>1 DEF Due
<1>3. QED BY <1>2

LEMMA CandidateIsSlot ==
  ASSUME config \in Configs, now \in Nat, NEW wd \in config.days PROVE candidate(wd) \in Nat
<1> DEFINE ahead == (wd - Weekday(Today)) % 7
<1>1. Today \in Nat
  BY DaysAreNat DEF Today
<1>2. wd \in Int /\ Weekday(Today) \in Int
  BY <1>1, SessionAssumption DEF Weekday
<1>3. ahead \in Nat
  BY <1>2
<1>4. Today + ahead \in Nat /\ Today + ahead + 7 \in Nat
  BY <1>1, <1>3
<1>5. QED BY <1>4, DueIsNat DEF candidate

\* A set of slots has a first one.
LEMMA FirstSlot ==
  ASSUME NEW S \in SUBSET Nat, S # {} PROVE Min(S) \in S /\ \A y \in S : Min(S) <= y
<1>1. \E x \in S : \A y \in S : ~ (<<y, x>> \in OpToRel(<, Nat))
  BY NatLessThanWellFounded, WFMin
<1>2. \E x \in S : \A y \in S : x <= y
  <2>1. PICK x \in S : \A y \in S : ~ (<<y, x>> \in OpToRel(<, Nat))
    BY <1>1
  <2>2. ASSUME NEW y \in S PROVE x <= y
    <3>1. x \in Nat /\ y \in Nat
      OBVIOUS
    <3>2. ~ (y < x)
      BY <2>1, <3>1, Zenon DEF OpToRel
    <3>3. QED BY <3>1, <3>2
  <2>3. QED BY <2>2
<1>3. QED BY <1>2 DEF Min

\* The next run of every type of schedule is a slot, or never.
LEMMA NextRunIsSlot ==
  ASSUME config \in Configs, now \in Nat, NEW ticket \in Tickets, NEW last \in Tickets
  PROVE  calculate_next_run(ticket, last) \in Nat \cup {Never}
<1> DEFINE schedule == config.schedule_type
<1>1. schedule \in {"daily", "weekly", "interval", "onetime"} /\ Today \in Nat
  BY SessionAssumption, DaysAreNat DEF Today
<1>2. CASE schedule = "daily"
  <2>1. daily_next_run(ticket) \in Nat
    BY <1>1, DueIsNat DEF daily_next_run
  <2>2. QED BY <1>2, <2>1 DEF calculate_next_run
<1>3. CASE schedule = "weekly"
  <2>1. \A wd \in config.days : candidate(wd) \in Nat
    BY CandidateIsSlot
  <2>2. {candidate(wd) : wd \in config.days} \in SUBSET Nat /\ {candidate(wd) : wd \in config.days} # {}
    BY <2>1, SessionAssumption
  <2>3. Min({candidate(wd) : wd \in config.days}) \in Nat
    BY <2>2, FirstSlot
  <2>4. QED BY <1>3, <2>3 DEF calculate_next_run
<1>4. CASE schedule = "interval"
  <2>1. interval_next_run(last) \in Nat
    BY SessionAssumption DEF interval_next_run, Tickets
  <2>2. QED BY <1>4, <2>1 DEF calculate_next_run
<1>5. CASE schedule = "onetime"
  <2>1. onetime_next_run(ticket) \in Nat \cup {Never}
    BY SessionAssumption DEF onetime_next_run
  <2>2. QED BY <1>5, <2>1 DEF calculate_next_run
<1>6. QED BY <1>1, <1>2, <1>3, <1>4, <1>5

LEMMA InvInit == Init => Inv
<1> SUFFICES ASSUME Init PROVE Inv
  OBVIOUS
<1>1. NoPayload \in [status : Statuses, last_run : Times, ticket : Times]
  BY DEF NoPayload, Statuses, Times, None
<1>2. NoSession \in [date : Times, status : Statuses, ticket : Times]
  BY DEF NoSession, Statuses, Times, None
<1>3. NoTrace \in [date : Times, ticket : Times, status : Final \cup {"none"}, last_run : Times, next_run : Times]
  BY DEF NoTrace, Times, None
<1>4. payload \in [Savers -> [status : Statuses, last_run : Times, ticket : Times]] /\ \A th \in Savers : payload[th] = NoPayload
  BY <1>1 DEF Init
<1>5. save_at \in [Savers -> {"none", "dump", "write", "session"}]
  BY DEF Init
<1>6. now \in 0 .. MaxNow /\ crashes \in 0 .. MaxCrashes /\ events \in 0 .. MaxEvents
  BY SessionAssumption DEF Init
<1>7. TypeOK
  <2>1. data_file \in [status : Statuses, last_run : Times, ticket : Times]
        /\ session_state \in [date : Times, status : Statuses, ticket : Times]
        /\ trace \in [date : Times, ticket : Times, status : Final \cup {"none"}, last_run : Times, next_run : Times]
    BY <1>1, <1>2, <1>3 DEF Init
  <2>2. config \in Configs /\ up \in BOOLEAN /\ status \in Statuses
        /\ loop \in {"sleep", "consider", "trace", "launch"}
        /\ run \in {"none", "created", "running", "finished", "leaving"}
    BY DEF Init, Statuses
  <2>3. last_run \in Nat \cup {None} /\ next_run \in Nat \cup {Never}
        /\ last_consumed_ticket \in Nat \cup {None}
        /\ current_date \in Int /\ checked \in Int /\ up_since \in Nat
    BY DEF Init, None
  <2>4. used \subseteq Int /\ attempted \in BOOLEAN
    BY DEF Init
  <2>5. QED BY <1>4, <1>5, <1>6, <2>1, <2>2, <2>3, <2>4 DEF TypeOK, Times
<1>8. FilesTyped
  BY <1>4 DEF Init, FilesTyped, Tickets, NoPayload, NoSession, NoTrace, None
<1>9. QED BY <1>7, <1>8 DEF Inv
-----------------------------------------------------------------------------
LEMMA StartKeepsInv == ASSUME Inv, Start PROVE Inv'
<1> USE DEF Inv
<1>1. config \in Configs /\ now \in Nat /\ Today \in Nat
  BY NowIsNat, DaysAreNat DEF TypeOK, Today
<1>2. last_consumed_ticket' \in Tickets
  BY DEF Start, LoadData, TraceTicket, SavedTicket, FilesTyped, Tickets, None
<1>3. last_run' \in Tickets
  BY DEF Start, LoadData, TraceFinish, FilesTyped
<1>4. next_run' \in Nat \cup {Never}
  <2>1. calculate_next_run(data_file.ticket, data_file.last_run) \in Nat \cup {Never}
    BY <1>1, NextRunIsSlot DEF FilesTyped
  <2>2. CASE TraceFinish
    BY <2>2 DEF Start, LoadData, TraceFinish, FilesTyped
  <2>3. CASE ~TraceFinish
    BY <2>1, <2>3 DEF Start, LoadData
  <2>4. QED BY <2>2, <2>3
<1>5. status' \in Statuses
  BY DEF Start, LoadData, TraceFinish, SessionStatus, InitialStatus, TypeOK, Statuses, Final
<1>6. session_state' \in [date : Times, status : Statuses, ticket : Times] /\ session_state'.ticket \in Tickets
  BY DEF Start, LoadData, NoSession, TypeOK, FilesTyped, Tickets, Times, Statuses, None
<1>7. TypeOK'
  BY <1>1, <1>2, <1>3, <1>4, <1>5, <1>6 DEF Start, TypeOK, Tickets, Times, None, counts
<1>8. FilesTyped'
  BY <1>1, <1>6 DEF Start, FilesTyped
<1>9. QED BY <1>7, <1>8

LEMMA SaveKeepsInv ==
  ASSUME Inv, Crash \/ OtherSave \/ \E th \in Savers : SaveStep(th) PROVE Inv'
<1> USE DEF Inv
<1>1. CASE Crash
  <2>1. NoPayload \in [status : Statuses, last_run : Times, ticket : Times] /\ NoPayload.last_run \in Tickets
        /\ NoPayload.ticket \in Tickets
    BY DEF NoPayload, Statuses, Times, Tickets, None
  <2>2. payload' \in [Savers -> [status : Statuses, last_run : Times, ticket : Times]]
        /\ \A th \in Savers : payload'[th] = NoPayload
    BY <1>1, <2>1 DEF Crash
  <2>3. crashes' \in 0 .. MaxCrashes
    BY <1>1, SessionAssumption DEF Crash, TypeOK
  <2>4. QED BY <1>1, <2>1, <2>2, <2>3 DEF Crash, TypeOK, FilesTyped, files, project, history
<1>2. ASSUME Event PROVE events' \in 0 .. MaxEvents /\ UNCHANGED crashes
  BY <1>2, SessionAssumption DEF Event, TypeOK
<1>3. CASE OtherSave
  BY <1>2, <1>3 DEF OtherSave, CallSave, TypeOK, FilesTyped, Savers, files, project, history
<1>4. ASSUME NEW th \in Savers, DumpProjects(th) PROVE Inv'
  <2> DEFINE saved == [status |-> status, last_run |-> last_run, ticket |-> last_consumed_ticket]
  <2>1. saved \in [status : Statuses, last_run : Times, ticket : Times] /\ saved.last_run \in Tickets
        /\ saved.ticket \in Tickets
    BY DEF TypeOK, Times, Tickets, None
  <2>2. payload' = [payload EXCEPT ![th] = saved]
    BY <1>4 DEF DumpProjects
  <2> HIDE DEF saved
  <2>3. payload' \in [Savers -> [status : Statuses, last_run : Times, ticket : Times]]
        /\ \A o \in Savers : payload'[o].last_run \in Tickets /\ payload'[o].ticket \in Tickets
    BY <2>1, <2>2 DEF TypeOK, FilesTyped
  <2>4. QED BY <1>4, <2>3 DEF DumpProjects, SaveGoes, SaveKeeps, TypeOK, FilesTyped, files, project, history, counts
<1>5. ASSUME NEW th \in Savers, WriteDataFile(th) PROVE Inv'
  <2>1. data_file' \in [status : Statuses, last_run : Times, ticket : Times]
        /\ data_file'.last_run \in Tickets /\ data_file'.ticket \in Tickets
    BY <1>5 DEF WriteDataFile, TypeOK, FilesTyped
  <2>2. NoPayload \in [status : Statuses, last_run : Times, ticket : Times] /\ NoPayload.last_run \in Tickets
        /\ NoPayload.ticket \in Tickets
    BY DEF NoPayload, Statuses, Times, Tickets, None
  <2>3. payload' \in [Savers -> [status : Statuses, last_run : Times, ticket : Times]]
        /\ \A o \in Savers : payload'[o].last_run \in Tickets /\ payload'[o].ticket \in Tickets
    BY <1>5, <2>2 DEF WriteDataFile, TypeOK, FilesTyped
  <2>4. events' \in 0 .. MaxEvents /\ crashes' \in 0 .. MaxCrashes
    BY <1>2, <1>5 DEF WriteDataFile, counts, TypeOK
  <2>5. save_at' \in [Savers -> {"none", "dump", "write", "session"}]
    BY <1>5 DEF WriteDataFile, SaveGoes, TypeOK
  <2>6. UNCHANGED <<session_state, trace, config, now, up, project, current_date, checked, loop, run, history>>
    BY <1>5 DEF WriteDataFile, SaveKeeps
  <2>7. QED BY <2>1, <2>3, <2>4, <2>5, <2>6 DEF TypeOK, FilesTyped, project, history
<1>6. ASSUME NEW th \in Savers, WriteSessionState(th) PROVE Inv'
  <2>1. Today \in Nat
    BY NowIsNat, DaysAreNat DEF TypeOK, Today
  <2>2. session_state' \in [date : Times, status : Statuses, ticket : Times] /\ session_state'.ticket \in Tickets
    BY <1>6, <2>1 DEF WriteSessionState, TypeOK, FilesTyped, Times, Tickets, None
  <2>3. events' \in 0 .. MaxEvents /\ crashes' \in 0 .. MaxCrashes
    BY <1>2, <1>6 DEF WriteSessionState, counts, TypeOK
  <2>4. save_at' \in [Savers -> {"none", "dump", "write", "session"}]
    BY <1>6 DEF WriteSessionState, SaveGoes, TypeOK
  <2>5. UNCHANGED <<data_file, trace, payload, config, now, up, project, current_date, checked, loop, run, history>>
    BY <1>6 DEF WriteSessionState, SaveKeeps
  <2>6. QED BY <2>2, <2>3, <2>4, <2>5 DEF TypeOK, FilesTyped, project, history
<1>7. QED BY <1>1, <1>3, <1>4, <1>5, <1>6 DEF SaveStep
-----------------------------------------------------------------------------
\* The next run that a project in memory is given.
LEMMA NextRunStays ==
  ASSUME Inv PROVE calculate_next_run(last_consumed_ticket, last_run) \in Nat \cup {Never}
                   /\ calculate_next_run(last_consumed_ticket, now) \in Nat \cup {Never}
                   /\ now \in Nat /\ Today \in Nat
  BY NextRunIsSlot, NowIsNat, DaysAreNat DEF Inv, TypeOK, Tickets, Today

\* The trace of the day with new values in its fields.
LEMMA TraceIsTyped ==
  ASSUME Inv PROVE /\ TraceOfToday \in [date : Times, ticket : Times, status : Final \cup {"none"}, last_run : Times, next_run : Times]
                   /\ TraceOfToday.ticket \in Tickets /\ TraceOfToday.last_run \in Tickets
                   /\ TraceOfToday.last_run # None => TraceOfToday.next_run \in Nat \cup {Never}
  BY NextRunStays DEF TraceOfToday, NoTrace, Inv, TypeOK, FilesTyped, Times, Tickets, None

LEMMA LoopKeepsInv == ASSUME Inv, Scheduler \/ LaunchManual PROVE Inv'
<1> USE DEF Inv
<1>1. CASE DailyReset
  BY <1>1, NextRunStays DEF DailyReset, CallSave, TypeOK, FilesTyped, Statuses, Savers, Times, files, history, counts
<1>2. CASE BeginPass
  BY <1>2, NextRunStays DEF BeginPass, CallSave, TypeOK, FilesTyped, Statuses, Final, Savers, Times, files, history, counts
<1>3. CASE ConsumeTicket
  <2>1. last_consumed_ticket' \in Nat \cup {None}
    BY <1>3 DEF ConsumeTicket, TicketAllowed, TypeOK
  <2>2. QED BY <1>3, <2>1 DEF ConsumeTicket, CallSave, TypeOK, FilesTyped, Savers, files, counts
<1>4. CASE TraceConsumed
  <2>1. trace' = TraceOfToday \/ (next_run \in Nat /\ trace' = [TraceOfToday EXCEPT !.ticket = next_run])
    BY <1>4, NeverHasNoDay, NextRunStays DEF TraceConsumed, TypeOK
  <2>2. QED BY <1>4, <2>1, TraceIsTyped
            DEF TraceConsumed, TypeOK, FilesTyped, Times, Tickets, project, history, counts
<1>5. CASE LaunchScheduled
  BY <1>5 DEF LaunchScheduled, TypeOK, FilesTyped, None, files, project, counts
<1>6. CASE LaunchManual
  BY <1>6, SessionAssumption DEF LaunchManual, Event, TypeOK, FilesTyped, files, project, history
<1>7. QED BY <1>1, <1>2, <1>3, <1>4, <1>5, <1>6 DEF Scheduler

LEMMA RunKeepsInv == ASSUME Inv, EndIsFinal, Worker \/ Tick \/ BoundsReached \/ UNCHANGED vars PROVE Inv'
<1> USE DEF Inv
<1>1. CASE BeginRun
  BY <1>1 DEF BeginRun, TypeOK, FilesTyped, Statuses, files, counts
<1>2. CASE FinishRun
  BY <1>2, NextRunStays DEF FinishRun, CallSave, TypeOK, FilesTyped, Statuses, Final, Savers, files, history, counts
<1>3. CASE TraceFinished
  <2> DEFINE written == [TraceOfToday EXCEPT !.status = status, !.last_run = last_run, !.next_run = next_run]
             Typed(r) == /\ r \in [date : Times, ticket : Times, status : Final \cup {"none"}, last_run : Times, next_run : Times]
                         /\ r.ticket \in Tickets /\ r.last_run \in Tickets
                         /\ r.last_run # None => r.next_run \in Nat \cup {Never}
  <2>1. last_run \in Times /\ last_run \in Tickets /\ next_run \in Times /\ next_run \in Nat \cup {Never}
    BY DEF TypeOK, Times, Tickets, None, Never
  <2>2. status \in Final
    BY <1>3 DEF EndIsFinal, TraceFinished, WorkerReady
  <2>3. Typed(written)
    BY <2>1, <2>2, TraceIsTyped
  <2>4. trace' = written
    BY <1>3 DEF TraceFinished
  <2> HIDE DEF written
  <2>5. Typed(trace')
    BY <2>3, <2>4
  <2>6. save_at' \in [Savers -> {"none", "dump", "write", "session"}]
    BY <1>3 DEF TraceFinished, CallSave, TypeOK
  <2>7. QED BY <1>3, <2>5, <2>6 DEF TraceFinished, TypeOK, FilesTyped, project, history, counts
<1>4. CASE EndRun
  BY <1>4 DEF EndRun, TypeOK, FilesTyped, files, project, history, counts
<1>5. CASE Tick
  <2>1. now' \in 0 .. MaxNow
    BY <1>5, SessionAssumption DEF Tick, TypeOK
  <2>2. attempted' \in BOOLEAN
    BY <1>5 DEF Tick, TypeOK
  <2>3. QED BY <1>5, <2>1, <2>2 DEF Tick, TypeOK, FilesTyped, files, project, counts
<1>6. CASE BoundsReached \/ UNCHANGED vars
  BY <1>6 DEF BoundsReached, vars, TypeOK, FilesTyped, files, project, history, counts
<1>7. QED BY <1>1, <1>2, <1>3, <1>4, <1>5, <1>6 DEF Worker

LEMMA EndStaysFinal == ASSUME EndIsFinal, [Next]_vars PROVE EndIsFinal'
<1> USE DEF EndIsFinal
<1>1. CASE Start \/ Crash
  BY <1>1 DEF Start, Crash
<1>2. ASSUME NEW th \in Savers, SaveStep(th) PROVE EndIsFinal'
  BY <1>2 DEF SaveStep, DumpProjects, WriteDataFile, WriteSessionState, SaveKeeps, project
<1>3. CASE OtherSave \/ LaunchManual
  BY <1>3 DEF OtherSave, LaunchManual, project
<1>4. CASE DailyReset \/ BeginPass
  BY <1>4 DEF DailyReset, BeginPass, SchedulerReady
<1>5. CASE ConsumeTicket \/ TraceConsumed \/ LaunchScheduled
  BY <1>5 DEF ConsumeTicket, TraceConsumed, LaunchScheduled, SchedulerReady, project
<1>6. CASE Worker
  BY <1>6 DEF Worker, BeginRun, FinishRun, TraceFinished, EndRun, WorkerReady, Final, project
<1>7. CASE Tick \/ BoundsReached \/ UNCHANGED vars
  BY <1>7 DEF Tick, BoundsReached, vars, project
<1>8. QED BY <1>1, <1>2, <1>3, <1>4, <1>5, <1>6, <1>7 DEF Next, Scheduler

LEMMA InvHolds == Spec => [](Inv /\ EndIsFinal)
<1>1. Init => Inv /\ EndIsFinal
  BY InvInit DEF Init, EndIsFinal
<1>2. Inv /\ EndIsFinal /\ [Next]_vars => (Inv /\ EndIsFinal)'
  BY StartKeepsInv, SaveKeepsInv, LoopKeepsInv, RunKeepsInv, EndStaysFinal DEF Next
<1>3. QED BY <1>1, <1>2, PTL DEF Spec

\* The files, the project and the positions of the threads stay in their sets: next_run
\* of every type of schedule is a slot or never, whatever the files hand back.
THEOREM TypeCorrect == Spec => []TypeOK
<1>1. Inv => TypeOK  BY DEF Inv
<1>2. QED BY <1>1, InvHolds, PTL
-----------------------------------------------------------------------------
(* The calendar.                                                             *)

\* A scheduled slot of a daily or weekly project is the one of its day.
LEMMA SlotOfDay ==
  ASSUME config \in Configs, NEW t \in Nat, t % SlotsPerDay = config.run_time
  PROVE  t = Due(Day(t)) /\ Day(t) \in Nat
<1>1. SlotsPerDay \in Nat \ {0}
  BY SessionAssumption
<1>2. t = (t \div SlotsPerDay) * SlotsPerDay + (t % SlotsPerDay) /\ t \div SlotsPerDay \in Nat
  BY <1>1
<1>3. QED BY <1>2 DEF Due, Day

\* Later slots lie in later days, and later days have later slots.
LEMMA DaysInOrder ==
  ASSUME NEW s \in Nat, NEW t \in Nat, s <= t
  PROVE  /\ Day(s) \in Nat /\ Day(t) \in Nat /\ Day(s) <= Day(t)
         /\ config \in Configs => Due(s) <= Due(t) /\ Due(s) \in Nat
<1>1. SlotsPerDay \in Nat \ {0}
  BY SessionAssumption
<1>2. Day(s) \in Nat /\ Day(t) \in Nat /\ Day(s) <= Day(t)
  BY <1>1 DEF Day
<1>3. s * SlotsPerDay <= t * SlotsPerDay
  BY <1>1
<1>4. config \in Configs => config.run_time \in Nat
  BY SessionAssumption
<1>5. QED BY <1>1, <1>2, <1>3, <1>4, DueIsNat DEF Due

\* The next day of a weekday, from today on.
LEMMA DaysAhead ==
  ASSUME NEW today \in Nat, NEW d \in Nat, today <= d
  PROVE  LET ahead == ((d % 7) - (today % 7)) % 7
         IN  /\ ahead \in Nat /\ today + ahead <= d
             /\ today + ahead = d \/ today + ahead + 7 <= d
  OBVIOUS
-----------------------------------------------------------------------------
(* next_run skips no slot that lies ahead, however far.                      *)

Covers(n) == \A t \in Nat : t > now /\ Scheduled(t) => n \in 0 .. t

\* calculate_next_run skips none, whatever the ticket and the last run.
LEMMA NextRunCovers ==
  ASSUME config \in Configs, now \in Nat, NEW ticket \in Tickets, NEW last \in Tickets
  PROVE  Covers(calculate_next_run(ticket, last))
<1> SUFFICES ASSUME NEW t \in Nat, t > now, Scheduled(t)
             PROVE  calculate_next_run(ticket, last) \in 0 .. t
  BY DEF Covers
<1>1. Today \in Nat /\ Day(t) \in Nat /\ Today <= Day(t)
  BY DaysInOrder DEF Today
<1>2. CASE config.schedule_type = "daily"
  <2>1. t = Due(Day(t))
    BY <1>2, SlotOfDay DEF Scheduled
  <2>2. CASE Due(Today) <= now
    <3>1. Today + 1 <= Day(t)
      BY <1>1, <2>1, <2>2
    <3>2. Due(Today + 1) \in 0 .. t /\ Due(Today) \in 0 .. t
      BY <1>1, <2>1, <3>1, DaysInOrder
    <3>3. QED BY <1>2, <3>2 DEF calculate_next_run, daily_next_run
  <2>3. CASE ~ (Due(Today) <= now)
    <3>1. Due(Today) \in 0 .. t
      BY <1>1, <2>1, DaysInOrder
    <3>2. QED BY <1>2, <2>3, <3>1 DEF calculate_next_run, daily_next_run
  <2>4. QED BY <2>2, <2>3
<1>3. CASE config.schedule_type = "weekly"
  <2> DEFINE wd == Weekday(Day(t))
             ahead == (wd - Weekday(Today)) % 7
             S == {candidate(w) : w \in config.days}
  <2>1. t = Due(Day(t)) /\ wd \in config.days
    BY <1>3, SlotOfDay DEF Scheduled
  <2>2. /\ ahead \in Nat /\ Today + ahead <= Day(t)
        /\ Today + ahead = Day(t) \/ Today + ahead + 7 <= Day(t)
    BY <1>1, DaysAhead DEF Weekday
  <2>3. candidate(wd) <= t
    <3>1. CASE Due(Today + ahead) <= now
      <4>1. Today + ahead # Day(t)
        BY <2>1, <3>1
      <4>2. Today + ahead + 7 \in Nat /\ Today + ahead + 7 <= Day(t)
        BY <1>1, <2>2, <4>1
      <4>3. Due(Today + ahead + 7) <= t
        BY <1>1, <2>1, <4>2, DaysInOrder
      <4>4. QED BY <3>1, <4>3 DEF candidate
    <3>2. CASE ~ (Due(Today + ahead) <= now)
      <4>1. Due(Today + ahead) <= t
        BY <1>1, <2>1, <2>2, DaysInOrder
      <4>2. QED BY <3>2, <4>1 DEF candidate
    <3>3. QED BY <3>1, <3>2
  <2>4. S \in SUBSET Nat
    BY <1>3, CandidateIsSlot
  <2>5. candidate(wd) \in S
    BY <2>1
  <2>6. Min(S) <= candidate(wd) /\ Min(S) \in Nat
    BY <2>4, <2>5, FirstSlot
  <2>7. Min(S) \in 0 .. t
    BY <2>3, <2>4, <2>5, <2>6
  <2>8. calculate_next_run(ticket, last) = Min(S)
    BY <1>3 DEF calculate_next_run
  <2>9. QED BY <2>7, <2>8
<1>4. CASE config.schedule_type = "onetime"
  <2>1. t = config.date /\ config.date \in Nat
    BY <1>4, SessionAssumption DEF Scheduled
  <2>2. QED BY <1>4, <2>1 DEF calculate_next_run, onetime_next_run
<1>5. QED BY <1>2, <1>3, <1>4 DEF Scheduled

\* What the process and the trace hold.
CoverInv ==
  /\ up => Covers(next_run)
  /\ trace.last_run # None => Covers(trace.next_run)

LEMMA CoverInvNext == ASSUME Inv, CoverInv, EndIsFinal, [Next]_vars PROVE CoverInv'
<1> USE DEF Inv
<1>1. now \in Nat /\ config \in Configs /\ last_run \in Tickets /\ last_consumed_ticket \in Tickets
  BY NowIsNat DEF TypeOK, Tickets
<1>2. \A n : UNCHANGED config /\ now' \in Nat /\ now <= now' /\ Covers(n) => Covers(n)'
  BY <1>1 DEF Covers, Scheduled
<1>3. /\ Covers(calculate_next_run(last_consumed_ticket, last_run))
      /\ Covers(calculate_next_run(last_consumed_ticket, now))
      /\ Covers(calculate_next_run(data_file.ticket, data_file.last_run))
  BY <1>1, NextRunCovers DEF FilesTyped, Tickets
<1>4. ASSUME UNCHANGED <<config, now, trace>>, up' => up,
             next_run' \in {next_run, calculate_next_run(last_consumed_ticket, last_run),
                            calculate_next_run(last_consumed_ticket, now)}
      PROVE  CoverInv'
  BY <1>1, <1>2, <1>3, <1>4 DEF CoverInv
<1>5. CASE Start
  <2>1. UNCHANGED <<config, now, trace>>
    BY <1>5 DEF Start
  <2>2. \/ next_run' = trace.next_run /\ trace.last_run # None
        \/ next_run' = calculate_next_run(data_file.ticket, data_file.last_run)
    BY <1>5 DEF Start, LoadData, TraceFinish
  <2>3. QED BY <1>1, <1>2, <1>3, <2>1, <2>2 DEF CoverInv
<1>6. CASE Crash \/ OtherSave \/ LaunchManual
  BY <1>4, <1>6 DEF Crash, OtherSave, LaunchManual, files, project
<1>7. ASSUME NEW th \in Savers, SaveStep(th) PROVE CoverInv'
  BY <1>4, <1>7 DEF SaveStep, DumpProjects, WriteDataFile, WriteSessionState, SaveKeeps, files, project
<1>8. CASE DailyReset \/ BeginPass
  BY <1>4, <1>8 DEF DailyReset, BeginPass, files
<1>9. CASE ConsumeTicket \/ LaunchScheduled
  BY <1>4, <1>9 DEF ConsumeTicket, LaunchScheduled, files, project
<1>10. CASE TraceConsumed
  <2>1. trace'.last_run # None => trace'.last_run = trace.last_run /\ trace'.next_run = trace.next_run
    BY <1>10 DEF TraceConsumed, TraceOfToday, NoTrace, TypeOK
  <2>2. UNCHANGED <<config, now, up, next_run>>
    BY <1>10 DEF TraceConsumed, project
  <2>3. QED BY <1>1, <1>2, <2>1, <2>2 DEF CoverInv
<1>11. CASE BeginRun \/ FinishRun \/ EndRun
  BY <1>4, <1>11 DEF BeginRun, FinishRun, EndRun, files, project
<1>12. CASE TraceFinished
  <2>1. trace'.next_run = next_run
    BY <1>12 DEF TraceFinished, TraceOfToday, NoTrace, TypeOK
  <2>2. up /\ UNCHANGED <<config, now, up, next_run>>
    BY <1>12 DEF TraceFinished, WorkerReady, project
  <2>3. QED BY <1>1, <1>2, <2>1, <2>2 DEF CoverInv
<1>13. CASE Tick
  <2>1. now' \in Nat /\ now <= now' /\ UNCHANGED <<config, up, trace, next_run>>
    BY <1>1, <1>13 DEF Tick, files, project
  <2>2. QED BY <1>2, <2>1 DEF CoverInv
<1>14. CASE BoundsReached \/ UNCHANGED vars
  BY <1>4, <1>14 DEF BoundsReached, vars, files, project
<1>15. QED
  BY <1>5, <1>6, <1>7, <1>8, <1>9, <1>10, <1>11, <1>12, <1>13, <1>14 DEF Next, Scheduler, Worker

\* While the process is up, next_run is not after any slot of the schedule that lies
\* ahead: neither calculate_next_run, for any type of schedule, nor the trace of the
\* day that a restart reads, passes over one.
THEOREM NoneSkipped == Spec => []NoSlotSkipped
<1>1. Init => CoverInv
  BY DEF Init, CoverInv, NoTrace
<1>2. Inv /\ EndIsFinal /\ CoverInv /\ [Next]_vars => CoverInv'
  BY CoverInvNext
<1>3. Inv /\ CoverInv => NoSlotSkipped
  <2> SUFFICES ASSUME Inv, CoverInv, up, NEW t \in now + 1 .. now + 7 * SlotsPerDay, Scheduled(t)
               PROVE  next_run \in 0 .. t
    BY DEF NoSlotSkipped
  <2>1. now \in Nat /\ SlotsPerDay \in Nat
    BY NowIsNat, SessionAssumption DEF Inv, TypeOK
  <2>2. t \in Nat /\ t > now
    BY <2>1
  <2>3. QED BY <2>2 DEF CoverInv, Covers
<1>4. QED BY <1>1, <1>2, <1>3, InvHolds, PTL DEF Spec
-----------------------------------------------------------------------------
(* A ticket starts one run.                                                  *)

\* The tickets that runs have used, and the last one the trace names.
Spent == used \cup ({trace.ticket} \ {None})

Repeating == config.schedule_type # "onetime"
OfToday(t) == t # None /\ Day(t) = Today

\* A daily project has one ticket a day, a one-time project one for ever.
OfSchedule(t) ==
  /\ config.schedule_type = "daily" => t = Due(Day(t))
  /\ config.schedule_type = "onetime" => t = config.date

\* What has been is not after now.
PastInv ==
  /\ \A u \in Spent : u \in Nat /\ u <= now /\ OfSchedule(u)
  /\ \A t \in {last_run, data_file.last_run, trace.last_run} : t <= now
  /\ \A th \in Savers : payload[th].last_run <= now

\* The trace of the day names the last ticket that was used of this day.
TraceInv ==
  /\ trace.date <= Today
  /\ trace.ticket # None => Day(trace.ticket) = trace.date
  /\ \A u \in used : Day(u) = Today => trace.date = Today /\ u <= trace.ticket
  /\ up /\ trace.date = Today /\ trace.ticket # None /\ loop # "trace" => last_consumed_ticket = trace.ticket

\* next_run is no used ticket, but for the one just consumed.
NextInv ==
  up => /\ next_run # Never => OfSchedule(next_run)
        /\ Repeating => \A u \in Spent : u <= next_run /\ (u = next_run => last_consumed_ticket = u)
        /\ Repeating /\ OfToday(last_run) => next_run \in Nat /\ Today <= Day(next_run)

\* So is the next_run that a restart takes from the trace of a finished run.
FinishInv ==
  TraceFinish =>
    /\ trace.next_run # Never => OfSchedule(trace.next_run)
    /\ Repeating => /\ trace.next_run \in Nat /\ Today <= Day(trace.next_run)
                    /\ \A u \in Spent : u <= trace.next_run /\ (u = trace.next_run => trace.ticket = u)
    /\ up => /\ OfToday(last_run)
             /\ run # "finished" => next_run = trace.next_run
             /\ run = "none" => status # "Running"

\* A run that ends after midnight, before the daily reset, leaves it nothing to change.
ResetInv ==
  /\ up /\ current_date # Today /\ OfToday(last_run) =>
       next_run = calculate_next_run(last_consumed_ticket, last_run)
  /\ loop # "sleep" => current_date = Today

\* From the ticket to the launch.
LoopInv ==
  /\ ~ up => loop = "sleep" /\ run = "none"
  /\ run \in {"finished", "leaving"} => status \in Final
  /\ loop \in {"trace", "launch"} =>
       /\ run = "none" /\ next_run = last_consumed_ticket /\ next_run \in Nat /\ next_run <= now
       /\ (config.schedule_type = "onetime" => Day(next_run) = Today) => next_run \notin used
  /\ loop = "launch" => trace.date = Today /\ (Day(next_run) = Today => trace.ticket = next_run)

TicketInv == PastInv /\ TraceInv /\ NextInv /\ FinishInv /\ ResetInv /\ LoopInv

LEMMA Known ==
  ASSUME Inv
  PROVE  /\ config \in Configs /\ now \in Nat /\ Today \in Nat /\ current_date \in Nat
         /\ last_run \in Tickets /\ last_consumed_ticket \in Tickets /\ next_run \in Nat \cup {Never}
         /\ trace.ticket \in Tickets /\ trace.last_run \in Tickets /\ trace.date \in Int
         /\ data_file.ticket \in Tickets /\ data_file.last_run \in Tickets
         /\ trace.last_run # None => trace.next_run \in Nat \cup {Never}
<1>1. config \in Configs /\ now \in Nat
  BY NowIsNat DEF Inv, TypeOK
<1>2. Today \in Nat
  BY <1>1, DaysAreNat DEF Today
<1>3. QED BY <1>1, <1>2 DEF Inv, TypeOK, FilesTyped, Tickets, Times

\* The calendar stands still while the time and the project do.
LEMMA SameCalendar ==
  ASSUME UNCHANGED <<config, now>>
  PROVE  /\ Today' = Today /\ Repeating' = Repeating
         /\ \A t : (OfSchedule(t)' <=> OfSchedule(t)) /\ (OfToday(t)' <=> OfToday(t))
         /\ \A t, l : calculate_next_run(t, l)' = calculate_next_run(t, l)
<1>1. Today' = Today
  BY DEF Today
<1>2. \A d : Due(d)' = Due(d)
  BY DEF Due
<1>3. \A wd : candidate(wd)' = candidate(wd)
  BY <1>1, <1>2 DEF candidate
<1>4. \A t, l : calculate_next_run(t, l)' = calculate_next_run(t, l)
  BY <1>1, <1>2, <1>3 DEF calculate_next_run, daily_next_run, interval_next_run, onetime_next_run
<1>5. \A t : (OfSchedule(t)' <=> OfSchedule(t)) /\ (OfToday(t)' <=> OfToday(t))
  BY <1>1, <1>2 DEF OfSchedule, OfToday
<1>6. QED BY <1>1, <1>4, <1>5 DEF Repeating

LEMMA DayOfDue == ASSUME config \in Configs, NEW d \in Nat PROVE Day(Due(d)) = d
<1>1. config.run_time \in Nat /\ config.run_time < SlotsPerDay /\ SlotsPerDay \in Nat \ {0}
  BY SessionAssumption
<1>2. (d * SlotsPerDay + config.run_time) \div SlotsPerDay = d
  BY <1>1
<1>3. QED BY <1>2 DEF Day, Due

LEMMA DayBeforeDue ==
  ASSUME config \in Configs, NEW a \in Nat, NEW b \in Nat, a <= b PROVE a * SlotsPerDay <= Due(b)
<1>1. config.run_time \in Nat /\ SlotsPerDay \in Nat
  BY SessionAssumption
<1>2. a * SlotsPerDay <= b * SlotsPerDay /\ a * SlotsPerDay \in Nat /\ b * SlotsPerDay \in Nat
  BY <1>1
<1>3. QED BY <1>1, <1>2 DEF Due

\* A candidate is not before now.
LEMMA CandidateIsAhead ==
  ASSUME config \in Configs, now \in Nat, NEW wd \in config.days
  PROVE  candidate(wd) \in Nat /\ now <= candidate(wd)
<1> DEFINE ahead == (wd - Weekday(Today)) % 7
<1>1. Today \in Nat
  BY DaysAreNat DEF Today
<1>2. wd \in Int /\ Weekday(Today) \in Int
  BY <1>1, SessionAssumption DEF Weekday
<1>3. ahead \in Nat
  BY <1>2
<1>4. Today + ahead + 7 \in Nat /\ Today + ahead \in Nat
  BY <1>1, <1>3
<1>5. CASE Due(Today + ahead) <= now
  <2>1. now < Due(Today + ahead + 7)
    <3>1. Day(now) <= Today /\ Today + 1 <= Today + ahead + 7
      BY <1>1, <1>3 DEF Today
    <3>2. now < (Today + 1) * SlotsPerDay
      BY <1>1, SessionAssumption DEF Today, Day
    <3>3. (Today + 1) * SlotsPerDay <= Due(Today + ahead + 7)
      BY <1>1, <1>4, <3>1, DayBeforeDue
    <3>4. (Today + 1) * SlotsPerDay \in Nat
      BY <1>1, SessionAssumption
    <3>5. Due(Today + ahead + 7) \in Nat
      BY <1>4, DueIsNat
    <3>6. QED BY <3>2, <3>3, <3>4, <3>5
  <2>2. QED BY <1>4, <1>5, <2>1, DueIsNat DEF candidate
<1>6. CASE ~ (Due(Today + ahead) <= now)
  BY <1>4, <1>6, DueIsNat DEF candidate
<1>7. QED BY <1>5, <1>6

\* A calculated next_run is of the schedule, not before today, and no ticket that
\* has been used, unless that one is of today.
LEMMA NextRunIsNew ==
  ASSUME config \in Configs, now \in Nat, NEW ticket \in Tickets, NEW last \in Tickets,
         NEW n, n = calculate_next_run(ticket, last)
  PROVE  /\ n # Never => OfSchedule(n)
         /\ Repeating => /\ n \in Nat /\ Today <= Day(n)
                         /\ \A u \in Nat : u <= now /\ OfSchedule(u) => u <= n /\ (u = n => Day(u) = Today)
<1>1. Today \in Nat
  BY DaysAreNat DEF Today
<1>2. CASE config.schedule_type = "daily"
  <2>1. n \in {Due(Today), Due(Today + 1)}
    BY <1>2 DEF calculate_next_run, daily_next_run
  <2>2. PICK d \in {Today, Today + 1} : n = Due(d)
    BY <2>1
  <2>3. n \in Nat /\ Day(n) = d /\ n = Due(Day(n))
    BY <1>1, <2>2, DueIsNat, DayOfDue
  <2>4. ASSUME NEW u \in Nat, u <= now, u = Due(Day(u)) PROVE u <= n
    <3>1. Day(u) \in Nat /\ Day(u) <= Today
      BY <2>4, DaysInOrder DEF Today
    <3>2. Day(u) <= d /\ d \in Nat
      BY <1>1, <2>2, <3>1
    <3>3. QED BY <2>2, <2>4, <3>1, <3>2, DaysInOrder
  <2>5. ASSUME NEW u \in Nat, u <= now, u = n PROVE Day(u) = Today
    <3>1. Day(u) <= Today
      BY <2>5, DaysInOrder DEF Today
    <3>2. QED BY <1>1, <2>2, <2>3, <2>5, <3>1
  <2>6. Today <= Day(n)
    BY <1>1, <2>2, <2>3
  <2>7. QED BY <1>2, <2>3, <2>4, <2>5, <2>6 DEF OfSchedule
<1>3. ASSUME n \in Nat, now <= n, config.schedule_type \in {"weekly", "interval"}
      PROVE  /\ OfSchedule(n) /\ Today <= Day(n)
             /\ \A u \in Nat : u <= now => u <= n /\ (u = n => Day(u) = Today)
  <2>1. Today <= Day(n)
    BY <1>3, DaysInOrder DEF Today
  <2>2. \A u \in Nat : u <= now => u <= n /\ (u = n => u = now)
    BY <1>3
  <2>3. QED BY <1>3, <2>1, <2>2 DEF OfSchedule, Today
<1>4. CASE config.schedule_type = "weekly"
  <2> DEFINE S == {candidate(wd) : wd \in config.days}
  <2>1. \A wd \in config.days : candidate(wd) \in Nat /\ now <= candidate(wd)
    BY <1>4, CandidateIsAhead
  <2>2. S \in SUBSET Nat /\ S # {} /\ \A s \in S : now <= s
    BY <2>1, SessionAssumption
  <2>3. Min(S) \in Nat /\ now <= Min(S)
    BY <2>2, FirstSlot
  <2>4. n = Min(S)
    BY <1>4 DEF calculate_next_run
  <2>5. QED BY <1>3, <1>4, <2>3, <2>4
<1>5. CASE config.schedule_type = "interval"
  <2>1. n \in Nat /\ now <= n
    BY <1>5, SessionAssumption DEF calculate_next_run, interval_next_run, Tickets
  <2>2. QED BY <1>3, <1>5, <2>1
<1>6. CASE config.schedule_type = "onetime"
  BY <1>6 DEF calculate_next_run, onetime_next_run, OfSchedule, Repeating
<1>7. QED BY <1>2, <1>4, <1>5, <1>6, SessionAssumption
\* What a project that is up may calculate, as long as it knows the ticket of the trace.
LEMMA CalculatedIsNew ==
  ASSUME Inv, PastInv, TraceInv, NEW ticket \in Tickets, NEW last \in Tickets, NEW known,
         trace.date = Today /\ trace.ticket # None => known = trace.ticket,
         NEW n, n = calculate_next_run(ticket, last)
  PROVE  /\ n # Never => OfSchedule(n)
         /\ Repeating => /\ n \in Nat /\ Today <= Day(n)
                         /\ \A u \in Spent : u <= n /\ (u = n => known = u)
<1>1. /\ n # Never => OfSchedule(n)
      /\ Repeating => /\ n \in Nat /\ Today <= Day(n)
                      /\ \A u \in Nat : u <= now /\ OfSchedule(u) => u <= n /\ (u = n => Day(u) = Today)
  BY Known, NextRunIsNew
<1>2. ASSUME Repeating, NEW u \in Spent PROVE u <= n /\ (u = n => known = u)
  <2>1. u <= n /\ (u = n => Day(u) = Today) /\ u \in Nat
    BY <1>1, <1>2 DEF PastInv
  <2>2. ASSUME u = n PROVE known = u
    <3>1. trace.date = Today /\ u <= trace.ticket
      BY <1>2, <2>1, <2>2, Known DEF TraceInv, Spent, Tickets
    <3>2. trace.ticket \in Nat /\ trace.ticket \in Spent
      BY <2>1, <3>1, Known DEF Spent, Tickets, None
    <3>3. trace.ticket <= n
      BY <1>1, <1>2, <3>2 DEF PastInv
    <3>4. trace.ticket = u /\ trace.ticket # None
      BY <1>1, <1>2, <2>1, <2>2, <3>1, <3>2, <3>3 DEF None
    <3>5. QED BY <3>1, <3>4
  <2>3. QED BY <2>1, <2>2
<1>3. QED BY <1>1, <1>2

\* Steps that leave the calendar, the trace, the tickets and next_run alone.
LEMMA QuietKeeps ==
  ASSUME Inv, TicketInv,
         UNCHANGED <<config, now, trace, up, used, last_run, next_run, last_consumed_ticket, current_date, loop>>,
         data_file'.last_run <= now, \A th \in Savers : payload'[th].last_run <= now,
         run = "finished" => run' = "finished",
         run' = "none" => (run = "none" /\ status' = status) \/ status' # "Running",
         LoopInv'
  PROVE  TicketInv'
<1>1. /\ Today' = Today /\ Repeating' = Repeating
      /\ \A t : (OfSchedule(t)' <=> OfSchedule(t)) /\ (OfToday(t)' <=> OfToday(t))
      /\ \A t, l : calculate_next_run(t, l)' = calculate_next_run(t, l)
  BY SameCalendar
<1>2. Spent' = Spent
  BY DEF Spent
<1>3. PastInv'
  BY <1>1, <1>2 DEF TicketInv, PastInv
<1>4. TraceInv'
  BY <1>1 DEF TicketInv, TraceInv
<1>5. NextInv'
  BY <1>1, <1>2 DEF TicketInv, NextInv
<1>6. FinishInv'
  BY <1>1, <1>2 DEF TicketInv, FinishInv, TraceFinish
<1>7. ResetInv'
  BY <1>1 DEF TicketInv, ResetInv
<1>8. QED BY <1>3, <1>4, <1>5, <1>6, <1>7 DEF TicketInv

LEMMA SavesKeepTickets ==
  ASSUME Inv, TicketInv, OtherSave \/ BoundsReached \/ (\E th \in Savers : SaveStep(th)) \/ UNCHANGED vars
  PROVE  TicketInv'
<1> USE DEF Inv
<1>1. \A th \in Savers : payload[th].last_run <= now
  BY DEF TicketInv, PastInv
<1>2. data_file.last_run <= now /\ last_run <= now
  BY DEF TicketInv, PastInv
<1>3. ASSUME UNCHANGED <<config, now, trace, up, used, last_run, next_run, last_consumed_ticket,
                         current_date, loop, run, status>>,
             data_file'.last_run <= now, \A th \in Savers : payload'[th].last_run <= now
      PROVE  TicketInv'
  <2>1. LoopInv'
    BY <1>3, SameCalendar DEF TicketInv, LoopInv
  <2>2. QED BY <1>3, <2>1, QuietKeeps
<1>4. CASE OtherSave \/ BoundsReached \/ UNCHANGED vars
  BY <1>1, <1>2, <1>3, <1>4 DEF OtherSave, BoundsReached, vars, files, project, history
<1>5. ASSUME NEW th \in Savers, DumpProjects(th) PROVE TicketInv'
  <2>1. \A o \in Savers : payload'[o].last_run <= now
    BY <1>1, <1>2, <1>5 DEF DumpProjects, TypeOK
  <2>2. QED BY <1>2, <1>3, <1>5, <2>1 DEF DumpProjects, SaveKeeps, files, project, history
<1>6. ASSUME NEW th \in Savers, WriteDataFile(th) PROVE TicketInv'
  <2>1. \A o \in Savers : payload'[o].last_run <= now
    BY <1>1, <1>6, Known DEF WriteDataFile, TypeOK, NoPayload, None
  <2>2. data_file'.last_run <= now
    BY <1>1, <1>2, <1>6 DEF WriteDataFile
  <2>3. QED BY <1>3, <1>6, <2>1, <2>2 DEF WriteDataFile, SaveKeeps, project, history
<1>7. ASSUME NEW th \in Savers, WriteSessionState(th) PROVE TicketInv'
  BY <1>1, <1>2, <1>3, <1>7 DEF WriteSessionState, SaveKeeps, project, history
<1>8. QED BY <1>4, <1>5, <1>6, <1>7 DEF SaveStep

LEMMA RestartKeepsTickets == ASSUME Inv, TicketInv, Crash \/ Start PROVE TicketInv'
<1> USE DEF Inv
<1>1. /\ Today' = Today /\ Repeating' = Repeating
      /\ \A t : (OfSchedule(t)' <=> OfSchedule(t)) /\ (OfToday(t)' <=> OfToday(t))
      /\ \A t, l : calculate_next_run(t, l)' = calculate_next_run(t, l)
  BY SameCalendar DEF Crash, Start
<1>2. UNCHANGED <<config, now, trace, used, data_file>> /\ Spent' = Spent
  BY DEF Crash, Start, files, history, Spent
<1>2a. TraceFinish' = TraceFinish
  BY <1>1, <1>2 DEF TraceFinish
<1>3. CASE Crash
  <2>1. PastInv'
    <3>1. \A th \in Savers : payload'[th].last_run <= now
      BY <1>3, Known DEF Crash, NoPayload, None
    <3>2. last_run' = last_run
      BY <1>3 DEF Crash, project
    <3>3. QED BY <1>1, <1>2, <3>1, <3>2 DEF TicketInv, PastInv
  <2>2. ~ up' /\ loop' = "sleep" /\ run' = "none"
    BY <1>3 DEF Crash
  <2>3. TraceInv' /\ NextInv' /\ ResetInv' /\ LoopInv'
    BY <1>1, <1>2, <2>2 DEF TicketInv, TraceInv, NextInv, ResetInv, LoopInv
  <2>4. FinishInv'
    BY <1>1, <1>2, <1>2a, <2>2 DEF TicketInv, FinishInv
  <2>5. QED BY <2>1, <2>3, <2>4 DEF TicketInv
<1>4. CASE Start
  <2>1. /\ ~ up /\ up' /\ loop = "sleep" /\ loop' = "sleep" /\ run = "none" /\ run' = "none"
        /\ payload' = payload /\ current_date' = Today
    BY <1>4 DEF Start, TicketInv, LoopInv
  <2>2. trace.date = Today /\ trace.ticket # None => last_consumed_ticket' = trace.ticket
    BY <1>4 DEF Start, LoadData, TraceTicket
  <2>3. /\ TraceFinish => /\ last_run' = trace.last_run /\ next_run' = trace.next_run /\ status' = trace.status
        /\ ~ TraceFinish => /\ last_run' = data_file.last_run
                            /\ next_run' = calculate_next_run(data_file.ticket, data_file.last_run)
    BY <1>4 DEF Start, LoadData
  <2>4. PastInv'
    BY <1>1, <1>2, <2>1, <2>3 DEF TicketInv, PastInv
  <2>5. TraceInv'
    BY <1>1, <1>2, <2>2 DEF TicketInv, TraceInv
  <2>6. ASSUME TraceFinish PROVE NextInv' /\ FinishInv'
    <3>1. trace.date = Today /\ OfToday(trace.last_run) /\ trace.status \in Final
      BY <2>6 DEF TraceFinish, OfToday, TypeOK
    <3>2. \A u \in Spent : u # None
      BY DEF TicketInv, PastInv, None
    <3>3. NextInv'
      BY <1>1, <1>2, <2>2, <2>3, <2>6, <3>1, <3>2 DEF TicketInv, FinishInv, NextInv
    <3>4. status' # "Running"
      BY <2>3, <2>6, <3>1 DEF Final
    <3>5. FinishInv'
      BY <1>1, <1>2, <1>2a, <2>1, <2>3, <2>6, <3>1, <3>4 DEF TicketInv, FinishInv
    <3>6. QED BY <3>3, <3>5
  <2>7. ASSUME ~ TraceFinish PROVE NextInv' /\ FinishInv'
    <3>1. PICK ticket \in Tickets, last \in Tickets : ticket = data_file.ticket /\ last = data_file.last_run
      BY Known
    <3>2. PICK known : known = last_consumed_ticket'
      OBVIOUS
    <3>3. PICK n : n = calculate_next_run(ticket, last)
      OBVIOUS
    <3>4. /\ n # Never => OfSchedule(n)
          /\ Repeating => /\ n \in Nat /\ Today <= Day(n)
                          /\ \A u \in Spent : u <= n /\ (u = n => known = u)
      <4>1. PastInv /\ TraceInv /\ (trace.date = Today /\ trace.ticket # None => known = trace.ticket)
        BY <2>2, <3>2 DEF TicketInv
      <4>2. QED BY <3>3, <4>1, CalculatedIsNew
    <3>5. NextInv'
      BY <1>1, <1>2, <2>3, <2>7, <3>1, <3>2, <3>3, <3>4 DEF NextInv
    <3>6. FinishInv'
      BY <1>2a, <2>7 DEF FinishInv
    <3>7. QED BY <3>5, <3>6
  <2>8. ResetInv' /\ LoopInv'
    BY <1>1, <2>1 DEF ResetInv, LoopInv
  <2>9. QED BY <2>4, <2>5, <2>6, <2>7, <2>8 DEF TicketInv
<1>5. QED BY <1>3, <1>4

\* The daily reset and the healing of a ghost calculate next_run anew, or leave it.
LEMMA ResetKeepsTickets == ASSUME Inv, TicketInv, DailyReset \/ BeginPass PROVE TicketInv'
<1> USE DEF Inv
<1>1. /\ Today' = Today /\ Repeating' = Repeating
      /\ \A t : (OfSchedule(t)' <=> OfSchedule(t)) /\ (OfToday(t)' <=> OfToday(t))
      /\ \A t, l : calculate_next_run(t, l)' = calculate_next_run(t, l)
  BY SameCalendar DEF DailyReset, BeginPass
<1>2. /\ UNCHANGED <<config, now, trace, used, up, last_run, last_consumed_ticket, run, payload, data_file>>
      /\ Spent' = Spent /\ up /\ loop = "sleep" /\ current_date' = Today /\ loop' \in {"sleep", "consider"}
  BY DEF DailyReset, BeginPass, SchedulerReady, files, history, Spent
<1>3. \/ UNCHANGED <<next_run, status>>
      \/ /\ next_run' = calculate_next_run(last_consumed_ticket, last_run)
         /\ status' # "Running" /\ run = "none"
         /\ TraceFinish => next_run' = next_run
  <2>1. CASE DailyReset
    <3>1. TraceFinish /\ run = "none" => next_run = calculate_next_run(last_consumed_ticket, last_run)
      BY <1>2, <2>1 DEF TicketInv, FinishInv, ResetInv, DailyReset
    <3>2. QED BY <2>1, <3>1 DEF DailyReset
  <2>2. CASE BeginPass
    <3>1. TraceFinish /\ run = "none" => status # "Running"
      BY <1>2 DEF TicketInv, FinishInv
    <3>2. QED BY <2>2, <3>1 DEF BeginPass
  <2>3. QED BY <2>1, <2>2
<1>4. PastInv' /\ TraceInv'
  BY <1>1, <1>2 DEF TicketInv, PastInv, TraceInv
<1>5. NextInv'
  <2>1. CASE UNCHANGED <<next_run, status>>
    BY <1>1, <1>2, <2>1 DEF TicketInv, NextInv
  <2>2. CASE next_run' = calculate_next_run(last_consumed_ticket, last_run)
    <3>1. PICK n : n = calculate_next_run(last_consumed_ticket, last_run)
      OBVIOUS
    <3>2. trace.date = Today /\ trace.ticket # None => last_consumed_ticket = trace.ticket
      BY <1>2 DEF TicketInv, TraceInv
    <3>3. /\ n # Never => OfSchedule(n)
          /\ Repeating => /\ n \in Nat /\ Today <= Day(n)
                          /\ \A u \in Spent : u <= n /\ (u = n => last_consumed_ticket = u)
      BY <3>1, <3>2, CalculatedIsNew, Known DEF TicketInv
    <3>4. QED BY <1>1, <1>2, <2>2, <3>1, <3>3 DEF NextInv
  <2>3. QED BY <1>3, <2>1, <2>2
<1>6. FinishInv'
  BY <1>1, <1>2, <1>3 DEF TicketInv, FinishInv, TraceFinish
<1>7. ResetInv'
  BY <1>1, <1>2 DEF ResetInv
<1>8. LoopInv'
  <2>1. run \in {"finished", "leaving"} => status' \in Final
    BY <1>2, <1>3 DEF TicketInv, LoopInv
  <2>2. QED BY <1>2, <2>1 DEF LoopInv
<1>9. QED BY <1>4, <1>5, <1>6, <1>7, <1>8 DEF TicketInv
\* The ticket that is allowed is new: the scheduler consumes, traces and launches it.
LEMMA LaunchKeepsTickets ==
  ASSUME Inv, TicketInv, ConsumeTicket \/ TraceConsumed \/ LaunchScheduled PROVE TicketInv'
<1> USE DEF Inv
<1>1. /\ Today' = Today /\ Repeating' = Repeating
      /\ \A t : (OfSchedule(t)' <=> OfSchedule(t)) /\ (OfToday(t)' <=> OfToday(t))
      /\ \A t, l : calculate_next_run(t, l)' = calculate_next_run(t, l)
  BY SameCalendar DEF ConsumeTicket, TraceConsumed, LaunchScheduled
<1>2. /\ UNCHANGED <<config, now, up, last_run, next_run, status, current_date, data_file, payload>>
      /\ up /\ loop # "sleep" /\ current_date = Today
  BY DEF TicketInv, ResetInv, ConsumeTicket, TraceConsumed, LaunchScheduled, SchedulerReady, files, project
<1>3. ResetInv'
  BY <1>1, <1>2 DEF ResetInv
<1>4. CASE ConsumeTicket
  <2>1. UNCHANGED <<trace, used, run>> /\ Spent' = Spent /\ loop = "consider"
    BY <1>4 DEF ConsumeTicket, SchedulerReady, files, Spent
  <2>2. \/ loop' = "sleep" /\ last_consumed_ticket' = last_consumed_ticket
        \/ loop' = "trace" /\ last_consumed_ticket' = next_run /\ run = "none" /\ TicketAllowed
    BY <1>4 DEF ConsumeTicket
  <2>3. PastInv'
    BY <1>1, <1>2, <2>1 DEF TicketInv, PastInv
  <2>4. TraceInv'
    BY <1>1, <1>2, <2>1, <2>2 DEF TicketInv, TraceInv
  <2>5. NextInv'
    BY <1>1, <1>2, <2>1, <2>2 DEF TicketInv, NextInv
  <2>6. FinishInv'
    BY <1>1, <1>2, <2>1 DEF TicketInv, FinishInv, TraceFinish
  <2>7. ASSUME TicketAllowed, config.schedule_type = "onetime" => Day(next_run) = Today, next_run \in used
        PROVE  FALSE
    <3>1. next_run # Never /\ next_run # last_consumed_ticket /\ next_run \in Spent
      BY <2>7 DEF TicketAllowed, Spent
    <3>2. CASE Repeating
      BY <1>2, <3>1, <3>2 DEF TicketInv, NextInv
    <3>3. CASE ~ Repeating
      <4>1. trace.date = Today /\ next_run <= trace.ticket
        BY <2>7, <3>3 DEF Repeating, TicketInv, TraceInv
      <4>2. trace.ticket # None /\ trace.ticket \in Spent
        BY <3>1, <4>1, Known DEF Tickets, Spent, TicketInv, PastInv, None
      <4>3. trace.ticket = config.date /\ next_run = config.date
        BY <1>2, <3>1, <3>3, <4>2 DEF TicketInv, PastInv, NextInv, OfSchedule, Repeating
      <4>4. QED BY <1>2, <2>1, <3>1, <4>1, <4>2, <4>3 DEF TicketInv, TraceInv
    <3>4. QED BY <3>2, <3>3
  <2>8. TicketAllowed => next_run \in Nat /\ next_run <= now
    BY Known DEF TicketAllowed
  <2>9. LoopInv'
    BY <1>1, <1>2, <2>1, <2>2, <2>7, <2>8 DEF TicketInv, LoopInv
  <2>10. QED BY <1>3, <2>3, <2>4, <2>5, <2>6, <2>9 DEF TicketInv
<1>5. CASE TraceConsumed
  <2>1. /\ UNCHANGED <<used, last_consumed_ticket, run>> /\ loop = "trace" /\ loop' = "launch"
        /\ run = "none" /\ next_run = last_consumed_ticket /\ next_run \in Nat /\ next_run <= now
    BY <1>5 DEF TraceConsumed, SchedulerReady, project, history, TicketInv, LoopInv
  <2>2. /\ trace' = IF Day(next_run) = Today THEN [TraceOfToday EXCEPT !.ticket = next_run] ELSE TraceOfToday
        /\ trace' \in [date : Times, ticket : Times, status : Final \cup {"none"}, last_run : Times, next_run : Times]
    BY <1>5, <2>1, TraceIsTyped DEF TraceConsumed, Times
  <2>3. /\ trace'.date = Today
        /\ trace'.ticket = IF Day(next_run) = Today THEN next_run
                           ELSE IF trace.date = Today THEN trace.ticket ELSE None
        /\ IF trace.date = Today THEN trace'.status = trace.status /\ trace'.last_run = trace.last_run
                                      /\ trace'.next_run = trace.next_run
           ELSE trace'.last_run = None
    BY <2>1, <2>2 DEF TraceOfToday, NoTrace, TypeOK
  <2>4. \A u \in Spent' : u \in Spent \/ (u = next_run /\ Day(next_run) = Today)
    BY <2>1, <2>3 DEF Spent
  <2>5. next_run # Never /\ OfSchedule(next_run)
    BY <1>2, <2>1 DEF TicketInv, NextInv, Never
  <2>6. PastInv'
    <3>1. trace'.last_run <= now
      BY <2>3, Known DEF TicketInv, PastInv, None
    <3>2. \A u \in Spent' : u \in Nat /\ u <= now /\ OfSchedule(u)
      BY <2>1, <2>4, <2>5 DEF TicketInv, PastInv
    <3>3. QED BY <1>1, <1>2, <3>1, <3>2 DEF TicketInv, PastInv
  <2>7. TraceInv'
    <3>1. trace'.ticket # None => Day(trace'.ticket) = trace'.date
      BY <2>3 DEF TicketInv, TraceInv
    <3>2. ASSUME NEW u \in used, Day(u) = Today PROVE u <= trace'.ticket
      <4>1. trace.date = Today /\ u <= trace.ticket
        BY <3>2 DEF TicketInv, TraceInv
      <4>2. CASE Day(next_run) = Today
        <5>1. CASE Repeating
          BY <1>2, <2>3, <4>2, <5>1 DEF TicketInv, NextInv, Spent
        <5>2. CASE ~ Repeating
          <6>1. u = config.date /\ next_run = config.date /\ config.date \in Nat
            BY <2>5, <5>2, Known, SessionAssumption DEF TicketInv, PastInv, Spent, OfSchedule, Repeating
          <6>2. QED BY <2>3, <4>2, <6>1
        <5>3. QED BY <5>1, <5>2
      <4>3. CASE Day(next_run) # Today
        BY <2>3, <4>1, <4>3
      <4>4. QED BY <4>2, <4>3
    <3>3. ASSUME trace'.ticket # None PROVE last_consumed_ticket = trace'.ticket
      <4>1. CASE Day(next_run) = Today
        BY <2>1, <2>3, <4>1
      <4>2. CASE Day(next_run) # Today
        <5>1. trace.date = Today /\ trace.ticket # None /\ Day(trace.ticket) = Today
          BY <2>3, <3>3, <4>2 DEF TicketInv, TraceInv
        <5>2. trace.ticket \in Spent /\ trace.ticket \in Nat /\ OfSchedule(trace.ticket)
          BY <5>1 DEF Spent, TicketInv, PastInv
        <5>3. CASE Repeating
          <6>1. trace.ticket <= next_run
            BY <1>2, <5>2, <5>3 DEF TicketInv, NextInv
          <6>2. Day(trace.ticket) <= Day(next_run) /\ Day(next_run) <= Day(now) /\ Day(next_run) \in Nat
            BY <2>1, <5>2, <6>1, Known, DaysInOrder
          <6>3. QED BY <4>2, <5>1, <6>2, Known DEF Today
        <5>4. CASE ~ Repeating
          BY <2>5, <4>2, <5>1, <5>2, <5>4, Known, SessionAssumption DEF OfSchedule, Repeating
        <5>5. QED BY <5>3, <5>4
      <4>3. QED BY <4>1, <4>2
    <3>4. QED BY <1>1, <2>1, <2>3, <3>1, <3>2, <3>3, Known DEF TraceInv
  <2>8. NextInv'
    BY <1>1, <1>2, <2>1, <2>4 DEF TicketInv, NextInv
  <2>9. FinishInv'
    <3>1. TraceFinish' => TraceFinish /\ trace.date = Today /\ trace'.next_run = trace.next_run
      BY <1>1, <2>3 DEF TraceFinish
    <3>2. SUFFICES ASSUME TraceFinish, trace.date = Today, trace'.next_run = trace.next_run PROVE FinishInv'
      BY <3>1 DEF FinishInv
    <3>3. next_run = trace.next_run
      BY <1>2, <2>1, <3>2 DEF TicketInv, FinishInv
    <3>4. ASSUME Repeating, NEW u \in Spent' PROVE u <= trace.next_run /\ (u = trace.next_run => trace'.ticket = u)
      <4>1. CASE u = next_run /\ Day(next_run) = Today
        BY <2>1, <2>3, <3>3, <4>1
      <4>2. CASE u \in Spent
        <5>1. u <= trace.next_run /\ (u = trace.next_run => trace.ticket = u)
          BY <3>2, <3>4, <4>2 DEF TicketInv, FinishInv
        <5>2. QED BY <2>3, <3>2, <3>3, <5>1
      <4>3. QED BY <2>4, <3>4, <4>1, <4>2
    <3>5. QED BY <1>1, <1>2, <2>1, <3>2, <3>3, <3>4 DEF TicketInv, FinishInv
  <2>10. LoopInv'
    BY <1>1, <1>2, <2>1, <2>3 DEF TicketInv, LoopInv
  <2>11. QED BY <1>3, <2>6, <2>7, <2>8, <2>9, <2>10 DEF TicketInv
<1>6. CASE LaunchScheduled
  <2>1. /\ UNCHANGED <<trace, last_consumed_ticket>> /\ loop = "launch" /\ loop' = "sleep"
        /\ run = "none" /\ run' = "created" /\ used' = used \cup {next_run}
        /\ next_run = last_consumed_ticket /\ next_run \in Nat /\ next_run <= now
        /\ trace.date = Today /\ (Day(next_run) = Today => trace.ticket = next_run)
    BY <1>6 DEF LaunchScheduled, SchedulerReady, files, project, TicketInv, LoopInv
  <2>2. Spent' = Spent \cup {next_run}
    BY <2>1 DEF Spent
  <2>3. next_run # Never /\ OfSchedule(next_run)
    BY <1>2, <2>1 DEF TicketInv, NextInv, Never
  <2>4. PastInv'
    BY <1>1, <1>2, <2>1, <2>2, <2>3 DEF TicketInv, PastInv
  <2>5. TraceInv'
    BY <1>1, <1>2, <2>1 DEF TicketInv, TraceInv
  <2>6. NextInv'
    BY <1>1, <1>2, <2>1, <2>2 DEF TicketInv, NextInv
  <2>7. FinishInv'
    <3>1. TraceFinish' = TraceFinish
      BY <1>1, <2>1 DEF TraceFinish
    <3>2. ASSUME TraceFinish, Repeating
          PROVE  next_run <= trace.next_run /\ (next_run = trace.next_run => trace.ticket = next_run)
      <4>1. next_run = trace.next_run /\ Today <= Day(trace.next_run)
        BY <1>2, <2>1, <3>2 DEF TicketInv, FinishInv
      <4>2. Day(next_run) <= Day(now) /\ Day(next_run) \in Nat
        BY <2>1, Known, DaysInOrder
      <4>3. Day(next_run) = Today
        BY <4>1, <4>2, Known DEF Today
      <4>4. QED BY <2>1, <4>1, <4>3
    <3>3. QED BY <1>1, <1>2, <2>1, <2>2, <3>1, <3>2 DEF TicketInv, FinishInv
  <2>8. LoopInv'
    BY <1>2, <2>1 DEF TicketInv, LoopInv
  <2>9. QED BY <1>3, <2>4, <2>5, <2>6, <2>7, <2>8 DEF TicketInv
<1>7. QED BY <1>4, <1>5, <1>6

\* A run begins and leaves; its worker calculates next_run and traces it.
LEMMA RunKeepsTickets == ASSUME Inv, TicketInv, EndIsFinal, LaunchManual \/ Worker PROVE TicketInv'
<1> USE DEF Inv
<1>1. /\ Today' = Today /\ Repeating' = Repeating
      /\ \A t : (OfSchedule(t)' <=> OfSchedule(t)) /\ (OfToday(t)' <=> OfToday(t))
      /\ \A t, l : calculate_next_run(t, l)' = calculate_next_run(t, l)
  BY SameCalendar DEF LaunchManual, Worker, BeginRun, FinishRun, TraceFinished, EndRun
<1>2. /\ UNCHANGED <<config, now, up, current_date, data_file, payload, used, last_consumed_ticket, loop>>
      /\ up /\ loop \notin {"trace", "launch"}
  BY DEF LaunchManual, Worker, BeginRun, FinishRun, TraceFinished, EndRun, WorkerReady, files, project, history,
         TicketInv, LoopInv
<1>3. data_file'.last_run <= now /\ \A th \in Savers : payload'[th].last_run <= now
  BY <1>2 DEF TicketInv, PastInv
<1>4. CASE LaunchManual \/ BeginRun \/ EndRun
  <2>1. UNCHANGED <<trace, last_run, next_run>>
    BY <1>4 DEF LaunchManual, BeginRun, EndRun, files, project, history
  <2>2. /\ run \notin {"finished"} /\ run' \in {"none", "created", "running"}
        /\ run' = "none" => status' # "Running"
    BY <1>4 DEF LaunchManual, BeginRun, EndRun, WorkerReady, project, TicketInv, LoopInv, Final
  <2>3. LoopInv'
    BY <1>2, <2>2 DEF LoopInv
  <2>4. QED BY <1>2, <1>3, <2>1, <2>2, <2>3, QuietKeeps
<1>5. CASE FinishRun
  <2>1. UNCHANGED trace /\ Spent' = Spent /\ run' = "finished" /\ status' \in Final
    BY <1>5 DEF FinishRun, files, history, Spent, Final
  <2>2. \/ UNCHANGED <<last_run, next_run>>
        \/ last_run' = now /\ next_run' = calculate_next_run(last_consumed_ticket, now)
    BY <1>5 DEF FinishRun
  <2>3. PastInv'
    BY <1>1, <1>2, <1>3, <2>1, <2>2, Known DEF TicketInv, PastInv
  <2>4. TraceInv'
    BY <1>1, <1>2, <2>1 DEF TicketInv, TraceInv
  <2>5. NextInv'
    <3>1. CASE UNCHANGED <<last_run, next_run>>
      BY <1>1, <1>2, <2>1, <3>1 DEF TicketInv, NextInv
    <3>2. CASE next_run' = calculate_next_run(last_consumed_ticket, now)
      <4>1. PICK n : n = calculate_next_run(last_consumed_ticket, now)
        OBVIOUS
      <4>2. now \in Tickets /\ (trace.date = Today /\ trace.ticket # None => last_consumed_ticket = trace.ticket)
        BY <1>2, Known DEF TicketInv, TraceInv, Tickets
      <4>3. /\ n # Never => OfSchedule(n)
            /\ Repeating => /\ n \in Nat /\ Today <= Day(n)
                            /\ \A u \in Spent : u <= n /\ (u = n => last_consumed_ticket = u)
        BY <4>1, <4>2, CalculatedIsNew, Known DEF TicketInv
      <4>4. QED BY <1>1, <1>2, <2>1, <3>2, <4>1, <4>3 DEF NextInv
    <3>3. QED BY <2>2, <3>1, <3>2
  <2>6. FinishInv'
    <3>1. TraceFinish' = TraceFinish
      BY <1>1, <2>1 DEF TraceFinish
    <3>2. OfToday(now)
      BY Known DEF OfToday, Today, None
    <3>3. TraceFinish => OfToday(last_run')
      BY <1>2, <2>2, <3>2 DEF TicketInv, FinishInv
    <3>4. QED BY <1>1, <1>2, <2>1, <3>1, <3>3 DEF TicketInv, FinishInv
  <2>7. ResetInv'
    BY <1>1, <1>2, <2>2 DEF TicketInv, ResetInv
  <2>8. LoopInv'
    BY <1>2, <2>1 DEF LoopInv
  <2>9. QED BY <2>3, <2>4, <2>5, <2>6, <2>7, <2>8 DEF TicketInv
<1>6. CASE TraceFinished
  <2>1. UNCHANGED <<last_run, next_run, status>> /\ run = "finished" /\ run' = "leaving" /\ status \in Final
    BY <1>6 DEF TraceFinished, WorkerReady, project, EndIsFinal
  <2>2. /\ trace'.date = Today
        /\ trace'.ticket = IF trace.date = Today THEN trace.ticket ELSE None
        /\ trace'.status = status /\ trace'.last_run = last_run /\ trace'.next_run = next_run
    BY <1>6 DEF TraceFinished, TraceOfToday, NoTrace, TypeOK
  <2>3. Spent' \subseteq Spent
    BY <1>2, <2>2 DEF Spent
  <2>4. PastInv'
    BY <1>1, <1>2, <1>3, <2>1, <2>2, <2>3 DEF TicketInv, PastInv
  <2>5. TraceInv'
    BY <1>1, <1>2, <2>2, Known DEF TicketInv, TraceInv
  <2>6. NextInv'
    BY <1>1, <1>2, <2>1, <2>3 DEF TicketInv, NextInv
  <2>7. FinishInv'
    <3>1. TraceFinish' => OfToday(last_run)
      BY <1>1, <2>2 DEF TraceFinish, OfToday
    <3>2. SUFFICES ASSUME OfToday(last_run) PROVE FinishInv'
      BY <3>1 DEF FinishInv
    <3>3. ASSUME Repeating
          PROVE  /\ next_run \in Nat /\ Today <= Day(next_run)
                 /\ \A u \in Spent' : u <= next_run /\ (u = next_run => trace'.ticket = u)
      <4>1. next_run \in Nat /\ Today <= Day(next_run) /\ \A u \in Spent : u <= next_run
        BY <1>2, <3>2, <3>3 DEF TicketInv, NextInv
      <4>2. ASSUME NEW u \in Spent, u = next_run PROVE trace'.ticket = u
        <5>1. u <= now /\ u \in Nat
          BY <4>2 DEF TicketInv, PastInv
        <5>2. Day(u) <= Day(now) /\ Day(u) \in Nat
          BY <5>1, Known, DaysInOrder
        <5>3. Day(u) = Today
          BY <4>1, <4>2, <5>2, Known DEF Today
        <5>4. trace.date = Today /\ u <= trace.ticket
          BY <4>1, <4>2, <5>3, Known DEF TicketInv, TraceInv, Spent, Tickets
        <5>5. trace.ticket \in Nat /\ trace.ticket \in Spent
          BY <5>1, <5>4, Known DEF Tickets, Spent, None
        <5>6. trace.ticket <= u
          BY <4>1, <4>2, <5>5
        <5>7. QED BY <2>2, <5>1, <5>4, <5>5, <5>6
      <4>3. QED BY <2>3, <4>1, <4>2
    <3>4. status # "Running"
      BY <2>1 DEF Final
    <3>5. next_run # Never => OfSchedule(next_run)
      BY <1>2 DEF TicketInv, NextInv
    <3>6. QED BY <1>1, <1>2, <2>1, <2>2, <3>2, <3>3, <3>4, <3>5 DEF FinishInv
  <2>8. ResetInv'
    BY <1>1, <1>2, <2>1 DEF TicketInv, ResetInv
  <2>9. LoopInv'
    BY <1>2, <2>1 DEF LoopInv
  <2>10. QED BY <2>4, <2>5, <2>6, <2>7, <2>8, <2>9 DEF TicketInv
<1>7. QED BY <1>4, <1>5, <1>6 DEF Worker

\* A day after: what was of today is no more.
LEMMA TickKeepsTickets == ASSUME Inv, TicketInv, Tick PROVE TicketInv'
<1> USE DEF Inv
<1>1. PICK later \in Nat, today \in Nat : later = now' /\ today = Today' /\ now <= later /\ Today <= today
  <2>1. now + 1 \in Nat /\ now <= now + 1 /\ Day(now + 1) \in Nat /\ Day(now) <= Day(now + 1)
    BY Known, DaysInOrder
  <2>2. now' = now + 1 /\ Today' = Day(now + 1)
    BY DEF Tick, Today
  <2>3. QED BY <2>1, <2>2 DEF Today
<1>2. /\ UNCHANGED <<config, data_file, trace, up, status, last_run, next_run, last_consumed_ticket, current_date,
                     loop, run, payload, used>>
      /\ Spent' = Spent /\ Repeating' = Repeating
      /\ \A t : OfSchedule(t)' <=> OfSchedule(t)
      /\ up => loop = "sleep" /\ current_date = Today
  BY DEF Tick, SchedulerReady, files, project, Spent, Repeating, OfSchedule, Due, Day
<1>3. \A t \in Nat : t <= now => Day(t) <= Today
  BY Known, DaysInOrder DEF Today
<1>4. OfToday(last_run)' => today = Today /\ OfToday(last_run)
  <2>1. last_run \in Nat \cup {None} /\ last_run <= now
    BY Known DEF TicketInv, PastInv, Tickets
  <2>2. last_run # None => Day(last_run) \in Nat /\ Day(last_run) <= Today
    BY <1>3, <2>1, DaysAreNat
  <2>3. QED BY <1>1, <1>2, <2>2, Known DEF OfToday
<1>5. trace.date = today => today = Today
  BY <1>1, Known DEF TicketInv, TraceInv
<1>6. TraceFinish' => today = Today /\ TraceFinish
  BY <1>1, <1>2, <1>5 DEF TraceFinish
<1>7. PastInv'
  <2>1. \A t \in {last_run, data_file.last_run, trace.last_run} : t \in Int
    BY Known DEF Tickets, None
  <2>2. \A th \in Savers : payload[th].last_run \in Int
    BY DEF FilesTyped, Tickets, None
  <2>3. QED BY <1>1, <1>2, <2>1, <2>2, Known DEF TicketInv, PastInv
<1>8. TraceInv'
  <2>1. ASSUME NEW u \in used, Day(u) = today PROVE today = Today
    <3>1. u \in Nat /\ u <= now
      BY <2>1 DEF TicketInv, PastInv, Spent
    <3>2. QED BY <1>1, <1>3, <2>1, <3>1, Known
  <2>2. QED BY <1>1, <1>2, <1>5, <2>1, Known DEF TicketInv, TraceInv
<1>9. NextInv'
  BY <1>1, <1>2, <1>4 DEF TicketInv, NextInv
<1>10. FinishInv'
  <2>1. SUFFICES ASSUME today = Today, TraceFinish PROVE FinishInv'
    BY <1>6 DEF FinishInv
  <2>2. OfToday(last_run)' <=> OfToday(last_run)
    BY <1>1, <1>2, <2>1 DEF OfToday
  <2>3. QED BY <1>1, <1>2, <2>1, <2>2 DEF TicketInv, FinishInv
<1>11. ResetInv'
  <2>1. up /\ OfToday(last_run)' => current_date = today
    BY <1>2, <1>4
  <2>2. loop # "sleep" => FALSE
    BY <1>2 DEF TicketInv, LoopInv
  <2>3. QED BY <1>1, <1>2, <2>1, <2>2 DEF ResetInv
<1>12. LoopInv'
  BY <1>2 DEF TicketInv, LoopInv
<1>13. QED BY <1>7, <1>8, <1>9, <1>10, <1>11, <1>12 DEF TicketInv

LEMMA TicketInvInit == Init => TicketInv
<1> SUFFICES ASSUME Init PROVE TicketInv
  OBVIOUS
<1>1. Spent = {} /\ used = {}
  BY DEF Init, Spent, NoTrace
<1>2. Today \in Nat
  BY DaysAreNat DEF Init, Today
<1>3. \A th \in Savers : payload[th].last_run <= now
  BY DEF Init, NoPayload, None
<1>4. PastInv /\ TraceInv
  BY <1>1, <1>2, <1>3 DEF Init, PastInv, TraceInv, NoTrace, NoPayload, None
<1>5. QED BY <1>4 DEF Init, TicketInv, NextInv, FinishInv, TraceFinish, NoTrace, ResetInv, LoopInv

LEMMA TicketInvNext == ASSUME Inv, TicketInv, EndIsFinal, [Next]_vars PROVE TicketInv'
  BY SavesKeepTickets, RestartKeepsTickets, ResetKeepsTickets, LaunchKeepsTickets, RunKeepsTickets,
     TickKeepsTickets DEF Next, Scheduler

\* Whatever crashes, failed writes, saves of other threads and manual runs there are, a
\* ticket starts one run; of one-time tickets, those that are launched on their own day.
THEOREM OneRunPerTicket == Spec => TicketRunsOnce
<1>1. ASSUME Inv, TicketInv, EndIsFinal, [Next]_vars PROVE TicketInv'
  BY <1>1, TicketInvNext
<1>2. ASSUME TicketInv
      PROVE  LaunchScheduled /\ (config.schedule_type = "onetime" => Day(last_consumed_ticket) = Today)
               => last_consumed_ticket \notin used
  BY <1>2 DEF TicketInv, LoopInv, LaunchScheduled, SchedulerReady
<1>3. QED BY <1>1, <1>2, TicketInvInit, InvHolds, PTL DEF Spec, TicketRunsOnce
-----------------------------------------------------------------------------
(* The days on which a project is tried.                                     *)

\* A ticket or a run of today, in memory or in a file, is one that was tried.
Tried == {t \in Tickets : t <= now /\ (OfToday(t) => attempted)}
TriedInv ==
  /\ last_consumed_ticket \in Tried /\ data_file.ticket \in Tried /\ session_state.ticket \in Tried
  /\ trace.ticket \in Tried
  /\ last_run \in Tried /\ data_file.last_run \in Tried /\ trace.last_run \in Tried
  /\ \A th \in Savers : payload[th].ticket \in Tried /\ payload[th].last_run \in Tried
  /\ session_state.date <= Today
  /\ session_state.date = Today /\ session_state.status = "Running" => attempted
  /\ up /\ status = "Running" => attempted
  /\ run \in {"running", "finished", "leaving"} \/ loop \in {"trace", "launch"} => attempted

\* A pass leaves no ghost.
GhostInv == up /\ checked = now /\ status = "Running" => run \in {"created", "running"}

\* The days on which a project is tried: a daily one every day, the others on those
\* that the process has seen begin.
SureDay == config.schedule_type = "daily" \/ up_since < Today * SlotsPerDay
SureSlot(t) == Scheduled(t) /\ Day(t) = Today /\ ~ (config.schedule_type = "weekly" /\ config.run_time = 0)

\* The slot of such a day is the next run until a run is tried, and a pass tries it.
DayInv ==
  /\ up /\ current_date # Today =>
       checked # now /\ (up_since < Today * SlotsPerDay => now = Today * SlotsPerDay)
  /\ up /\ current_date = Today /\ SureDay =>
       \A t \in Nat : SureSlot(t) =>
         attempted \/ run = "created" \/ (status = "Waiting" /\ run = "none" /\ next_run = t)
  /\ up /\ loop = "sleep" /\ checked = now /\ SureDay =>
       \A t \in Nat : SureSlot(t) /\ t <= now => attempted \/ run = "created"

AttemptInv == TriedInv /\ GhostInv /\ DayInv

\* The calendar of the scheduled slots stands still too.
LEMMA SameSlots ==
  ASSUME UNCHANGED <<config, now>>
  PROVE  /\ \A t : (SureSlot(t)' <=> SureSlot(t))
         /\ UNCHANGED up_since => (SureDay' <=> SureDay)
         /\ (attempted => attempted') => Tried \subseteq Tried'
<1>1. Today' = Today
  BY DEF Today
<1>2. \A t : Scheduled(t)' <=> Scheduled(t)
  BY DEF Scheduled, Weekday
<1>3. \A t : OfToday(t)' <=> OfToday(t)
  BY <1>1 DEF OfToday
<1>4. QED BY <1>1, <1>2, <1>3 DEF SureSlot, SureDay, Tried

\* The day changes with the slot after its last, which no slot of the day is after.
LEMMA NextDay ==
  ASSUME NEW t \in Nat, Day(t + 1) # Day(t)
  PROVE  /\ t + 1 = Day(t + 1) * SlotsPerDay
         /\ config \in Configs => Due(Day(t)) <= t
<1> DEFINE q == t \div SlotsPerDay
           r == t % SlotsPerDay
<1>1. SlotsPerDay \in Nat \ {0}
  BY SessionAssumption
<1>2. q \in Nat /\ r \in Nat /\ r < SlotsPerDay /\ t = q * SlotsPerDay + r /\ Day(t) = q /\ q * SlotsPerDay \in Nat
  BY <1>1 DEF Day
<1> HIDE DEF q, r
<1>3. r + 1 = SlotsPerDay
  <2> SUFFICES ASSUME r + 1 < SlotsPerDay PROVE FALSE
    BY <1>1, <1>2
  <2>1. (q * SlotsPerDay + (r + 1)) \div SlotsPerDay = q
    BY <1>1, <1>2
  <2>2. t + 1 = q * SlotsPerDay + (r + 1)
    BY <1>2
  <2>3. QED BY <1>2, <2>1, <2>2 DEF Day
<1>4. t + 1 = (q + 1) * SlotsPerDay
  BY <1>1, <1>2, <1>3
<1>5. ((q + 1) * SlotsPerDay) \div SlotsPerDay = q + 1
  BY <1>1, <1>2
<1>6. Day(t + 1) = q + 1
  BY <1>4, <1>5 DEF Day
<1>7. config \in Configs => config.run_time \in Nat /\ config.run_time <= r
  BY <1>1, <1>2, <1>3, SessionAssumption
<1>8. QED BY <1>2, <1>4, <1>6, <1>7 DEF Due

\* A slot of today is at or after midnight.
LEMMA MidnightFirst ==
  ASSUME now \in Nat
  PROVE  Today * SlotsPerDay <= now /\ \A t \in Today * SlotsPerDay .. now : t \in Nat /\ Day(t) = Today
<1>1. SlotsPerDay \in Nat \ {0}
  BY SessionAssumption
<1>2. Today \in Nat /\ Today * SlotsPerDay \in Nat /\ Today * SlotsPerDay <= now
  BY <1>1 DEF Today, Day
<1>3. Day(Today * SlotsPerDay) = Today
  BY <1>1, <1>2 DEF Day
<1>4. ASSUME NEW t \in Today * SlotsPerDay .. now PROVE t \in Nat /\ Day(t) = Today
  <2>1. t \in Nat /\ Today * SlotsPerDay <= t /\ t <= now
    BY <1>2
  <2>2. Day(Today * SlotsPerDay) <= Day(t) /\ Day(t) <= Day(now) /\ Day(t) \in Nat
    BY <1>2, <2>1, DaysInOrder
  <2>3. QED BY <1>2, <1>3, <2>1, <2>2 DEF Today
<1>5. QED BY <1>2, <1>4

LEMMA TriedInvNext == ASSUME Inv, TicketInv, TriedInv, GhostInv, EndIsFinal, [Next]_vars PROVE TriedInv'
<1> USE DEF Inv
<1>1. ASSUME UNCHANGED <<config, now>>, attempted => attempted' PROVE Today' = Today /\ Tried \subseteq Tried'
  BY <1>1, SameSlots, SameCalendar
<1>2. None \in Tried /\ NoPayload.ticket = None /\ NoPayload.last_run = None /\ NoSession.ticket = None
  BY Known DEF Tried, Tickets, OfToday, NoPayload, NoSession, None
<1>3. ASSUME UNCHANGED <<config, now, trace, last_run, last_consumed_ticket>>, attempted => attempted',
             UNCHANGED session_state,
             data_file'.ticket \in Tried, data_file'.last_run \in Tried,
             \A th \in Savers : payload'[th].ticket \in Tried /\ payload'[th].last_run \in Tried,
             up' /\ status' = "Running" => attempted',
             run' \in {"running", "finished", "leaving"} \/ loop' \in {"trace", "launch"} => attempted'
      PROVE  TriedInv'
  <2>1. Today' = Today /\ Tried \subseteq Tried'
    BY <1>1, <1>3
  <2>2. QED BY <1>3, <2>1 DEF TriedInv
<1>4. ASSUME UNCHANGED <<config, now, trace, last_run, last_consumed_ticket, session_state, data_file, payload>>,
             attempted => attempted',
             up' /\ status' = "Running" => attempted',
             run' \in {"running", "finished", "leaving"} \/ loop' \in {"trace", "launch"} => attempted'
      PROVE  TriedInv'
  <2>1. Today' = Today /\ Tried \subseteq Tried'
    BY <1>1, <1>4
  <2>2. QED BY <1>4, <2>1 DEF TriedInv
<1>5. CASE OtherSave \/ BoundsReached \/ UNCHANGED vars
  <2>1. UNCHANGED <<config, now, trace, last_run, last_consumed_ticket, session_state, data_file, payload,
                    attempted, up, status, run, loop>>
    BY <1>5 DEF OtherSave, BoundsReached, vars, files, project, history
  <2>2. QED BY <1>4, <2>1 DEF TriedInv
<1>6. ASSUME NEW th \in Savers, DumpProjects(th) PROVE TriedInv'
  <2>1. payload' = [payload EXCEPT ![th] =
           [status |-> status, last_run |-> last_run, ticket |-> last_consumed_ticket]]
    BY <1>6 DEF DumpProjects
  <2>2. \A o \in Savers : payload'[o].ticket \in Tried /\ payload'[o].last_run \in Tried
    BY <2>1 DEF TypeOK, TriedInv
  <2>3. UNCHANGED <<config, now, trace, last_run, last_consumed_ticket, session_state, data_file,
                    attempted, up, status, run, loop>>
    BY <1>6 DEF DumpProjects, SaveKeeps, files, project, history
  <2>4. QED BY <1>3, <2>2, <2>3 DEF TriedInv
<1>7. ASSUME NEW th \in Savers, WriteDataFile(th) PROVE TriedInv'
  <2>1. payload' = [payload EXCEPT ![th] = NoPayload] /\ data_file' \in {data_file, payload[th]}
    BY <1>7 DEF WriteDataFile
  <2>2. \A o \in Savers : payload'[o].ticket \in Tried /\ payload'[o].last_run \in Tried
    BY <1>2, <2>1 DEF TypeOK, TriedInv
  <2>3. data_file'.ticket \in Tried /\ data_file'.last_run \in Tried
    BY <2>1 DEF TriedInv
  <2>4. UNCHANGED <<config, now, trace, last_run, last_consumed_ticket, session_state,
                    attempted, up, status, run, loop>>
    BY <1>7 DEF WriteDataFile, SaveKeeps, project, history
  <2>5. QED BY <1>3, <2>2, <2>3, <2>4 DEF TriedInv
<1>8. ASSUME NEW th \in Savers, WriteSessionState(th), up PROVE TriedInv'
  <2>1. UNCHANGED <<config, now, trace, last_run, last_consumed_ticket, data_file, payload,
                    attempted, up, status, run, loop>>
    BY <1>8 DEF WriteSessionState, SaveKeeps, project, history
  <2>2. Today' = Today /\ Tried \subseteq Tried'
    BY <1>1, <2>1
  <2>3. CASE UNCHANGED session_state
    BY <1>4, <2>1, <2>3 DEF TriedInv
  <2>4. CASE session_state' = [date |-> Today, status |-> status, ticket |-> last_consumed_ticket]
    <3>1. session_state'.date = Today /\ session_state'.status = status /\ session_state'.ticket = last_consumed_ticket
      BY <2>4
    <3>2. Today \in Nat
      BY Known
    <3>3. QED BY <1>8, <2>1, <2>2, <3>1, <3>2 DEF TriedInv
  <2>5. QED BY <1>8, <2>3, <2>4 DEF WriteSessionState
<1>9. CASE Crash
  <2>1. payload' = [o \in Savers |-> NoPayload]
    BY <1>9 DEF Crash
  <2>2. \A o \in Savers : payload'[o].ticket \in Tried /\ payload'[o].last_run \in Tried
    BY <1>2, <2>1
  <2>3. /\ UNCHANGED <<config, now, trace, last_run, last_consumed_ticket, session_state, data_file, attempted>>
        /\ ~ up' /\ run' = "none" /\ loop' = "sleep"
    BY <1>9 DEF Crash, files, project, history
  <2>4. QED BY <1>3, <2>2, <2>3 DEF TriedInv
<1>10. CASE Start
  <2>1. /\ UNCHANGED <<config, now, trace, data_file, payload, attempted, loop, run>>
        /\ loop = "sleep" /\ run = "none"
        /\ last_consumed_ticket' \in {trace.ticket, session_state.ticket, data_file.ticket}
        /\ last_run' \in {trace.last_run, data_file.last_run}
        /\ session_state' \in {session_state, NoSession}
    BY <1>10 DEF Start, LoadData, TraceTicket, SavedTicket, TicketInv, LoopInv
  <2>2. Today' = Today /\ Tried \subseteq Tried'
    BY <1>1, <2>1
  <2>3. status' = "Running" => attempted
    <3>1. TraceFinish => trace.status # "Running"
      BY DEF TraceFinish, TypeOK, Final
    <3>2. SessionOfToday /\ SessionStatus = "Running" => session_state.date = Today /\ session_state.status = "Running"
      BY DEF SessionOfToday, SessionStatus
    <3>3. InitialStatus = "Running" => OfToday(data_file.last_run)
      BY DEF InitialStatus, OfToday
    <3>4. QED BY <1>10, <3>1, <3>2, <3>3 DEF Start, LoadData, TriedInv, Tried
  <2>4. last_consumed_ticket' \in Tried /\ last_run' \in Tried /\ session_state'.ticket \in Tried
    BY <1>2, <2>1 DEF TriedInv
  <2>5. /\ session_state'.date <= Today
        /\ session_state'.date = Today /\ session_state'.status = "Running" => attempted
    BY <2>1, Known DEF TriedInv, NoSession, None
  <2>6. QED BY <2>1, <2>2, <2>3, <2>4, <2>5 DEF TriedInv
<1>11. CASE DailyReset \/ BeginPass
  <2>1. /\ UNCHANGED <<config, now, trace, last_run, last_consumed_ticket, session_state, data_file, payload,
                       attempted, up, run>>
        /\ (status' = "Running" => status = "Running") /\ loop' \in {"sleep", "consider"}
    BY <1>11 DEF DailyReset, BeginPass, SchedulerReady, files, history
  <2>2. QED BY <1>4, <2>1 DEF TriedInv
<1>12. CASE ConsumeTicket
  <2>1. /\ UNCHANGED <<config, now, trace, data_file, session_state, payload, last_run, up, status, run>>
        /\ \/ UNCHANGED <<last_consumed_ticket, attempted>> /\ loop' = "sleep"
           \/ last_consumed_ticket' = next_run /\ attempted' = TRUE /\ next_run <= now /\ next_run \in Nat
    BY <1>12, Known DEF ConsumeTicket, TicketAllowed, files
  <2>2. Today' = Today /\ Tried \subseteq Tried'
    BY <1>1, <2>1
  <2>3. last_consumed_ticket' \in Tried'
    <3>1. attempted' = TRUE /\ next_run <= now /\ next_run \in Nat => next_run \in Tried'
      BY <2>1 DEF Tried, Tickets
    <3>2. QED BY <2>1, <2>2, <3>1 DEF TriedInv
  <2>4. up' /\ status' = "Running" => attempted'
    BY <2>1 DEF TriedInv
  <2>5. run' \in {"running", "finished", "leaving"} \/ loop' \in {"trace", "launch"} => attempted'
    BY <2>1 DEF TriedInv
  <2>6. QED BY <2>1, <2>2, <2>3, <2>4, <2>5 DEF TriedInv
<1>13. CASE TraceConsumed
  <2>1. /\ UNCHANGED <<config, now, data_file, session_state, payload, last_run, last_consumed_ticket, up, status,
                       run, attempted>>
        /\ loop = "trace" /\ next_run = last_consumed_ticket
    BY <1>13 DEF TraceConsumed, SchedulerReady, project, history, TicketInv, LoopInv
  <2>2. trace'.ticket \in {next_run, trace.ticket, None} /\ trace'.last_run \in {trace.last_run, None}
    BY <1>13 DEF TraceConsumed, TraceOfToday, NoTrace, TypeOK
  <2>3. Today' = Today /\ Tried \subseteq Tried'
    BY <1>1, <2>1
  <2>4. trace'.ticket \in Tried /\ trace'.last_run \in Tried
    BY <1>2, <2>1, <2>2 DEF TriedInv
  <2>5. QED BY <2>1, <2>3, <2>4 DEF TriedInv
<1>14. CASE LaunchScheduled \/ LaunchManual
  <2>1. /\ UNCHANGED <<config, now, trace, last_run, last_consumed_ticket, session_state, data_file, payload,
                       attempted, up, status>>
        /\ run' = "created" /\ loop' \in {"sleep", loop}
    BY <1>14 DEF LaunchScheduled, LaunchManual, files, project, history
  <2>2. QED BY <1>4, <2>1 DEF TriedInv
<1>15. CASE BeginRun
  <2>1. /\ UNCHANGED <<config, now, trace, last_run, last_consumed_ticket, session_state, data_file, payload>>
        /\ attempted' = TRUE
    BY <1>15 DEF BeginRun, files
  <2>2. QED BY <1>4, <2>1
<1>16. CASE FinishRun
  <2>1. /\ UNCHANGED <<config, now, trace, data_file, session_state, payload, last_consumed_ticket, up, loop, attempted>>
        /\ attempted /\ last_run' \in {last_run, now} /\ status' # "Running"
    BY <1>16 DEF FinishRun, WorkerReady, files, history, Final, TriedInv
  <2>2. Today' = Today /\ Tried \subseteq Tried'
    BY <1>1, <2>1
  <2>3. last_run' \in Tried
    <3>1. now \in Tried
      BY <2>1, Known DEF Tried, Tickets
    <3>2. QED BY <2>1, <3>1 DEF TriedInv
  <2>4. QED BY <2>1, <2>2, <2>3 DEF TriedInv
<1>17. CASE TraceFinished
  <2>1. /\ UNCHANGED <<config, now, data_file, session_state, payload, last_run, last_consumed_ticket, up, status,
                       loop, attempted>>
        /\ attempted
    BY <1>17 DEF TraceFinished, WorkerReady, project, history, TriedInv
  <2>2. trace'.ticket \in {trace.ticket, None} /\ trace'.last_run = last_run
    BY <1>17 DEF TraceFinished, TraceOfToday, NoTrace, TypeOK
  <2>3. Today' = Today /\ Tried \subseteq Tried'
    BY <1>1, <2>1
  <2>4. trace'.ticket \in Tried /\ trace'.last_run \in Tried
    BY <1>2, <2>2 DEF TriedInv
  <2>5. QED BY <2>1, <2>3, <2>4 DEF TriedInv
<1>18. CASE EndRun
  <2>1. /\ UNCHANGED <<config, now, trace, last_run, last_consumed_ticket, session_state, data_file, payload,
                       attempted, up, status, loop>>
        /\ run' = "none"
    BY <1>18 DEF EndRun, files, project, history
  <2>2. QED BY <1>4, <2>1 DEF TriedInv
<1>19. CASE Tick
  <2>1. PICK later \in Nat, today \in Nat : /\ later = now' /\ today = Today' /\ today = Day(later)
                                           /\ now <= later /\ Today <= today
    <3>1. now + 1 \in Nat /\ now <= now + 1 /\ Day(now + 1) \in Nat /\ Day(now) <= Day(now + 1)
      BY Known, DaysInOrder
    <3>2. now' = now + 1 /\ Today' = Day(now + 1)
      BY <1>19 DEF Tick, Today
    <3>3. QED BY <3>1, <3>2 DEF Today
  <2>2. /\ UNCHANGED <<config, data_file, session_state, trace, payload, last_run, last_consumed_ticket, up, status,
                       loop, run>>
        /\ attempted' = IF today # Today THEN run # "none" ELSE attempted
        /\ up => checked = now /\ loop = "sleep"
    <3>1. Day(now + 1) = today
      BY <1>19, <2>1 DEF Tick
    <3>2. QED BY <1>19, <3>1 DEF Tick, SchedulerReady, files, project
  <2>3. Tried \subseteq Tried'
    <3> SUFFICES ASSUME NEW t \in Tried PROVE t \in Tried'
      OBVIOUS
    <3>1. t # None => t \in Nat /\ Day(t) <= Today /\ Day(t) \in Nat
      BY Known, DaysInOrder DEF Tickets, Tried, Today
    <3>2. t \in Tickets /\ t <= later
      BY <2>1, Known DEF Tried, Tickets, None
    <3>3. t # None /\ Day(t) = today => attempted'
      BY <2>1, <2>2, <3>1, Known DEF Tried, OfToday
    <3>4. QED BY <2>1, <3>2, <3>3 DEF Tried, OfToday
  <2>6. session_state.date <= today /\ (session_state.date = today => today = Today)
    BY <2>1, Known DEF TriedInv, TypeOK, Times
  <2>7. up /\ status = "Running" => attempted'
    BY <2>2 DEF TriedInv, GhostInv
  <2>8. run \in {"running", "finished", "leaving"} \/ loop \in {"trace", "launch"} => attempted'
    BY <2>2 DEF TriedInv, TicketInv, LoopInv
  <2>9. session_state.date = today /\ session_state.status = "Running" => attempted'
    BY <2>2, <2>6 DEF TriedInv
  <2>10. QED BY <2>1, <2>2, <2>3, <2>6, <2>7, <2>8, <2>9 DEF TriedInv
<1>20. QED
  BY <1>5, <1>6, <1>7, <1>8, <1>9, <1>10, <1>11, <1>12, <1>13, <1>14, <1>15, <1>16, <1>17, <1>18, <1>19
  DEF Next, Scheduler, Worker, SaveStep

LEMMA GhostInvNext == ASSUME Inv, TicketInv, GhostInv, EndIsFinal, [Next]_vars PROVE GhostInv'
<1> USE DEF Inv, GhostInv
<1>1. CASE Start \/ Crash
  BY <1>1, Known DEF Start, Crash, None
<1>2. ASSUME NEW th \in Savers, SaveStep(th) PROVE GhostInv'
  BY <1>2 DEF SaveStep, DumpProjects, WriteDataFile, WriteSessionState, SaveKeeps, project
<1>3. CASE OtherSave \/ LaunchManual
  BY <1>3 DEF OtherSave, LaunchManual, project
<1>4. CASE DailyReset
  BY <1>4 DEF DailyReset
<1>5. CASE BeginPass
  <2>1. status' = "Running" => run # "none" /\ status = "Running"
    BY <1>5 DEF BeginPass
  <2>2. run \in {"finished", "leaving"} => status # "Running"
    BY DEF TicketInv, LoopInv, Final
  <2>3. QED BY <1>5, <2>1, <2>2 DEF BeginPass, TypeOK
<1>6. CASE ConsumeTicket \/ TraceConsumed
  BY <1>6 DEF ConsumeTicket, TraceConsumed, project
<1>7. CASE LaunchScheduled
  BY <1>7 DEF LaunchScheduled, project
<1>8. CASE BeginRun \/ FinishRun
  BY <1>8 DEF BeginRun, FinishRun, Final
<1>9. CASE TraceFinished \/ EndRun
  BY <1>9 DEF TraceFinished, EndRun, WorkerReady, project, TicketInv, LoopInv, Final
<1>10. CASE Tick
  BY <1>10, Known DEF Tick
<1>11. CASE BoundsReached \/ UNCHANGED vars
  BY <1>11 DEF BoundsReached, vars, project
<1>12. QED
  BY <1>1, <1>2, <1>3, <1>4, <1>5, <1>6, <1>7, <1>8, <1>9, <1>10, <1>11 DEF Next, Scheduler, Worker

\* Until a run is tried, the calculated next run of a day that is sure is its slot.
LEMMA SureNext ==
  ASSUME config \in Configs, now \in Nat, NEW ticket \in Tickets, NEW last \in Tickets, ticket # None => Day(ticket) # Today,
         config.schedule_type = "weekly" => now = Today * SlotsPerDay,
         NEW t \in Nat, SureSlot(t)
  PROVE  calculate_next_run(ticket, last) = t
<1>1. Today \in Nat /\ Scheduled(t) /\ Day(t) = Today
  BY DaysAreNat DEF SureSlot, Today
<1>2. CASE config.schedule_type = "daily"
  <2>1. t = Due(Today)
    BY <1>1, <1>2, SlotOfDay DEF Scheduled
  <2>2. ticket # Due(Today)
    BY <1>1, <2>1 DEF None
  <2>3. QED BY <1>2, <2>1, <2>2 DEF calculate_next_run, daily_next_run
<1>3. CASE config.schedule_type = "weekly"
  <2> DEFINE S == {candidate(w) : w \in config.days}
  <2>1. t = Due(Today) /\ config.run_time # 0
    BY <1>1, <1>3, SlotOfDay DEF Scheduled, SureSlot
  <2>2. now < t
    <3>1. config.run_time \in Nat /\ Today * SlotsPerDay \in Nat
      BY <1>1, SessionAssumption
    <3>2. QED BY <1>3, <2>1, <3>1 DEF Due
  <2>3. calculate_next_run(ticket, last) \in 0 .. t
    BY <1>1, <2>2, NextRunCovers DEF Covers
  <2>4. ASSUME NEW w \in config.days PROVE candidate(w) \in Nat /\ t <= candidate(w)
    <3> DEFINE ahead == (w - Weekday(Today)) % 7
    <3>1. w \in Int /\ Weekday(Today) \in Int
      BY <1>1, SessionAssumption DEF Weekday
    <3>2. Today + ahead \in Nat /\ Today + ahead + 7 \in Nat /\ Today <= Today + ahead /\ Today <= Today + ahead + 7
      BY <1>1, <3>1
    <3>3. t <= Due(Today + ahead) /\ t <= Due(Today + ahead + 7)
      BY <1>1, <2>1, <3>2, DaysInOrder
    <3>4. QED BY <3>2, <3>3, DueIsNat DEF candidate
  <2>5. S \in SUBSET Nat /\ S # {} /\ \A s \in S : t <= s
    BY <1>3, <2>4, SessionAssumption
  <2>6. t <= Min(S) /\ Min(S) \in Nat
    BY <2>5, FirstSlot
  <2>7. calculate_next_run(ticket, last) = Min(S)
    BY <1>3 DEF calculate_next_run
  <2>8. QED BY <2>3, <2>6, <2>7
<1>4. CASE config.schedule_type = "onetime"
  <2>1. t = config.date /\ ticket # t
    BY <1>1, <1>4 DEF Scheduled, None
  <2>2. QED BY <1>4, <2>1 DEF calculate_next_run, onetime_next_run
<1>5. QED BY <1>1, <1>2, <1>3, <1>4 DEF Scheduled

LEMMA DayInvNext == ASSUME Inv, TicketInv, TriedInv, DayInv, EndIsFinal, [Next]_vars PROVE DayInv'
<1> USE DEF Inv
<1>1. ASSUME UNCHANGED <<config, now>>
      PROVE  /\ Today' = Today /\ \A t : SureSlot(t)' <=> SureSlot(t)
             /\ UNCHANGED up_since => (SureDay' <=> SureDay)
  BY <1>1, SameSlots, SameCalendar
<1>2. ASSUME UNCHANGED <<config, now, up, up_since, current_date>>, attempted => attempted',
             UNCHANGED checked \/ current_date = Today,
             \/ attempted' \/ run' = "created"
             \/ UNCHANGED <<run, status, next_run>> /\ (loop' # "sleep" \/ UNCHANGED <<loop, checked>>)
      PROVE  DayInv'
  <2>1. /\ Today' = Today /\ \A t : SureSlot(t)' <=> SureSlot(t)
        /\ (SureDay' <=> SureDay)
    BY <1>1, <1>2
  <2>2. CASE attempted' \/ run' = "created"
    <3>1. up' /\ current_date' # Today' => checked' # now' /\ (up_since' < Today' * SlotsPerDay => now' = Today' * SlotsPerDay)
      BY <1>2, <2>1 DEF DayInv
    <3>2. QED BY <2>2, <3>1 DEF DayInv
  <2>3. CASE ~ (attempted' \/ run' = "created")
    BY <1>2, <2>1, <2>3 DEF DayInv
  <2>4. QED BY <2>2, <2>3
<1>3. CASE OtherSave \/ BoundsReached \/ UNCHANGED vars
  <2>1. UNCHANGED <<config, now, up, history, current_date, run, status, next_run, loop, checked>>
    BY <1>3 DEF OtherSave, BoundsReached, vars, project
  <2>2. QED BY <1>2, <2>1 DEF history
<1>4. ASSUME NEW th \in Savers, SaveStep(th) PROVE DayInv'
  <2>1. UNCHANGED <<config, now, up, history, current_date, run, status, next_run, loop, checked>>
    BY <1>4 DEF SaveStep, DumpProjects, WriteDataFile, WriteSessionState, SaveKeeps, project
  <2>2. QED BY <1>2, <2>1 DEF history
<1>5. CASE Crash
  <2>1. ~ up'
    BY <1>5 DEF Crash
  <2>2. QED BY <2>1 DEF DayInv
<1>6. CASE Start
  <2>1. /\ UNCHANGED <<config, now, attempted, run>> /\ run = "none" /\ current_date' = Today
        /\ checked' = None /\ up_since' = now /\ LoadData
    BY <1>6 DEF Start, TicketInv, LoopInv
  <2>2. Today' = Today /\ \A t : SureSlot(t)' <=> SureSlot(t)
    BY <1>1, <2>1
  <2>3. SureDay' => config.schedule_type = "daily"
    <3>1. Today * SlotsPerDay <= now /\ Today * SlotsPerDay \in Nat /\ now \in Nat
      BY Known, MidnightFirst, SessionAssumption
    <3>2. QED BY <2>1, <2>2, <3>1 DEF SureDay
  <2>4. ASSUME config.schedule_type = "daily", ~ attempted, NEW t \in Nat, SureSlot(t)
        PROVE  status' = "Waiting" /\ next_run' = t
    <3>1. /\ ~ OfToday(trace.last_run) /\ ~ OfToday(data_file.last_run)
          /\ ~ OfToday(session_state.ticket) /\ ~ OfToday(data_file.ticket)
          /\ ~ (session_state.date = Today /\ session_state.status = "Running")
      BY <2>4 DEF TriedInv, Tried
    <3>2. ~ TraceFinish
      BY <3>1 DEF TraceFinish, OfToday
    <3>3. SavedTicket # Due(Today)
      <4>1. Due(Today) # None /\ Day(Due(Today)) = Today
        BY Known, DueIsNat, DayOfDue DEF None
      <4>2. QED BY <3>1, <4>1 DEF SavedTicket, OfToday
    <3>4. InitialStatus = "Waiting"
      BY <3>1 DEF InitialStatus, OfToday
    <3>5. SessionOfToday => SessionStatus = "Waiting"
      <4>1. session_state.status \in Final => StaleSessionStatus
        BY <2>4, <3>1, <3>3 DEF StaleSessionStatus, OfToday
      <4>2. SessionOfToday => session_state.status # "Running"
        BY <3>1 DEF SessionOfToday
      <4>3. session_state.status \in {"Waiting", "Running"} \cup Final
        BY DEF TypeOK, Statuses
      <4>4. QED BY <4>1, <4>2, <4>3 DEF SessionStatus
    <3>6. calculate_next_run(data_file.ticket, data_file.last_run) = t
      BY <2>4, <3>1, SureNext, Known DEF OfToday
    <3>7. QED BY <2>1, <3>2, <3>4, <3>5, <3>6 DEF LoadData
  <2>5. checked' # now
    BY <2>1, Known DEF None
  <2>6. QED BY <2>1, <2>2, <2>3, <2>4, <2>5 DEF DayInv
<1>7. CASE DailyReset
  <2>1. /\ UNCHANGED <<config, now, up, up_since, attempted, run, checked, loop>>
        /\ up /\ current_date' = Today /\ current_date # Today /\ loop = "sleep"
        /\ run = "none" => status' = "Waiting" /\ next_run' = calculate_next_run(last_consumed_ticket, last_run)
    BY <1>7 DEF DailyReset, SchedulerReady, history
  <2>2. Today' = Today /\ (SureDay' <=> SureDay) /\ \A t : SureSlot(t)' <=> SureSlot(t)
    BY <1>1, <2>1
  <2>3. ASSUME SureDay, NEW t \in Nat, SureSlot(t), ~ attempted, run # "created"
        PROVE  status' = "Waiting" /\ run' = "none" /\ next_run' = t
    <3>1. run = "none"
      BY <2>3 DEF TriedInv, TypeOK
    <3>2. last_consumed_ticket # None => Day(last_consumed_ticket) # Today
      BY <2>3 DEF TriedInv, Tried, OfToday
    <3>3. config.schedule_type = "weekly" => now = Today * SlotsPerDay
      BY <2>1, <2>3 DEF SureDay, DayInv
    <3>4. calculate_next_run(last_consumed_ticket, last_run) = t
      BY <2>3, <3>2, <3>3, SureNext, Known
    <3>5. QED BY <2>1, <3>1, <3>4
  <2>4. checked # now
    BY <2>1 DEF DayInv
  <2>5. QED BY <2>1, <2>2, <2>3, <2>4 DEF DayInv
<1>8. CASE BeginPass
  <2>1. /\ UNCHANGED <<config, now, up, history, current_date, run>> /\ up /\ current_date = Today /\ loop' = "consider"
        /\ status = "Running" \/ UNCHANGED <<status, next_run>>
    BY <1>8 DEF BeginPass, SchedulerReady
  <2>2. QED BY <1>2, <2>1 DEF history, TriedInv
<1>9. CASE ConsumeTicket
  <2> DEFINE consumes == status = "Waiting" /\ run = "none" /\ TicketAllowed
  <2>1. /\ UNCHANGED <<config, now, up, up_since, current_date, run, status, next_run, checked>>
        /\ consumes => attempted' = TRUE
        /\ ~ consumes => UNCHANGED attempted
        /\ up /\ loop = "consider"
    BY <1>9 DEF ConsumeTicket, SchedulerReady, files
  <2>2. CASE consumes
    BY <1>2, <2>1, <2>2
  <2>3. CASE ~ consumes
    <3>1. Today' = Today /\ (SureDay' <=> SureDay) /\ \A t : SureSlot(t)' <=> SureSlot(t)
      BY <1>1, <2>1
    <3>2. current_date = Today
      BY <2>1 DEF TicketInv, ResetInv
    <3>3. ASSUME SureDay, NEW t \in Nat, SureSlot(t), t <= now PROVE attempted \/ run = "created"
      <4> SUFFICES ASSUME ~ attempted, run # "created" PROVE FALSE
        OBVIOUS
      <4>1. status = "Waiting" /\ run = "none" /\ next_run = t
        BY <2>1, <3>2, <3>3 DEF DayInv
      <4>2. Day(t) = Today /\ t # Never
        BY <3>3, SessionAssumption DEF SureSlot, Never
      <4>3. last_consumed_ticket # t
        BY <4>2, Known DEF TriedInv, Tried, OfToday, None
      <4>4. now >= t
        BY <3>3, Known
      <4>5. QED BY <2>3, <4>1, <4>2, <4>3, <4>4 DEF TicketAllowed
    <3>4. QED BY <2>1, <2>3, <3>1, <3>2, <3>3 DEF DayInv
  <2>4. QED BY <2>2, <2>3
<1>10. CASE TraceConsumed \/ LaunchScheduled
  <2>1. UNCHANGED <<config, now, up, up_since, attempted, current_date, checked>> /\ attempted
    BY <1>10 DEF TraceConsumed, LaunchScheduled, SchedulerReady, history, TriedInv
  <2>2. QED BY <1>2, <2>1
<1>11. CASE LaunchManual \/ BeginRun
  <2>1. /\ UNCHANGED <<config, now, up, up_since, current_date, checked>> /\ (attempted => attempted')
        /\ run' = "created" \/ attempted'
    BY <1>11 DEF LaunchManual, BeginRun, history
  <2>2. QED BY <1>2, <2>1
<1>12. CASE FinishRun \/ TraceFinished \/ EndRun
  <2>1. UNCHANGED <<config, now, up, up_since, attempted, current_date, checked>> /\ attempted
    BY <1>12 DEF FinishRun, TraceFinished, EndRun, WorkerReady, history, TriedInv
  <2>2. QED BY <1>2, <2>1
<1>13. CASE Tick
  <2>1. /\ UNCHANGED <<config, up, up_since, current_date, checked, loop, run, status, next_run>>
        /\ now' = now + 1 /\ now \in Nat /\ Today' = Day(now + 1)
        /\ up => current_date = Today /\ checked = now
        /\ attempted' = IF Day(now + 1) # Today THEN run # "none" ELSE attempted
    BY <1>13, Known DEF Tick, project, Today
  <2>2. up => checked' # now'
    BY <2>1
  <2>3. CASE Day(now + 1) # Today
    <3>1. now' = Today' * SlotsPerDay
      BY <2>1, <2>3, NextDay DEF Today
    <3>2. up => current_date' # Today'
      BY <2>1, <2>3
    <3>3. QED BY <2>1, <2>2, <3>1, <3>2 DEF DayInv
  <2>4. CASE Day(now + 1) = Today
    <3>1. Today' = Today /\ UNCHANGED attempted
      BY <2>1, <2>4
    <3>2. SureDay' <=> SureDay
      BY <2>1, <3>1 DEF SureDay
    <3>3. \A t : SureSlot(t)' <=> SureSlot(t)
      BY <2>1, <3>1 DEF SureSlot, Scheduled, Day, Weekday
    <3>4. QED BY <2>1, <2>2, <3>1, <3>2, <3>3 DEF DayInv
  <2>5. QED BY <2>3, <2>4
<1>14. QED
  BY <1>3, <1>4, <1>5, <1>6, <1>7, <1>8, <1>9, <1>10, <1>11, <1>12, <1>13 DEF Next, Scheduler, Worker

LEMMA AttemptInvInit == Init => AttemptInv
<1> SUFFICES ASSUME Init PROVE AttemptInv
  OBVIOUS
<1>1. Today \in Nat
  BY DaysAreNat DEF Init, Today
<1>2. None \in Tried
  BY DEF Init, Tried, Tickets, OfToday, None
<1>3. TriedInv
  BY <1>1, <1>2 DEF Init, TriedInv, NoPayload, NoSession, NoTrace, None
<1>4. QED BY <1>3 DEF Init, AttemptInv, GhostInv, DayInv

LEMMA AttemptInvNext == ASSUME Inv, TicketInv, AttemptInv, EndIsFinal, [Next]_vars PROVE AttemptInv'
  BY TriedInvNext, GhostInvNext, DayInvNext DEF AttemptInv

LEMMA OnlyTicksPass == ASSUME Next, now' # now PROVE Tick
<1>1. ~ (Start \/ Crash \/ OtherSave \/ LaunchManual)
  BY DEF Start, Crash, OtherSave, LaunchManual
<1>2. ASSUME NEW th \in Savers PROVE ~ SaveStep(th)
  BY DEF SaveStep, DumpProjects, WriteDataFile, WriteSessionState, SaveKeeps
<1>3. ~ Scheduler
  BY DEF Scheduler, DailyReset, BeginPass, ConsumeTicket, TraceConsumed, LaunchScheduled
<1>4. ~ Worker
  BY DEF Worker, BeginRun, FinishRun, TraceFinished, EndRun
<1>5. ~ BoundsReached
  BY DEF BoundsReached, vars
<1>6. QED BY <1>1, <1>2, <1>3, <1>4, <1>5 DEF Next

\* The last slot of a day passes only after a pass has been made in it.
LEMMA DayEnds ==
  ASSUME Inv, AttemptInv, Next, up, Day(now') # Today, SureDay,
         NEW t \in Nat, SureSlot(t), t <= now
  PROVE  attempted
<1>1. now' # now
  BY DEF Today
<1>2. Tick
  BY <1>1, OnlyTicksPass
<1>3. loop = "sleep" /\ checked = now /\ run # "created"
  BY <1>2 DEF Tick, SchedulerReady
<1>4. QED BY <1>3 DEF AttemptInv, DayInv

LEMMA AttemptInvHolds == Spec => [](Inv /\ EndIsFinal /\ TicketInv /\ AttemptInv)
<1>1. ASSUME Inv, TicketInv, EndIsFinal, [Next]_vars PROVE TicketInv'
  BY <1>1, TicketInvNext
<1>2. ASSUME Inv, TicketInv, AttemptInv, EndIsFinal, [Next]_vars PROVE AttemptInv'
  BY <1>2, AttemptInvNext
<1>3. QED BY <1>1, <1>2, TicketInvInit, AttemptInvInit, InvHolds, PTL DEF Spec

\* A daily project is tried on every day at whose end the process is up: no status, no
\* ticket and no trace that a restart reads keeps it from that, whenever the process
\* died and whatever files were not written.
THEOREM DailyRuns == Spec => DailyRunsDaily
<1>1. ASSUME Inv, AttemptInv, Next, up, Day(now') # Today, config.schedule_type = "daily" PROVE attempted
  <2>1. now' # now
    BY <1>1 DEF Today
  <2>2. now' = now + 1 /\ now \in Nat /\ config \in Configs /\ Today \in Nat
    BY <1>1, <2>1, OnlyTicksPass, Known DEF Tick
  <2>3. Due(Today) <= now /\ Due(Today) \in Nat /\ Day(Due(Today)) = Today
    BY <1>1, <2>2, NextDay, DueIsNat, DayOfDue DEF Today
  <2>4. Due(Today) % SlotsPerDay = config.run_time
    <3>1. SlotsPerDay \in Nat \ {0} /\ config.run_time \in Nat /\ config.run_time < SlotsPerDay
      BY <2>2, SessionAssumption
    <3>2. (Today * SlotsPerDay + config.run_time) % SlotsPerDay = config.run_time
      BY <2>2, <3>1
    <3>3. QED BY <3>2 DEF Due
  <2>5. SureSlot(Due(Today)) /\ SureDay
    BY <1>1, <2>3, <2>4 DEF SureSlot, SureDay, Scheduled
  <2>6. QED BY <1>1, <2>3, <2>5, DayEnds
<1>2. Inv /\ AttemptInv /\ [Next]_vars => [(up /\ Day(now') # Today /\ config.schedule_type = "daily") => attempted]_vars
  BY <1>1
<1>3. QED BY <1>2, AttemptInvHolds, PTL DEF Spec, DailyRunsDaily

\* A weekly or a one-time project is tried on a day it is due, if the process has been
\* up since before that day; but for a weekly project due at midnight.
THEOREM DaysRun == Spec => ScheduledDayRuns
<1>1. ASSUME Inv, AttemptInv, Next,
             ~ (config.schedule_type = "weekly" /\ config.run_time = 0),
             up, up_since < Today * SlotsPerDay, Day(now') # Today,
             \E t \in Today * SlotsPerDay .. now : Scheduled(t)
      PROVE  attempted
  <2>1. PICK t \in Today * SlotsPerDay .. now : Scheduled(t)
    BY <1>1
  <2>2. now \in Nat /\ Today * SlotsPerDay \in Nat
    BY <1>1, Known, SessionAssumption
  <2>3. t \in Nat /\ Day(t) = Today /\ t <= now
    BY <2>1, <2>2, MidnightFirst
  <2>4. SureSlot(t) /\ SureDay
    BY <1>1, <2>1, <2>3 DEF SureSlot, SureDay
  <2>5. QED BY <1>1, <2>3, <2>4, DayEnds
<1>2. Inv /\ AttemptInv /\ [Next]_vars =>
        [(/\ ~ (config.schedule_type = "weekly" /\ config.run_time = 0)
          /\ up /\ up_since < Today * SlotsPerDay /\ Day(now') # Today
          /\ \E t \in Today * SlotsPerDay .. now : Scheduled(t)) => attempted]_vars
  BY <1>1
<1>3. QED BY <1>2, AttemptInvHolds, PTL DEF Spec, ScheduledDayRuns
=============================================================================

--------------------------- MODULE LegacySyncProofs ---------------------------
(* Theorems about LegacySync, for any projects, objects, edits and runs.     *)
EXTENDS LegacySync, TLAPS

\* A list of a part of the projects is a list.
LEMMA ListIntro == ASSUME NEW S, NEW D \in SUBSET Projects, NEW f \in [D -> S] PROVE f \in Lists(S)
  BY DEF Lists

\* The projects of a list, and what stands for each of them.
LEMMA ListElim ==
  ASSUME NEW S, NEW f \in Lists(S)
  PROVE  /\ DOMAIN f \subseteq Projects
         /\ f = [p \in DOMAIN f |-> f[p]]
         /\ \A p \in DOMAIN f : f[p] \in S
  BY DEF Lists

LEMMA EmptyIsList == ASSUME NEW S PROVE Empty \in Lists(S)
<1>1. Empty \in [{} -> S]  BY DEF Empty
<1>2. QED BY <1>1, ListIntro

LEMMA NewIsData == New \in Data
  BY SyncAssumption DEF New, Data

\* Edits and used tickets leave data what it is.
LEMMA ChangedIsData ==
  ASSUME NEW d \in Data
  PROVE  /\ [d EXCEPT !.last_consumed_ticket = "today"] \in Data
         /\ \A n \in 0 .. MaxEdits : [d EXCEPT !.settings = n] \in Data
  BY DEF Data

\* The list of the desktop program stays one when tickets are taken over.
LEMMA RefreshedIsList ==
  ASSUME NEW list \in Lists(Data), NEW seen PROVE RefreshCore(list, seen) \in Lists(Data)
<1>1. \A p \in DOMAIN list : list[p] \in Data /\ [list[p] EXCEPT !.last_consumed_ticket = "today"] \in Data
  BY ListElim, ChangedIsData
<1>2. RefreshCore(list, seen) \in [DOMAIN list -> Data]
  BY <1>1 DEF RefreshCore
<1>3. QED BY <1>2, ListElim, ListIntro

\* A free object of a project is one of its objects.
LEMMA FreeIsObject ==
  ASSUME NEW p, FreeObjects(p) # {} PROVE FreeObject(p) \in 1 .. MaxObjects
  BY DEF FreeObject, FreeObjects

\* The registered runs are those of distinct projects.
RunInv ==
  /\ \A o \in Objects : run[o] \in {"executing", "saved"} => o[1] \in active_run_ids
  /\ OneRunPerProject

\* A launcher that is on its way has an object in hand.
PickInv == \A l \in Launchers : at[l] # "idle" => pick[l] \in Objects

Inv == TypeOK /\ PickInv /\ RunInv

LEMMA InvInit == Init => Inv
<1> SUFFICES ASSUME Init PROVE Inv
  OBVIOUS
<1>1. file \in Lists(Data)
  <2>1. file \in [kept -> Data] /\ kept \in SUBSET Projects
    BY NewIsData DEF Init
  <2>2. QED BY <2>1, ListIntro
<1>2. projects \in Lists(1 .. MaxObjects)
  <2>1. projects \in [kept -> 1 .. MaxObjects] /\ kept \in SUBSET Projects
    BY SyncAssumption DEF Init
  <2>2. QED BY <2>1, ListIntro
<1>3. incoming \in Lists(Data) /\ round \in Lists(1 .. MaxObjects)
  BY EmptyIsList DEF Init
<1>4. data \in [Objects -> Data] /\ ui = file
  BY NewIsData DEF Init
<1>5. /\ project_workers \in [Projects -> 0 .. MaxObjects] /\ consumed \in [Projects -> 0 .. MaxRuns]
      /\ edits \in 0 .. MaxEdits
  BY SyncAssumption DEF Init
<1>6. TypeOK
  BY <1>1, <1>2, <1>3, <1>4, <1>5 DEF Init, TypeOK
<1>7. QED BY <1>6 DEF Init, Inv, PickInv, RunInv, OneRunPerProject

\* What the desktop program saves after an edit, an addition or a deletion: of
\* the projects that are kept it leaves none out and changes no ticket.
LEMMA WhatIsSaved ==
  ASSUME TypeOK, NEW p \in Projects, EditProject(p) \/ AddProject(p) \/ DeleteProject(p)
  PROVE  /\ ui_at = "idle" /\ edits < MaxEdits /\ kept' \in SUBSET kept
         /\ \E list \in Lists(Data), seen \in SUBSET Projects :
              /\ Save(list, seen)
              /\ kept' \cap DOMAIN ui = kept' \cap DOMAIN list
              /\ \A q \in kept' \cap DOMAIN list :
                   list[q].last_consumed_ticket = ui[q].last_consumed_ticket
<1>1. /\ DOMAIN ui \subseteq Projects /\ ui = [q \in DOMAIN ui |-> ui[q]]
      /\ \A q \in DOMAIN ui : ui[q] \in Data
  BY ListElim DEF TypeOK
<1>2. CASE EditProject(p)
  <2>1. PICK seen \in SUBSET EngineUsed : Save([ui EXCEPT ![p].settings = edits + 1], seen)
    BY <1>2 DEF EditProject
  <2> DEFINE list == [ui EXCEPT ![p].settings = edits + 1]
  <2>2. edits + 1 \in 0 .. MaxEdits /\ p \in DOMAIN ui
    BY <1>2, SyncAssumption DEF EditProject, TypeOK
  <2>3. /\ [ui[p] EXCEPT !.settings = edits + 1] \in Data
        /\ [ui[p] EXCEPT !.settings = edits + 1].last_consumed_ticket = ui[p].last_consumed_ticket
    <3>1. ui[p] \in Data  BY <1>1, <2>2
    <3>2. QED BY <2>2, <3>1, ChangedIsData DEF Data
  <2>4. list = [q \in DOMAIN ui |-> IF q = p THEN [ui[p] EXCEPT !.settings = edits + 1] ELSE ui[q]]
    BY <1>1, <2>2
  <2>5. list \in [DOMAIN ui -> Data]
    BY <1>1, <2>3, <2>4
  <2>6. list \in Lists(Data) /\ DOMAIN list = DOMAIN ui
    BY <1>1, <2>5, ListIntro
  <2>7. \A q \in DOMAIN list : list[q].last_consumed_ticket = ui[q].last_consumed_ticket
    BY <2>3, <2>4
  <2>8. seen \in SUBSET Projects
    BY ListElim DEF EngineUsed, Listed, TypeOK
  <2>9. ui_at = "idle" /\ edits < MaxEdits /\ kept' = kept
    BY <1>2 DEF EditProject
  <2>10. QED BY <2>1, <2>6, <2>7, <2>8, <2>9
<1>3. CASE AddProject(p)
  <2> DEFINE list == [q \in DOMAIN ui \cup {p} |-> IF q = p THEN [New EXCEPT !.settings = edits + 1] ELSE ui[q]]
  <2>1. ui_at = "idle" /\ edits < MaxEdits /\ kept' = kept \ {p} /\ p \notin DOMAIN ui /\ Save(list, {})
    BY <1>3 DEF AddProject
  <2>2. edits + 1 \in 0 .. MaxEdits
    BY <2>1, SyncAssumption DEF TypeOK
  <2>3. [New EXCEPT !.settings = edits + 1] \in Data
    BY <2>2, NewIsData, ChangedIsData
  <2>4. list \in [DOMAIN ui \cup {p} -> Data]
    BY <1>1, <2>3
  <2>5. list \in Lists(Data)
    BY <1>1, <2>4, ListIntro
  <2>6. kept' \cap DOMAIN ui = kept' \cap DOMAIN list /\ \A q \in kept' \cap DOMAIN list : list[q] = ui[q]
    BY <2>1
  <2>7. QED BY <2>1, <2>5, <2>6
<1>4. CASE DeleteProject(p)
  <2> DEFINE list == [q \in DOMAIN ui \ {p} |-> ui[q]]
  <2>1. ui_at = "idle" /\ edits < MaxEdits /\ kept' = kept \ {p} /\ Save(list, {})
    BY <1>4 DEF DeleteProject
  <2>2. list \in [DOMAIN ui \ {p} -> Data]
    BY <1>1
  <2>3. list \in Lists(Data)
    BY <1>1, <2>2, ListIntro
  <2>4. kept' \cap DOMAIN ui = kept' \cap DOMAIN list /\ \A q \in kept' \cap DOMAIN list : list[q] = ui[q]
    BY <2>1
  <2>5. QED BY <2>1, <2>3, <2>4
<1>5. QED BY <1>2, <1>3, <1>4

\* The steps of the desktop program.
LEMMA DesktopKeepsInv == ASSUME Inv, Desktop PROVE Inv'
<1> USE DEF Inv
<1>1. ASSUME NEW p \in Projects, EditProject(p) \/ AddProject(p) \/ DeleteProject(p) PROVE Inv'
  <2>1. edits < MaxEdits /\ kept' \in SUBSET Projects
    BY <1>1, WhatIsSaved DEF TypeOK
  <2>2. PICK list \in Lists(Data), seen \in SUBSET Projects : Save(list, seen)
    BY <1>1, WhatIsSaved
  <2>3. RefreshCore(list, seen) \in Lists(Data)
    BY RefreshedIsList
  <2>4. DOMAIN list \subseteq Projects
    BY ListElim
  <2>5. QED BY <2>1, <2>2, <2>3, <2>4, SyncAssumption
    DEF Save, TypeOK, PickInv, RunInv, OneRunPerProject, core, launch, sync
<1>2. CASE WriteFile
  BY <1>2 DEF WriteFile, TypeOK, PickInv, RunInv, OneRunPerProject, core, launch
<1>3. CASE Synced
  BY <1>3, EmptyIsList DEF Synced, TypeOK, PickInv, RunInv, OneRunPerProject, core, launch, history
<1>4. CASE OpenAgain
  <2>1. RefreshCore(file, Traced) \in Lists(Data)
    BY RefreshedIsList DEF TypeOK
  <2>2. edits' \in 0 .. MaxEdits
    BY <1>4, SyncAssumption DEF OpenAgain, TypeOK
  <2>3. TypeOK'
    BY <1>4, <2>1, <2>2 DEF OpenAgain, TypeOK, core, launch
  <2>4. QED BY <1>4, <2>3 DEF OpenAgain, PickInv, RunInv, OneRunPerProject, core, launch
<1>5. QED BY <1>1, <1>2, <1>3, <1>4 DEF Desktop

\* What the engine saves is a list.
LEMMA SavedIsList ==
  ASSUME TypeOK, NEW d \in [Objects -> Data], EngineSave(d)
  PROVE  file' \in Lists(Data) /\ torn' \in BOOLEAN /\ overwritten' \in BOOLEAN
<1>1. file' \in [DOMAIN projects -> Data]
  BY ListElim DEF EngineSave, TypeOK, Objects
<1>2. file' \in Lists(Data)
  BY <1>1, ListElim, ListIntro DEF TypeOK
<1>3. QED BY <1>2 DEF EngineSave, TypeOK

LEMMA RestIsList == ASSUME TypeOK, NEW p PROVE Rest(p) \in Lists(1 .. MaxObjects)
<1>1. Rest(p) \in [DOMAIN round \ {p} -> 1 .. MaxObjects]
  BY ListElim DEF Rest, TypeOK
<1>2. QED BY <1>1, ListElim, ListIntro DEF TypeOK

\* The steps of the launchers.
LEMMA LaunchKeepsInv == ASSUME Inv, Launch PROVE Inv'
<1> USE DEF Inv
<1>1. CASE BeginRound
  BY <1>1 DEF BeginRound, TypeOK, PickInv, RunInv, OneRunPerProject, core, sync, history
<1>2. ASSUME NEW p \in Projects, PassOver(p) PROVE Inv'
  BY <1>2, RestIsList DEF PassOver, TypeOK, PickInv, RunInv, OneRunPerProject, core, sync, history
<1>3. ASSUME NEW p \in Projects, ConsumeTicket(p) PROVE Inv'
  <2> DEFINE o == <<p, round[p]>>
  <2>1. o \in Objects
    BY <1>3, ListElim DEF ConsumeTicket, TypeOK, Objects
  <2>2. data' \in [Objects -> Data]
    BY <1>3, <2>1 DEF ConsumeTicket, TypeOK, Data
  <2>3. file' \in Lists(Data) /\ torn' \in BOOLEAN /\ overwritten' \in BOOLEAN
    BY <1>3, <2>2, SavedIsList DEF ConsumeTicket
  <2>4. consumed' \in [Projects -> 0 .. MaxRuns]
    BY <1>3, SyncAssumption DEF ConsumeTicket, TypeOK
  <2>5. forgotten' \subseteq Projects /\ round' \in Lists(1 .. MaxObjects)
    BY <1>3, RestIsList DEF ConsumeTicket, TypeOK
  <2>6. at' = [at EXCEPT !["scheduler"] = "register"] /\ pick' = [pick EXCEPT !["scheduler"] = o]
    BY <1>3 DEF ConsumeTicket
  <2>7. PickInv'
    BY <2>1, <2>6 DEF TypeOK, PickInv, Launchers
  <2>8. RunInv'
    BY <1>3 DEF ConsumeTicket, RunInv, OneRunPerProject
  <2>9. TypeOK'
    BY <1>3, <2>1, <2>2, <2>3, <2>4, <2>5, <2>6 DEF ConsumeTicket, TypeOK, sync
  <2>10. QED BY <2>7, <2>8, <2>9
<1>4. ASSUME NEW p \in Projects, FindProject(p) PROVE Inv'
  <2>1. <<p, projects[p]>> \in Objects
    BY <1>4, ListElim DEF FindProject, TypeOK, Objects
  <2>2. QED BY <1>4, <2>1
    DEF FindProject, TypeOK, PickInv, RunInv, OneRunPerProject, Launchers, core, sync, history
<1>5. CASE RunManual
  <2>1. pick["commands"] \in Objects
    BY <1>5 DEF RunManual, PickInv, Launchers
  <2>2. QED BY <1>5, <2>1
    DEF RunManual, TypeOK, PickInv, RunInv, OneRunPerProject, Launchers, sync, history
<1>6. ASSUME NEW l \in Launchers, Register(l) PROVE Inv'
  <2> DEFINE o == pick[l]
  <2>1. o \in Objects /\ o[1] \in Projects /\ o[2] \in 1 .. MaxObjects
    BY <1>6 DEF Register, PickInv, Objects
  <2>2. /\ at' = [at EXCEPT ![l] = "idle"] /\ pick' = [pick EXCEPT ![l] = NoObject]
        /\ UNCHANGED <<file, ui, ui_at, projects, data, round, sync, history>>
    BY <1>6 DEF Register
  <2>3. PickInv'
    BY <2>2 DEF TypeOK, PickInv
  <2>4. CASE /\ o[1] \notin active_run_ids
             /\ active_run_ids' = active_run_ids \cup {o[1]}
             /\ project_workers' = [project_workers EXCEPT ![o[1]] = o[2]]
             /\ run' = [run EXCEPT ![o] = "executing"]
             /\ UNCHANGED locked
    <3>1. TypeOK'
      BY <2>1, <2>2, <2>4 DEF TypeOK, sync, history
    <3>2. RunInv'
      BY <2>1, <2>4 DEF TypeOK, RunInv, OneRunPerProject
    <3>3. QED BY <2>3, <3>1, <3>2
  <2>5. CASE locked' = locked \ {o} /\ UNCHANGED <<active_run_ids, project_workers, run>>
    BY <2>1, <2>2, <2>3, <2>5 DEF TypeOK, RunInv, OneRunPerProject, sync, history
  <2>6. QED BY <1>6, <2>4, <2>5 DEF Register, MayRegister
<1>7. QED BY <1>1, <1>2, <1>3, <1>4, <1>5, <1>6 DEF Launch

\* The ends of runs: who takes a run out of the table is the one that registered it.
LEMMA WorkersKeepInv == ASSUME Inv, Workers PROVE Inv'
<1> USE DEF Inv
<1>1. PICK o \in Objects : FinishLogic(o) \/ PopRun(o) \/ EndWorker(o)
  BY DEF Workers
<1>2. CASE FinishLogic(o)
  <2>1. file' \in Lists(Data) /\ torn' \in BOOLEAN /\ overwritten' \in BOOLEAN
    BY <1>2, SavedIsList DEF FinishLogic, TypeOK
  <2>2. QED BY <1>2, <2>1
    DEF FinishLogic, TypeOK, PickInv, RunInv, OneRunPerProject, launch, sync
<1>3. CASE PopRun(o)
  BY <1>3 DEF PopRun, TypeOK, PickInv, RunInv, OneRunPerProject, launch, sync, history
<1>4. CASE EndWorker(o)
  <2>1. project_workers' \in [Projects -> 0 .. MaxObjects]
    <3>1. 0 \in 0 .. MaxObjects
      BY SyncAssumption
    <3>2. QED BY <1>4, <3>1 DEF EndWorker, TypeOK
  <2>2. TypeOK'
    BY <1>4, <2>1 DEF EndWorker, TypeOK, launch, sync, history
  <2>3. QED BY <1>4, <2>2 DEF EndWorker, TypeOK, PickInv, RunInv, OneRunPerProject, launch
<1>5. QED BY <1>1, <1>2, <1>3, <1>4

\* The steps of sync_from_legacy: objects are replaced, registered runs are not.
LEMMA ApiKeepsInv == ASSUME Inv, ApiThread PROVE Inv'
<1> USE DEF Inv
<1>1. CASE HasLiveRuntime
  BY <1>1 DEF HasLiveRuntime, TypeOK, PickInv, RunInv, OneRunPerProject, core, launch, history
<1>2. CASE BeginLoad
  BY <1>2, EmptyIsList DEF BeginLoad, TypeOK, PickInv, RunInv, OneRunPerProject, launch, history
<1>3. ASSUME NEW p \in Projects, AppendProject(p) PROVE Inv'
  <2> DEFINE n == FreeObject(p)
  <2>1. n \in 1 .. MaxObjects
    BY <1>3, FreeIsObject DEF AppendProject
  <2>2. projects' = [q \in DOMAIN projects \cup {p} |-> IF q = p THEN n ELSE projects[q]]
    BY <1>3 DEF AppendProject
  <2>3. projects' \in [DOMAIN projects \cup {p} -> 1 .. MaxObjects]
    BY <2>1, <2>2, ListElim DEF TypeOK
  <2>4. projects' \in Lists(1 .. MaxObjects)
    <3>1. DOMAIN projects \cup {p} \subseteq Projects
      BY ListElim DEF TypeOK
    <3>2. QED BY <2>3, <3>1, ListIntro
  <2>5. LoadedData(incoming[p], p) \in Data
    <3>1. incoming[p] \in Data
      BY <1>3, ListElim DEF AppendProject, TypeOK
    <3>2. QED BY <3>1, ChangedIsData DEF LoadedData
  <2>6. data' \in [Objects -> Data]
    BY <1>3, <2>5 DEF AppendProject, TypeOK
  <2>7. QED BY <1>3, <2>4, <2>6
    DEF AppendProject, TypeOK, PickInv, RunInv, OneRunPerProject, launch, sync, history
<1>4. CASE EndLoad
  BY <1>4 DEF EndLoad, TypeOK, PickInv, RunInv, OneRunPerProject, core, launch, history
<1>5. CASE LoadLegacyProjects
  BY <1>5 DEF LoadLegacyProjects, TypeOK, PickInv, RunInv, OneRunPerProject, core, launch, history
<1>6. CASE FindLiveNames
  <2>1. LiveProjects \subseteq Projects
    BY ListElim DEF LiveProjects, TypeOK
  <2>2. QED BY <1>6, <2>1
    DEF FindLiveNames, TypeOK, PickInv, RunInv, OneRunPerProject, core, launch, history
<1>7. CASE AssignMerged
  <2> DEFINE fresh == {p \in MergedNames : ~ KeepsObject(p)}
             object == [p \in MergedNames |-> IF p \in fresh THEN FreeObject(p) ELSE projects[p]]
  <2>1. MergedNames \in SUBSET Projects
    BY ListElim DEF MergedNames, TypeOK
  <2>2. \A p \in MergedNames : object[p] \in 1 .. MaxObjects
    BY <1>7, FreeIsObject, ListElim DEF AssignMerged, KeepsObject, TypeOK
  <2>3. object \in [MergedNames -> 1 .. MaxObjects]
    BY <2>2
  <2>4. object \in Lists(1 .. MaxObjects)
    BY <2>1, <2>3, ListIntro
  <2>5. projects' = object
        /\ data' = [o \in Objects |-> IF o[1] \in fresh /\ object[o[1]] = o[2]
                                      THEN incoming[o[1]] ELSE data[o]]
    BY <1>7 DEF AssignMerged
  <2>6. \A p \in fresh : incoming[p] \in Data
    BY ListElim DEF MergedNames, KeepsObject, TypeOK
  <2>7. data' \in [Objects -> Data]
    BY <2>5, <2>6 DEF TypeOK
  <2>8. QED BY <1>7, <2>4, <2>5, <2>7
    DEF AssignMerged, TypeOK, PickInv, RunInv, OneRunPerProject, launch, history
<1>8. QED BY <1>1, <1>2, <1>3, <1>4, <1>5, <1>6, <1>7 DEF ApiThread

LEMMA InvNext == ASSUME Inv, [Next]_vars PROVE Inv'
<1>1. CASE Next
  BY <1>1, DesktopKeepsInv, LaunchKeepsInv, WorkersKeepInv, ApiKeepsInv DEF Next
<1>2. CASE UNCHANGED vars
  BY <1>2 DEF vars, core, launch, sync, history, Inv, TypeOK, PickInv, RunInv, OneRunPerProject
<1>3. QED BY <1>1, <1>2

LEMMA InvHolds == Spec => []Inv
<1>1. Init => Inv  BY InvInit
<1>2. Inv /\ [Next]_vars => Inv'  BY InvNext
<1>3. QED BY <1>1, <1>2, PTL DEF Spec

\* The lists, objects, tables and positions stay in their sets.
THEOREM TypeCorrect == Spec => []TypeOK
<1>1. Inv => TypeOK  BY DEF Inv
<1>2. QED BY <1>1, InvHolds, PTL

\* However often the Project object of a project, and with it the lock, is replaced,
\* the project never has two runs executing: _active_run_ids goes by its name.
THEOREM OneRun == Spec => []OneRunPerProject
<1>1. Inv => OneRunPerProject  BY DEF Inv, RunInv
<1>2. QED BY <1>1, InvHolds, PTL

-----------------------------------------------------------------------------
(* Two processes, one file.  A sync runs only while the desktop program      *)
(* waits for its answer, so the desktop program's list does not change under *)
(* it; the engine's own saves may.                                           *)

SyncPhase == ui_at # "sync" => sync_at = "none"

\* Taking tickets over changes no project and no settings.
LEMMA RefreshKeeps ==
  ASSUME NEW list \in Lists(Data), NEW seen
  PROVE  /\ DOMAIN RefreshCore(list, seen) = DOMAIN list
         /\ \A p \in DOMAIN list :
              /\ RefreshCore(list, seen)[p].settings = list[p].settings
              /\ p \in seen => RefreshCore(list, seen)[p].last_consumed_ticket = "today"
              /\ p \notin seen => RefreshCore(list, seen)[p] = list[p]
<1>1. \A p \in DOMAIN list : list[p] \in Data
  BY ListElim
<1>2. QED BY <1>1 DEF RefreshCore, Data

LEMMA SyncPhaseHolds == Spec => []SyncPhase
<1>1. Init => SyncPhase
  BY DEF Init, SyncPhase
<1>2. ASSUME Inv, SyncPhase, [Next]_vars PROVE SyncPhase'
  <2>1. ASSUME NEW p \in Projects, EditProject(p) \/ AddProject(p) \/ DeleteProject(p) PROVE SyncPhase'
    BY <1>2, <2>1, WhatIsSaved DEF Inv, Save, SyncPhase, sync
  <2>2. CASE WriteFile \/ Synced \/ OpenAgain
    BY <1>2, <2>2 DEF WriteFile, Synced, OpenAgain, SyncPhase
  <2>3. CASE Launch
    BY <1>2, <2>3 DEF Launch, BeginRound, RunManual, PassOver, ConsumeTicket, FindProject, Register, SyncPhase, sync
  <2>4. CASE Workers
    BY <1>2, <2>4 DEF Workers, FinishLogic, PopRun, EndWorker, SyncPhase, sync
  <2>5. CASE ApiThread
    BY <1>2, <2>5 DEF ApiThread, HasLiveRuntime, BeginLoad, AppendProject, EndLoad, LoadLegacyProjects,
                      FindLiveNames, AssignMerged, SyncPhase, sync
  <2>6. CASE UNCHANGED vars
    BY <1>2, <2>6 DEF vars, sync, SyncPhase
  <2>7. QED BY <1>2, <2>1, <2>2, <2>3, <2>4, <2>5, <2>6 DEF Next, Desktop
<1>3. QED BY <1>1, <1>2, InvHolds, PTL DEF Spec

\* The steps that save nothing and change no list: what a launch, a worker or
\* the API thread does between them.
Quiet == /\ UNCHANGED <<file, ui, ui_at, projects, data, incoming, edits, kept, consumed, forgotten, torn, overwritten>>
         /\ \/ UNCHANGED <<sync_at, live_names>>
            \/ HasLiveRuntime
            \/ FindLiveNames

\* Every step is one of those the file and the lists depend on, or quiet.
LEMMA Steps ==
  ASSUME Next
  PROVE  \/ \E p \in Projects : \/ EditProject(p) \/ AddProject(p) \/ DeleteProject(p)
                                \/ ConsumeTicket(p) \/ AppendProject(p)
         \/ WriteFile \/ Synced \/ OpenAgain
         \/ \E o \in Objects : FinishLogic(o)
         \/ BeginLoad \/ EndLoad \/ LoadLegacyProjects \/ AssignMerged
         \/ Quiet
<1>1. CASE Desktop
  BY <1>1 DEF Desktop
<1>2. CASE Launch
  <2>1. BeginRound \/ RunManual => Quiet
    BY DEF BeginRound, RunManual, Quiet, core, sync, history
  <2>2. \A p \in Projects : PassOver(p) \/ FindProject(p) => Quiet
    BY DEF PassOver, FindProject, Quiet, core, sync, history
  <2>3. \A l \in Launchers : Register(l) => Quiet
    BY DEF Register, Quiet, sync, history
  <2>4. QED BY <1>2, <2>1, <2>2, <2>3 DEF Launch
<1>3. CASE Workers
  <2>1. \A o \in Objects : PopRun(o) \/ EndWorker(o) => Quiet
    BY DEF PopRun, EndWorker, Quiet, sync, history
  <2>2. QED BY <1>3, <2>1 DEF Workers
<1>4. CASE ApiThread
  <2>1. HasLiveRuntime \/ FindLiveNames => Quiet
    BY DEF HasLiveRuntime, FindLiveNames, Quiet, core, history
  <2>2. QED BY <1>4, <2>1 DEF ApiThread
<1>5. QED BY <1>1, <1>2, <1>3, <1>4 DEF Next

\* What the objects of the listed projects are.
LEMMA ListedObjects ==
  ASSUME TypeOK
  PROVE  /\ DOMAIN projects \subseteq Projects
         /\ \A p \in DOMAIN projects : <<p, projects[p]>> \in Objects /\ data[<<p, projects[p]>>] \in Data
<1>1. DOMAIN projects \subseteq Projects /\ \A p \in DOMAIN projects : projects[p] \in 1 .. MaxObjects
  BY ListElim DEF TypeOK
<1>2. QED BY <1>1 DEF Objects, TypeOK
-----------------------------------------------------------------------------
(* No project is lost: every list that is written to the file, or that the   *)
(* file is read into, has the projects that nobody deleted.  Only the list   *)
(* that load_data fills has not, and a save in that time tears the file.     *)

KeepInv ==
  torn \/ /\ kept \subseteq DOMAIN file /\ kept \subseteq DOMAIN ui
          /\ sync_at # "append" => kept \subseteq DOMAIN projects
          /\ sync_at \in {"append", "names", "assign"} => kept \subseteq DOMAIN incoming

LEMMA KeepInvInit == Init => KeepInv
  BY DEF Init, KeepInv

LEMMA EngineSaveKeeps ==
  ASSUME TypeOK, KeepInv, NEW d, EngineSave(d),
         UNCHANGED <<ui, projects, incoming, sync_at, kept>>
  PROVE  KeepInv'
  BY DEF EngineSave, KeepInv

LEMMA KeepInvNext == ASSUME Inv, SyncPhase, KeepInv, [Next]_vars PROVE KeepInv'
<1> USE DEF Inv
<1>1. ASSUME NEW p \in Projects, EditProject(p) \/ AddProject(p) \/ DeleteProject(p) PROVE KeepInv'
  <2>1. PICK list \in Lists(Data), seen \in SUBSET Projects : Save(list, seen) /\ kept' \cap DOMAIN ui = kept' \cap DOMAIN list
    BY <1>1, WhatIsSaved
  <2>2. kept' \subseteq kept
    BY <1>1, WhatIsSaved
  <2>3. DOMAIN ui' = DOMAIN list
    BY <2>1, RefreshKeeps DEF Save
  <2>4. UNCHANGED <<file, projects, incoming, sync_at, torn>>
    BY <2>1 DEF Save, core, sync
  <2>5. QED BY <2>1, <2>2, <2>3, <2>4 DEF KeepInv
<1>2. CASE WriteFile
  BY <1>2 DEF WriteFile, KeepInv, core, SyncPhase
<1>3. CASE Synced
  BY <1>3 DEF Synced, KeepInv, core, history
<1>4. CASE OpenAgain
  <2>1. DOMAIN ui' = DOMAIN file
    BY <1>4, RefreshKeeps DEF OpenAgain, TypeOK
  <2>2. QED BY <1>4, <2>1 DEF OpenAgain, KeepInv, SyncPhase, core
<1>5. ASSUME NEW p \in Projects, ConsumeTicket(p) PROVE KeepInv'
  BY <1>5, EngineSaveKeeps DEF ConsumeTicket, sync
<1>6. ASSUME NEW o \in Objects, FinishLogic(o) PROVE KeepInv'
  BY <1>6, EngineSaveKeeps DEF FinishLogic, sync
<1>7. CASE BeginLoad
  BY <1>7 DEF BeginLoad, KeepInv, history
<1>8. ASSUME NEW p \in Projects, AppendProject(p) PROVE KeepInv'
  BY <1>8 DEF AppendProject, KeepInv, sync, history
<1>9. CASE EndLoad
  BY <1>9 DEF EndLoad, KeepInv, core, history
<1>10. CASE LoadLegacyProjects
  BY <1>10 DEF LoadLegacyProjects, KeepInv, core, history
<1>11. CASE AssignMerged
  <2>1. DOMAIN projects' = MergedNames
    BY <1>11 DEF AssignMerged
  <2>2. DOMAIN incoming \subseteq DOMAIN projects'
    BY <2>1 DEF MergedNames
  <2>3. QED BY <1>11, <2>2 DEF AssignMerged, KeepInv, history
<1>12. CASE Quiet
  BY <1>12 DEF Quiet, KeepInv, HasLiveRuntime, FindLiveNames
<1>13. CASE UNCHANGED vars
  BY <1>13 DEF vars, core, sync, history, KeepInv
<1>14. QED BY <1>1, <1>2, <1>3, <1>4, <1>5, <1>6, <1>7, <1>8, <1>9, <1>10, <1>11, <1>12, <1>13, Steps

\* Two processes overwrite one file, yet no project that nobody deleted leaves
\* it, unless a run saved the list while load_data was filling it.
THEOREM KeptProjects == Spec => []NoProjectLost
<1>1. KeepInv => NoProjectLost
  BY DEF KeepInv, NoProjectLost
<1>2. QED BY <1>1, KeepInvInit, KeepInvNext, InvHolds, SyncPhaseHolds, PTL DEF Spec
-----------------------------------------------------------------------------
(* An edit arrives: from the file to the list that was read, and from there  *)
(* to the objects, the settings are those of the desktop program.            *)

SameSettings(list) ==
  /\ DOMAIN list = DOMAIN ui
  /\ \A p \in DOMAIN ui : list[p].settings = ui[p].settings

EditInv ==
  /\ ~ overwritten /\ sync_at \in {"check", "load", "merge"} => SameSettings(file)
  /\ ~ overwritten /\ sync_at \in {"append", "names", "assign"} => SameSettings(incoming)
  /\ sync_at = "append" => DOMAIN projects \subseteq DOMAIN incoming
  /\ ~ overwritten /\ sync_at = "append" =>
       \A p \in DOMAIN projects : data[<<p, projects[p]>>].settings = ui[p].settings
  /\ EditsArrive

LEMMA EditInvInit == Init => EditInv
  BY DEF Init, EditInv, EditsArrive

\* A save of the engine while it syncs: the settings of the objects stay, and
\* the file is overwritten when it has not been read.
LEMMA EngineSaveLeavesEdits ==
  ASSUME TypeOK, EditInv, NEW d, EngineSave(d),
         UNCHANGED <<ui, projects, incoming, sync_at, live_names>>,
         \A o \in Objects : data'[o].settings = data[o].settings
  PROVE  EditInv'
<1>1. \A p \in DOMAIN projects : data'[<<p, projects[p]>>].settings = data[<<p, projects[p]>>].settings
  BY ListedObjects
<1>2. \A list : SameSettings(list)' <=> SameSettings(list)
  BY DEF SameSettings
<1>3. overwritten' = (overwritten \/ sync_at \in {"check", "load", "merge"})
  BY DEF EngineSave
<1>4. EditsArrive'
  <2>1. SUFFICES ASSUME sync_at = "answer", ~ overwritten', NEW p \in Projects \ live_names
                 PROVE  /\ (p \in DOMAIN ui) <=> (p \in DOMAIN projects)
                        /\ p \in DOMAIN ui => data'[<<p, projects[p]>>].settings = ui[p].settings
    BY DEF EditsArrive
  <2>2. ~ overwritten
    BY <1>3, <2>1
  <2>3. QED BY <1>1, <2>1, <2>2 DEF EditInv, EditsArrive
<1>5. QED BY <1>1, <1>2, <1>3, <1>4 DEF EditInv, SameSettings

\* Outside the sync there is nothing to say.
LEMMA NoSyncNoEdits == ASSUME sync_at' = "none" PROVE EditInv'
  BY DEF EditInv, EditsArrive

LEMMA EditInvNext == ASSUME Inv, SyncPhase, EditInv, [Next]_vars PROVE EditInv'
<1> USE DEF Inv
<1>1. ASSUME NEW p \in Projects, EditProject(p) \/ AddProject(p) \/ DeleteProject(p) PROVE EditInv'
  <2>1. sync_at = "none"
    BY <1>1, WhatIsSaved DEF SyncPhase
  <2>2. sync_at' = sync_at
    BY <1>1, WhatIsSaved DEF Save, sync
  <2>3. QED BY <2>1, <2>2, NoSyncNoEdits
<1>2. CASE WriteFile
  BY <1>2 DEF WriteFile, EditInv, EditsArrive, SameSettings
<1>3. CASE Synced
  BY <1>3, NoSyncNoEdits DEF Synced
<1>4. CASE OpenAgain
  <2>1. DOMAIN ui' = DOMAIN file /\ \A p \in DOMAIN file : ui'[p].settings = file[p].settings
    BY <1>4, RefreshKeeps DEF OpenAgain, TypeOK
  <2>2. QED BY <1>4, <2>1 DEF OpenAgain, EditInv, EditsArrive, SameSettings
<1>5. ASSUME NEW p \in Projects, ConsumeTicket(p) PROVE EditInv'
  <2>1. \A o \in Objects : data'[o].settings = data[o].settings
    BY <1>5 DEF ConsumeTicket, TypeOK, Data
  <2>2. QED BY <1>5, <2>1, EngineSaveLeavesEdits DEF ConsumeTicket, sync
<1>6. ASSUME NEW o \in Objects, FinishLogic(o) PROVE EditInv'
  BY <1>6, EngineSaveLeavesEdits DEF FinishLogic, sync
<1>7. CASE BeginLoad
  BY <1>7 DEF BeginLoad, EditInv, EditsArrive, SameSettings, history, Empty
<1>8. ASSUME NEW p \in Projects, AppendProject(p) PROVE EditInv'
  <2> DEFINE n == FreeObject(p)
  <2>1. /\ sync_at = "append" /\ p \in DOMAIN incoming \ DOMAIN projects
        /\ n \in 1 .. MaxObjects
        /\ projects' = [q \in DOMAIN projects \cup {p} |-> IF q = p THEN n ELSE projects[q]]
        /\ data' = [data EXCEPT ![<<p, n>>] = LoadedData(incoming[p], p)]
        /\ UNCHANGED <<file, ui, incoming, live_names, sync_at, overwritten>>
    BY <1>8, FreeIsObject DEF AppendProject, sync, history
  <2>2. incoming[p] \in Data
    BY <2>1, ListElim DEF TypeOK
  <2>3. LoadedData(incoming[p], p).settings = incoming[p].settings
    BY <2>2 DEF LoadedData, Data
  <2>4. <<p, n>> \in Objects
    BY <2>1 DEF Objects
  <2>5. data'[<<p, projects'[p]>>].settings = incoming[p].settings
    BY <2>1, <2>3, <2>4 DEF TypeOK
  <2>6. \A q \in DOMAIN projects : q # p /\ data'[<<q, projects'[q]>>] = data[<<q, projects[q]>>]
    BY <2>1, <2>4, ListedObjects DEF TypeOK
  <2>7. DOMAIN projects' = DOMAIN projects \cup {p}
    BY <2>1
  <2>8. QED BY <2>1, <2>5, <2>6, <2>7 DEF EditInv, EditsArrive, SameSettings
<1>9. CASE EndLoad
  BY <1>9 DEF EndLoad, EditInv, EditsArrive, SameSettings, core, history
<1>10. CASE LoadLegacyProjects
  BY <1>10 DEF LoadLegacyProjects, EditInv, EditsArrive, SameSettings, core, history
<1>11. CASE AssignMerged
  <2> DEFINE fresh == {p \in MergedNames : ~ KeepsObject(p)}
             object == [p \in MergedNames |-> IF p \in fresh THEN FreeObject(p) ELSE projects[p]]
  <2>1. /\ sync_at = "assign" /\ sync_at' = "answer"
        /\ \A p \in fresh : FreeObjects(p) # {}
        /\ projects' = object
        /\ data' = [o \in Objects |-> IF o[1] \in fresh /\ object[o[1]] = o[2]
                                      THEN incoming[o[1]] ELSE data[o]]
        /\ UNCHANGED <<ui, live_names, overwritten>>
    BY <1>11 DEF AssignMerged, history
  <2>2. SUFFICES ASSUME ~ overwritten, NEW p \in Projects \ live_names
                 PROVE  /\ (p \in DOMAIN ui) <=> (p \in DOMAIN projects')
                        /\ p \in DOMAIN ui => data'[<<p, projects'[p]>>].settings = ui[p].settings
    BY <2>1 DEF EditInv, EditsArrive
  <2>3. SameSettings(incoming)
    BY <2>1, <2>2 DEF EditInv
  <2>4. p \in MergedNames <=> p \in DOMAIN incoming
    BY <2>2 DEF MergedNames
  <2>5. ASSUME p \in DOMAIN ui PROVE data'[<<p, projects'[p]>>] = incoming[p]
    <3>1. p \in fresh
      BY <2>2, <2>3, <2>4, <2>5 DEF SameSettings, KeepsObject
    <3>2. object[p] = FreeObject(p) /\ FreeObject(p) \in 1 .. MaxObjects
      BY <2>1, <3>1, FreeIsObject
    <3>3. <<p, object[p]>> \in Objects
      BY <3>2 DEF Objects
    <3>4. QED BY <2>1, <3>1, <3>3
  <2>6. QED BY <2>1, <2>3, <2>4, <2>5 DEF SameSettings
<1>12. CASE Quiet
  BY <1>12 DEF Quiet, EditInv, EditsArrive, SameSettings, HasLiveRuntime, FindLiveNames
<1>13. CASE UNCHANGED vars
  BY <1>13 DEF vars, core, sync, history, EditInv, EditsArrive, SameSettings
<1>14. QED BY <1>1, <1>2, <1>3, <1>4, <1>5, <1>6, <1>7, <1>8, <1>9, <1>10, <1>11, <1>12, <1>13, Steps

\* When the engine answers POST /sync, its list is that of the desktop program
\* for every project that was not live, whatever was launched or finished
\* meanwhile, unless a save of the engine overwrote the file before it was read.
THEOREM EditsReachEngine == Spec => []EditsArrive
<1>1. EditInv => EditsArrive
  BY DEF EditInv
<1>2. QED BY <1>1, EditInvInit, EditInvNext, InvHolds, SyncPhaseHolds, PTL DEF Spec
-----------------------------------------------------------------------------
(* A consumed ticket stays consumed: it is due again in no list from which   *)
(* it could come back to the engine.  In the desktop program's own list it   *)
(* may be due while nothing is saved, as long as the engine, whose row it    *)
(* reads before the next save, has the project.                              *)

Used(p) == p \in kept \ forgotten /\ consumed[p] >= 1
DueIn(list, p) == p \in DOMAIN list /\ list[p].last_consumed_ticket # "today"

StaysUsed(p) ==
  /\ p \in DOMAIN projects => data[<<p, projects[p]>>].last_consumed_ticket = "today"
  /\ ~ DueIn(file, p)
  /\ ui_at # "idle" => ~ DueIn(ui, p)
  /\ sync_at \in {"names", "assign"} => ~ DueIn(incoming, p)
  /\ DueIn(ui, p) => p \in DOMAIN projects

TicketInv == TicketRunsOnce /\ \A p \in Projects : Used(p) => StaysUsed(p)

LEMMA TicketInvInit == Init => TicketInv
<1> SUFFICES ASSUME Init PROVE TicketInv
  OBVIOUS
<1>1. \A p \in Projects : consumed[p] = 0
  BY DEF Init
<1>2. kept \subseteq Projects
  BY DEF Init
<1>3. QED BY <1>1, <1>2 DEF TicketInv, TicketRunsOnce, Used

\* A project is used up after a step that consumes nothing only if it was before.
LEMMA UsedBefore ==
  ASSUME TypeOK, TicketInv, UNCHANGED consumed, kept' \subseteq kept, forgotten \subseteq forgotten'
  PROVE  /\ TicketRunsOnce'
         /\ \A p \in Projects : Used(p)' => Used(p) /\ StaysUsed(p) /\ consumed[p] > 0
  BY DEF TicketInv, TicketRunsOnce, Used, TypeOK

\* What the engine saves has the tickets of its objects.
LEMMA SavedTickets ==
  ASSUME NEW d, EngineSave(d), NEW p,
         p \in DOMAIN projects => d[<<p, projects[p]>>].last_consumed_ticket = "today"
  PROVE  ~ DueIn(file', p)
  BY DEF EngineSave, DueIn

LEMMA TicketInvNext == ASSUME Inv, SyncPhase, TicketInv, [Next]_vars PROVE TicketInv'
<1> USE DEF Inv
<1>1. ASSUME NEW q \in Projects, EditProject(q) \/ AddProject(q) \/ DeleteProject(q) PROVE TicketInv'
  <2>1. PICK list \in Lists(Data), seen \in SUBSET Projects :
          /\ Save(list, seen)
          /\ kept' \cap DOMAIN ui = kept' \cap DOMAIN list
          /\ \A p \in kept' \cap DOMAIN list : list[p].last_consumed_ticket = ui[p].last_consumed_ticket
    BY <1>1, WhatIsSaved
  <2>2. kept' \subseteq kept
    BY <1>1, WhatIsSaved
  <2>3. /\ ui' = RefreshCore(list, seen)
        /\ forgotten' = forgotten \cup
             {p \in DOMAIN list \cap (EngineUsed \ seen) : list[p].last_consumed_ticket # "today"}
        /\ UNCHANGED <<file, projects, data, sync_at, incoming, consumed>>
    BY <2>1 DEF Save, core, sync
  <2>4. ASSUME NEW p \in Projects, Used(p)' PROVE StaysUsed(p)'
    <3>1. Used(p) /\ StaysUsed(p) /\ p \in kept' /\ p \notin forgotten'
      BY <2>2, <2>3, <2>4, UsedBefore DEF Used
    <3>2. ~ DueIn(ui', p)
      <4> SUFFICES ASSUME DueIn(ui', p) PROVE FALSE
        OBVIOUS
      <4>1. p \in DOMAIN list /\ p \notin seen /\ list[p].last_consumed_ticket # "today"
        BY <2>3, RefreshKeeps DEF DueIn
      <4>2. DueIn(ui, p)
        BY <2>1, <3>1, <4>1 DEF DueIn
      <4>3. p \in DOMAIN projects /\ data[<<p, projects[p]>>].last_consumed_ticket = "today"
        BY <3>1, <4>2 DEF StaysUsed
      <4>4. p \in EngineUsed
        <5>1. <<p, projects[p]>> \in Listed
          BY <4>3 DEF Listed
        <5>2. QED BY <4>3, <5>1 DEF EngineUsed
      <4>5. QED BY <2>3, <3>1, <4>1, <4>4
    <3>3. QED BY <2>3, <3>1, <3>2 DEF StaysUsed
  <2>5. TicketRunsOnce'
    BY <2>2, <2>3, UsedBefore
  <2>6. QED BY <2>4, <2>5 DEF TicketInv
<1>2. CASE WriteFile
  <2>1. /\ ui_at = "write" /\ file' = ui /\ ui' = ui /\ sync_at' = "check"
        /\ UNCHANGED <<projects, data, consumed, kept, forgotten>>
    BY <1>2 DEF WriteFile, core
  <2>2. \A p \in Projects : StaysUsed(p) => StaysUsed(p)'
    BY <2>1 DEF StaysUsed, DueIn
  <2>3. QED BY <2>1, <2>2, UsedBefore DEF TicketInv
<1>3. CASE Synced
  <2>1. /\ ui_at' = "idle" /\ sync_at' = "none"
        /\ UNCHANGED <<file, ui, projects, data, consumed, kept, forgotten>>
    BY <1>3 DEF Synced, core, history
  <2>2. \A p \in Projects : StaysUsed(p) => StaysUsed(p)'
    BY <2>1 DEF StaysUsed, DueIn
  <2>3. QED BY <2>1, <2>2, UsedBefore DEF TicketInv
<1>4. CASE OpenAgain
  <2>1. /\ ui' = RefreshCore(file, Traced) /\ sync_at' = "check"
        /\ UNCHANGED <<file, projects, data, consumed, kept, forgotten>>
    BY <1>4 DEF OpenAgain, core
  <2>2. \A p \in Traced : ~ DueIn(ui', p)
    BY <2>1, RefreshKeeps DEF DueIn, TypeOK
  <2>3. \A p \in Projects : StaysUsed(p) /\ p \in Traced => StaysUsed(p)'
    BY <2>1, <2>2 DEF StaysUsed, DueIn
  <2>4. \A p \in Projects : consumed[p] > 0 => p \in Traced
    BY DEF Traced
  <2>5. QED BY <2>1, <2>3, <2>4, UsedBefore DEF TicketInv
<1>5. ASSUME NEW q \in Projects, ConsumeTicket(q) PROVE TicketInv'
  <2> DEFINE o == <<q, round[q]>>
  <2>1. /\ data[o].last_consumed_ticket # "today"
        /\ data' = [data EXCEPT ![o].last_consumed_ticket = "today"]
        /\ consumed' = [consumed EXCEPT ![q] = @ + 1]
        /\ forgotten' = IF ui_at # "idle" \/ o \notin Listed THEN forgotten \cup {q} ELSE forgotten
        /\ EngineSave(data')
        /\ UNCHANGED <<ui, ui_at, projects, sync_at, incoming, kept>>
    BY <1>5 DEF ConsumeTicket, sync
  <2>2. o \in Objects
    BY <1>5, ListElim DEF ConsumeTicket, TypeOK, Objects
  <2>3. \A a \in Objects : data[a].last_consumed_ticket = "today" => data'[a].last_consumed_ticket = "today"
    BY <2>1, <2>2 DEF TypeOK, Data
  <2>4. ASSUME NEW p \in Projects, Used(p), StaysUsed(p) PROVE StaysUsed(p)'
    <3>1. p \in DOMAIN projects => data'[<<p, projects[p]>>].last_consumed_ticket = "today"
      BY <2>3, <2>4, ListedObjects DEF StaysUsed
    <3>2. ~ DueIn(file', p)
      BY <2>1, <3>1, SavedTickets
    <3>3. QED BY <2>1, <2>4, <3>1, <3>2 DEF StaysUsed
  <2>5. ASSUME NEW p \in Projects, p # q, Used(p)' PROVE Used(p)
    BY <2>1, <2>5 DEF Used, TypeOK
  <2>6. ASSUME q \in kept' \ forgotten' PROVE StaysUsed(q)' /\ consumed'[q] = 1
    <3>1. ui_at = "idle" /\ o \in Listed /\ q \in kept \ forgotten
      BY <2>1, <2>6
    <3>2. q \in DOMAIN projects /\ projects[q] = round[q]
      BY <3>1 DEF Listed
    <3>3. ~ Used(q)
      BY <2>1, <3>2 DEF TicketInv, StaysUsed
    <3>4. consumed'[q] = 1
      BY <2>1, <3>1, <3>3 DEF Used, TypeOK
    <3>5. data'[<<q, projects[q]>>].last_consumed_ticket = "today"
      BY <2>1, <2>2, <3>2 DEF TypeOK, Data
    <3>6. ~ DueIn(file', q)
      BY <2>1, <3>5, SavedTickets
    <3>7. sync_at = "none"
      BY <3>1 DEF SyncPhase
    <3>8. QED BY <2>1, <3>1, <3>2, <3>4, <3>5, <3>6, <3>7 DEF StaysUsed
  <2>7. TicketRunsOnce'
    <3>1. \A p \in kept \ forgotten : consumed[p] <= 1
      BY DEF TicketInv, TicketRunsOnce
    <3>2. kept \subseteq Projects /\ forgotten \subseteq forgotten'
      BY <2>1 DEF TypeOK
    <3>3. \A p \in Projects : p # q => consumed'[p] = consumed[p]
      BY <2>1 DEF TypeOK
    <3>4. \A p \in kept' \ forgotten' : consumed'[p] <= 1
      BY <2>1, <2>6, <3>1, <3>2, <3>3
    <3>5. QED BY <3>4 DEF TicketRunsOnce
  <2>8. ASSUME NEW p \in Projects, Used(p)' PROVE StaysUsed(p)'
    <3>1. CASE p = q
      BY <2>6, <2>8, <3>1 DEF Used
    <3>2. CASE p # q
      BY <2>4, <2>5, <2>8, <3>2 DEF TicketInv
    <3>3. QED BY <3>1, <3>2
  <2>9. QED BY <2>7, <2>8 DEF TicketInv
<1>6. ASSUME NEW o \in Objects, FinishLogic(o) PROVE TicketInv'
  <2>1. /\ EngineSave(data)
        /\ UNCHANGED <<ui, ui_at, projects, data, sync_at, incoming, consumed, kept, forgotten>>
    BY <1>6 DEF FinishLogic, sync
  <2>2. \A p \in Projects : StaysUsed(p) => ~ DueIn(file', p)
    BY <2>1, SavedTickets DEF StaysUsed
  <2>3. \A p \in Projects : StaysUsed(p) => StaysUsed(p)'
    BY <2>1, <2>2 DEF StaysUsed
  <2>4. QED BY <2>1, <2>3, UsedBefore DEF TicketInv
<1>7. CASE BeginLoad
  <2>1. /\ sync_at = "load" /\ sync_at' = "append" /\ DOMAIN projects' = {}
        /\ UNCHANGED <<file, ui, ui_at, consumed, kept, forgotten>>
    BY <1>7 DEF BeginLoad, history, Empty
  <2>2. ui_at # "idle"
    BY <2>1 DEF SyncPhase
  <2>3. \A p \in Projects : StaysUsed(p) => StaysUsed(p)'
    BY <2>1, <2>2 DEF StaysUsed
  <2>4. QED BY <2>1, <2>3, UsedBefore DEF TicketInv
<1>8. ASSUME NEW q \in Projects, AppendProject(q) PROVE TicketInv'
  <2> DEFINE n == FreeObject(q)
  <2>1. /\ sync_at = "append" /\ q \in DOMAIN incoming \ DOMAIN projects
        /\ n \in 1 .. MaxObjects
        /\ projects' = [p \in DOMAIN projects \cup {q} |-> IF p = q THEN n ELSE projects[p]]
        /\ data' = [data EXCEPT ![<<q, n>>] = LoadedData(incoming[q], q)]
        /\ UNCHANGED <<file, ui, ui_at, incoming, sync_at, consumed, kept, forgotten>>
    BY <1>8, FreeIsObject DEF AppendProject, sync, history
  <2>2. incoming[q] \in Data
    BY <2>1, ListElim DEF TypeOK
  <2>3. <<q, n>> \in Objects
    BY <2>1 DEF Objects
  <2>4. data'[<<q, projects'[q]>>] = LoadedData(incoming[q], q)
    BY <2>1, <2>3 DEF TypeOK
  <2>5. \A p \in DOMAIN projects : p # q /\ data'[<<p, projects'[p]>>] = data[<<p, projects[p]>>]
    BY <2>1, <2>3, ListedObjects DEF TypeOK
  <2>6. consumed[q] > 0 => data'[<<q, projects'[q]>>].last_consumed_ticket = "today"
    BY <2>2, <2>4 DEF LoadedData, Traced, Data
  <2>7. DOMAIN projects' = DOMAIN projects \cup {q}
    BY <2>1
  <2>8. \A p \in Projects : StaysUsed(p) /\ consumed[p] > 0 => StaysUsed(p)'
    BY <2>1, <2>5, <2>6, <2>7 DEF StaysUsed
  <2>9. QED BY <2>1, <2>8, UsedBefore DEF TicketInv
<1>9. CASE EndLoad
  <2>1. /\ sync_at' = "answer"
        /\ UNCHANGED <<file, ui, ui_at, projects, data, consumed, kept, forgotten>>
    BY <1>9 DEF EndLoad, core, history
  <2>2. \A p \in Projects : StaysUsed(p) => StaysUsed(p)'
    BY <2>1 DEF StaysUsed
  <2>3. QED BY <2>1, <2>2, UsedBefore DEF TicketInv
<1>10. CASE LoadLegacyProjects
  <2>1. /\ incoming' = file
        /\ UNCHANGED <<file, ui, ui_at, projects, data, consumed, kept, forgotten>>
    BY <1>10 DEF LoadLegacyProjects, core, history
  <2>2. \A p \in Projects : StaysUsed(p) => StaysUsed(p)'
    BY <2>1 DEF StaysUsed
  <2>3. QED BY <2>1, <2>2, UsedBefore DEF TicketInv
<1>11. CASE AssignMerged
  <2> DEFINE fresh == {p \in MergedNames : ~ KeepsObject(p)}
             object == [p \in MergedNames |-> IF p \in fresh THEN FreeObject(p) ELSE projects[p]]
  <2>1. /\ sync_at = "assign" /\ sync_at' = "answer"
        /\ \A p \in fresh : FreeObjects(p) # {}
        /\ projects' = object
        /\ data' = [a \in Objects |-> IF a[1] \in fresh /\ object[a[1]] = a[2]
                                      THEN incoming[a[1]] ELSE data[a]]
        /\ UNCHANGED <<file, ui, ui_at, consumed, kept, forgotten>>
    BY <1>11 DEF AssignMerged, history
  <2>2. ui_at # "idle"
    BY <2>1 DEF SyncPhase
  <2>3. ASSUME NEW p \in Projects, StaysUsed(p), p \in DOMAIN projects'
        PROVE  data'[<<p, projects'[p]>>].last_consumed_ticket = "today"
    <3>1. p \in MergedNames
      BY <2>1, <2>3
    <3>2. CASE p \in fresh
      <4>1. object[p] \in 1 .. MaxObjects
        BY <2>1, <3>2, FreeIsObject
      <4>2. <<p, object[p]>> \in Objects
        BY <4>1 DEF Objects
      <4>3. data'[<<p, projects'[p]>>] = incoming[p]
        BY <2>1, <3>2, <4>2
      <4>4. p \in DOMAIN incoming
        BY <3>2 DEF MergedNames, KeepsObject
      <4>5. QED BY <2>1, <2>3, <4>3, <4>4 DEF StaysUsed, DueIn
    <3>3. CASE p \notin fresh
      <4>1. p \in DOMAIN projects /\ projects'[p] = projects[p]
        BY <2>1, <3>1, <3>3 DEF KeepsObject
      <4>2. <<p, projects[p]>> \in Objects
        BY <4>1, ListedObjects
      <4>3. data'[<<p, projects[p]>>] = data[<<p, projects[p]>>]
        BY <2>1, <3>3, <4>2
      <4>4. QED BY <2>3, <4>1, <4>3 DEF StaysUsed
    <3>4. QED BY <3>2, <3>3
  <2>4. \A p \in Projects : StaysUsed(p) => StaysUsed(p)'
    BY <2>1, <2>2, <2>3 DEF StaysUsed
  <2>5. QED BY <2>1, <2>4, UsedBefore DEF TicketInv
<1>12. CASE Quiet
  <2>1. \A p \in Projects : StaysUsed(p) => StaysUsed(p)'
    BY <1>12 DEF Quiet, StaysUsed, HasLiveRuntime, FindLiveNames
  <2>2. QED BY <1>12, <2>1, UsedBefore DEF Quiet, TicketInv
<1>13. CASE UNCHANGED vars
  <2>1. /\ UNCHANGED <<file, ui, ui_at, projects, data, sync_at, incoming>>
        /\ UNCHANGED <<consumed, kept, forgotten>>
    BY <1>13 DEF vars, core, sync, history
  <2>2. \A p \in Projects : StaysUsed(p) => StaysUsed(p)'
    BY <2>1 DEF StaysUsed
  <2>3. QED BY <2>1, <2>2, UsedBefore DEF TicketInv
<1>14. QED BY <1>1, <1>2, <1>3, <1>4, <1>5, <1>6, <1>7, <1>8, <1>9, <1>10, <1>11, <1>12, <1>13, Steps

\* Edits, reloads, merges and restarts of the desktop program make no ticket due
\* again that the scheduler consumed, but for those that `forgotten` names.
THEOREM TicketsOnce == Spec => []TicketRunsOnce
<1>1. TicketInv => TicketRunsOnce
  BY DEF TicketInv
<1>2. QED BY <1>1, TicketInvInit, TicketInvNext, InvHolds, SyncPhaseHolds, PTL DEF Spec
=============================================================================

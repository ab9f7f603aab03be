------------------------------ MODULE RunSlot ------------------------------
(***************************************************************************)
(* What launching promises, project by project: a run reserves the slot of *)
(* its project, executes in it and gives it back.  A launch that fails     *)
(* after the reservation abandons it.  Nothing else happens to a slot, and *)
(* a slot never holds two runs.                                            *)
(***************************************************************************)
CONSTANT Projects
VARIABLE slots

SlotStates == {"free", "reserved", "executing"}
Init == slots = [p \in Projects |-> "free"]

Move(p, from, to) == slots[p] = from /\ slots' = [slots EXCEPT ![p] = to]
Reserve(p) == Move(p, "free", "reserved")
Begin(p)   == Move(p, "reserved", "executing")
Abandon(p) == Move(p, "reserved", "free")
End(p)     == Move(p, "executing", "free")

Next == \E p \in Projects : Reserve(p) \/ Begin(p) \/ Abandon(p) \/ End(p)
Spec == Init /\ [][Next]_slots
=============================================================================

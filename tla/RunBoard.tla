------------------------------ MODULE RunBoard ------------------------------
(***************************************************************************)
(* What the nodes promise together, ticket by ticket: a scheduled ticket   *)
(* is executed at most once, by one node.  The execution ends, with its    *)
(* project or with its node, and the ticket is used up.                    *)
(***************************************************************************)
CONSTANTS Nodes, Tickets
VARIABLES used, executing

Init == used = {} /\ executing = {}

Execute(n, k) ==
  /\ k \notin used
  /\ used' = used \cup {k}
  /\ executing' = executing \cup {<<n, k>>}

End(n, k) ==
  /\ <<n, k>> \in executing
  /\ executing' = executing \ {<<n, k>>}
  /\ UNCHANGED used

Next == \E n \in Nodes, k \in Tickets : Execute(n, k) \/ End(n, k)
Spec == Init /\ [][Next]_<<used, executing>>
=============================================================================

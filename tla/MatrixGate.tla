------------------------------ MODULE MatrixGate ------------------------------
(***************************************************************************)
(* What the compatibility matrix promises its maintainers, with steps,     *)
(* files, artifacts and reports left out: cells are planned once, each     *)
(* ends once, and when all have ended there is one verdict.  It may be red *)
(* for any reason, but green only if there were cells and each of them     *)
(* earned it.                                                              *)
(***************************************************************************)
VARIABLES
    planned,     \* whether it is known which cells there are
    results,     \* of each cell: "running", "earned", "failed"
    verdict      \* "none", "green", "red"

vars == <<planned, results, verdict>>

Cells == DOMAIN results

Init ==
    /\ planned = FALSE
    /\ Cells = {}
    /\ verdict = "none"

(* no cells, if the plan is refused *)
Plan ==
    /\ ~planned
    /\ planned' = TRUE
    /\ results' = [i \in Cells' |-> "running"]
    /\ UNCHANGED verdict

EndCell(i) ==
    /\ results[i] = "running"
    /\ results' \in {[results EXCEPT ![i] = r] : r \in {"earned", "failed"}}
    /\ UNCHANGED <<planned, verdict>>

Judge ==
    /\ planned /\ verdict = "none"
    /\ \A i \in Cells : results[i] # "running"
    /\ \/ verdict' = "red"
       \/ verdict' = "green" /\ Cells # {} /\ \A i \in Cells : results[i] = "earned"
    /\ UNCHANGED <<planned, results>>

Next == Plan \/ (\E i \in Cells : EndCell(i)) \/ Judge

Spec == Init /\ [][Next]_vars
==============================================================================

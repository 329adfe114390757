----------------------------- MODULE BoundedCall -----------------------------
(***************************************************************************)
(* What runCheck promises its callers (main.ts, canary.ts), with the       *)
(* process, the pipes and the timers left out: one call is made, it is     *)
(* settled at most once, and what it is settled with is decided by what    *)
(* was observed before: an output over the limit, else a missed deadline,  *)
(* else the child's own result.                                            *)
(***************************************************************************)
VARIABLES
    call,        \* "idle", "pending", or the way the call was settled
    expired,     \* the deadline passed while the call was pending
    overflowed   \* the captured output exceeded its limit

vars == <<call, expired, overflowed>>

Rejections == {"invalid", "spawnError", "overflow", "timeout"}
Settlements == Rejections \cup {"result"}

TypeOK ==
    /\ call \in {"idle", "pending"} \cup Settlements
    /\ expired \in BOOLEAN
    /\ overflowed \in BOOLEAN

Init ==
    /\ call = "idle"
    /\ expired = FALSE
    /\ overflowed = FALSE

Begin ==
    /\ call = "idle"
    /\ call' \in {"pending", "invalid", "spawnError"}
    /\ UNCHANGED <<expired, overflowed>>

Expire ==
    /\ call = "pending"
    /\ expired' = TRUE
    /\ UNCHANGED <<call, overflowed>>

Overflow ==
    /\ call = "pending"
    /\ overflowed' = TRUE
    /\ UNCHANGED <<call, expired>>

FailToStart ==
    /\ call = "pending"
    /\ ~expired
    /\ ~overflowed
    /\ call' = "spawnError"
    /\ UNCHANGED <<expired, overflowed>>

RejectOverflow ==
    /\ call = "pending"
    /\ overflowed
    /\ call' = "overflow"
    /\ UNCHANGED <<expired, overflowed>>

RejectTimeout ==
    /\ call = "pending"
    /\ expired
    /\ ~overflowed
    /\ call' = "timeout"
    /\ UNCHANGED <<expired, overflowed>>

Resolve ==
    /\ call = "pending"
    /\ ~expired
    /\ ~overflowed
    /\ call' = "result"
    /\ UNCHANGED <<expired, overflowed>>

Next ==
    \/ Begin
    \/ Expire
    \/ Overflow
    \/ FailToStart
    \/ RejectOverflow
    \/ RejectTimeout
    \/ Resolve

Spec == Init /\ [][Next]_vars
==============================================================================

----------------------------- MODULE AtomicFetch -----------------------------
(***************************************************************************)
(* What httpsGetFile promises its callers, installPrebuiltRelease and the  *)
(* downloader that ensureVerifiedPack is given, with the response, the     *)
(* timer and the write stream left out: a fetch is settled once, with the  *)
(* whole file or with none, and nobody touches the file after that.        *)
(***************************************************************************)
VARIABLES
    fetch,       \* "idle", "pending", "delivered", "refused"
    file,        \* what the caller would find: "none", "partial", "whole"
    stubborn     \* the disk may refuse to give a file up

vars == <<fetch, file, stubborn>>

TypeOK ==
    /\ fetch \in {"idle", "pending", "delivered", "refused"}
    /\ file \in {"none", "partial", "whole"}
    /\ stubborn \in BOOLEAN

Init ==
    /\ fetch = "idle"
    /\ file = "none"
    /\ stubborn \in BOOLEAN

Begin ==
    /\ fetch = "idle"
    /\ fetch' = "pending"
    /\ UNCHANGED <<file, stubborn>>

(* what happens to the file meanwhile is nobody's business *)
Work ==
    /\ fetch = "pending"
    /\ file' \in {"partial", "whole"}
    /\ UNCHANGED <<fetch, stubborn>>

Deliver ==
    /\ fetch = "pending"
    /\ file = "whole"
    /\ fetch' = "delivered"
    /\ UNCHANGED <<file, stubborn>>

Refuse ==
    /\ fetch = "pending"
    /\ fetch' = "refused"
    /\ \/ file' = "none"
       \/ stubborn /\ UNCHANGED file
    /\ UNCHANGED stubborn

Next == Begin \/ Work \/ Deliver \/ Refuse

Spec == Init /\ [][Next]_vars
==============================================================================

----------------------------- MODULE MCRunCheck ------------------------------
(* Constants of the runs of RunCheck: limits of two and four units against  *)
(* chunks of up to three, so that a chunk can meet a limit exactly and pass *)
(* it by one, and stderr long enough to be trimmed twice.                   *)
EXTENDS RunCheck

MCTimeouts == {0, 1, 2, 3}
AnyHeir == BOOLEAN
==============================================================================

----------------------------- MODULE MCTagLookup -----------------------------
(* Two pages of one tag each, and lists of up to three tags, so that the tag *)
(* is on the first page, on the last, beyond it or absent.  Overall exceeds  *)
(* two idle timeouts and their delays, as 25 s exceeds two of 10 s, so that  *)
(* the third attempt of a request is cut short by the deadline.              *)
EXTENDS TagLookup

CONSTANTS t, a, b, c1, c2

Entry(n, s) == [name |-> n, sha |-> s]
MCFirstLists == {<<Entry(t, c1)>>, <<Entry(a, c2), Entry(t, c1)>>, <<Entry(a, c2), Entry(t, None)>>,
                 <<Entry(a, c2)>>, <<Entry(a, c2), Entry(b, c2), Entry(t, c1)>>}
==============================================================================

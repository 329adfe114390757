---------------------------- MODULE MCReporting ------------------------------
(* Two families of reports: small ones with every way of sending the counts, *)
(* and longer ones with every mix of short and long entries.                 *)
EXTENDS Reporting, TLC

Result(id, st, n) == [surface |-> "xdr", fixtureId |-> id, testId |-> "t", status |-> st, size |-> n]

(* what engines of several ages, and a faulty one, send as counts *)
CountsOf(r) ==
    {None, Derived(r), [Derived(r) EXCEPT !.total = @ + 1], [Derived(r) EXCEPT !.skipped = @ + 1],
     [Derived(r) EXCEPT !.skipped = None], [Derived(r) EXCEPT !.skipped = None, !.passed = @ + 1]}

With(r) == {[r EXCEPT !.counts = c] : c \in CountsOf(r)}

Small ==
    {[malformed |-> m, results |-> rs, skipped |-> sk, counts |-> None] :
        m \in BOOLEAN,
        rs \in {<<>>} \cup {<<Result("f", a, 1)>> : a \in Statuses}
                 \cup {<<Result(id, a, 1), Result(None, b, 1)>> :
                         id \in {"f", "t", None}, a \in Statuses, b \in Statuses},
        sk \in {None, <<>>, <<[rank |-> 0, size |-> 1]>>}}

Mixes(st, ids) == {[i \in 1..Len(ids) |-> Result(ids[i], st[i], n[i])] : n \in [1..Len(ids) -> {1, 4}]}

Long ==
    {[malformed |-> FALSE, results |-> rs, skipped |-> sk, counts |-> None] :
        rs \in UNION {Mixes(st, <<"f", "g", "h", "i">>) :
                 st \in {<<"fail", "warning", "error", "warning">>, <<"fail", "error", "fail", "warning">>,
                         <<"warning", "pass", "warning", "warning">>}},
        sk \in {None} \cup {<<[rank |-> 1, size |-> m], [rank |-> 0, size |-> n], [rank |-> 0, size |-> 2]>> :
                 m \in {1, 5}, n \in {1, 3}}}

MCReports == UNION {With(r) : r \in Small} \cup Long
MCPreambles == {<<2>>, <<1, 3, 2>>, <<4, 9, 1>>, <<30, 1>>, <<3, 30, 1>>}
MCHeading == <<1, 1, 3>>
MCTrailer == <<0, 0, 2>>
MCMarker == <<1, 1, 1>>
==============================================================================

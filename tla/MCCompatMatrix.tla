--------------------------- MODULE MCCompatMatrix ----------------------------
(* One or two cells, every way a single engine may end, and a registry that  *)
(* expects a failure of the first pair.                                      *)
EXTENDS CompatMatrix

CONSTANTS e1, e2, p1, malformed

MCDefaults == [engines |-> <<e1>>, packs |-> <<p1>>]
Dispatch(es, ps) == [event |-> "workflow_dispatch", engines |-> es, packs |-> ps]
MCRequests == {[event |-> "schedule", engines |-> << >>, packs |-> << >>],
               Dispatch(<<e1, e2>>, <<p1>>), Dispatch(<<e1, e1>>, <<p1>>),
               Dispatch(<<e1, malformed>>, <<p1>>), Dispatch(<<e1, e2>>, <<p1, e1>>)}

Known(status) == [pair |-> <<e1, p1>>, status |-> status, signature |-> "known"]
MCRegistries == {None, {Known("fail")}, {Known("execution-failed")}}

Counts(results) == [s \in CheckStatuses |-> Occurrences(s, results)]
Report(results) == [status |-> StatusFromCounts(Counts(results)), total |-> Len(results),
                    counts |-> Counts(results), results |-> results]
Reports == {Report(<< >>), Report(<<"pass">>), Report(<<"pass", "fail">>),
            [Report(<<"fail">>) EXCEPT !.status = "pass"]}

Run(exit, report, says, parse) ==
    [exit |-> exit, report |-> report, detail |-> says, line |-> says, parse |-> parse]
MCCliRuns ==
    {Run("zero", r, {}, FALSE) : r \in Reports}
    \cup {Run("nonzero", r, {"known"}, p) : r \in {None, Report(<<"pass", "fail">>)}, p \in BOOLEAN}
    \cup {Run("nonzero", None, {}, TRUE), Run("killed", Report(<<"pass">>), {}, FALSE)}
==============================================================================

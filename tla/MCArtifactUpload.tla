-------------------------- MODULE MCArtifactUpload ---------------------------
(* Two legs of a matrix, with the same differentiator and job, and one of    *)
(* another job: all three reports fight for the stable name, two of them for *)
(* the labelled one as well.  Comments are on pages of one, two of them read,*)
(* so that a leg's own is on the first page, on the last, beyond or absent.  *)
EXTENDS PullRequestComment

CONSTANTS l1, l2, l3, matrix, check, other

SharedLabel == [l \in Legs |-> IF l = l3 THEN None ELSE matrix]
JobOf == [l \in Legs |-> IF l = l3 THEN other ELSE check]

AllFaults == [legs |-> {l1, l3}, faults |-> {"clash", "break", "resend"}]
AllLegs == [legs |-> Legs, faults |-> {}]
Matrix == [legs |-> {l1, l2}, faults |-> {"break"}]
TwoJobs == [legs |-> {l1, l3}, faults |-> {}]
AllWorlds == {AllFaults, AllLegs, Matrix, TwoJobs}

PullRequest(t) == [pullRequest |-> TRUE, fork |-> FALSE, token |-> t, repository |-> TRUE]
Skipped == {[PullRequest("bot") EXCEPT !.pullRequest = FALSE], [PullRequest("bot") EXCEPT !.fork = TRUE]}

Old(i, b, m) == [id |-> i, bot |-> b, marker |-> m, text |-> "other"]
Early == <<Old(1, FALSE, check), Old(2, TRUE, check)>>
Late == <<Old(1, TRUE, None), Old(2, TRUE, other), Old(3, TRUE, check)>>

AllScenes ==
    [world : {AllFaults, AllLegs}, event : Skipped, thread : {<< >>}]
    \cup [world : {Matrix}, event : {PullRequest("bot")}, thread : {<< >>}]
    \cup [world : {TwoJobs}, event : {PullRequest("bot")}, thread : {Early, Late}]
    \cup [world : {TwoJobs}, event : {PullRequest("user")}, thread : {Early}]
==============================================================================

------------------------------ MODULE TagLookup -------------------------------
(***************************************************************************)
(* resolveVersion and resolveTagCommit of src/version.ts: the commit of a  *)
(* tag, looked up page by page in the repository's list of tags, each page *)
(* one githubFetch (see GithubFetch).  The list may change between two     *)
(* pages, and a page is what the server had when it answered.              *)
(***************************************************************************)
EXTENDS GithubFetch

CONSTANTS
    Names, Tag,    \* tags; the one that is looked up
    Shas, None,
    PerPage,       \* TAGS_PER_PAGE
    MaxPages,      \* MAX_TAG_PAGES
    FirstLists,    \* the lists of tags considered
    MaxMoves       \* bound: changes of the list during the lookup

Entries == [name : Names, sha : Shas \cup {None}]

ASSUME LookupAssumption ==
    /\ Tag \in Names
    /\ None \notin Shas
    /\ PerPage \in Nat \ {0}
    /\ MaxPages \in Nat \ {0}
    /\ FirstLists \subseteq Seq(Entries)
    /\ MaxMoves \in Nat

VARIABLES
    list,          \* the tags of the repository, in the order of the API
    lookup,        \* "idle", "fetching", "found", "fallback"
    cursor,        \* the page that is fetched
    page,          \* the page last served, None if it is not a list
    reason,        \* why there is no commit: "not-found", "malformed", or the kind of failure
    sha,           \* commitSha
    held,          \* what the tag pointed to since the lookup began, None for nothing (history)
    removed,       \* a tag was removed since then (history)
    moves

lookupVars == <<list, lookup, cursor, page, reason, sha, held, removed, moves>>
allVars == <<vars, lookupVars>>

Indexes(l, n) == {i \in DOMAIN l : l[i].name = n}
ShaOf(l, n) == {l[i].sha : i \in Indexes(l, n)} \cup (IF Indexes(l, n) = {} THEN {None} ELSE {})

LookupInit ==
    /\ Init
    /\ list \in FirstLists
    /\ lookup = "idle"
    /\ cursor = 1
    /\ page = None
    /\ reason = "none"
    /\ sha = None
    /\ held = {}
    /\ removed = FALSE
    /\ moves = 0

-----------------------------------------------------------------------------
(* The repository                                                           *)

Insert(l, i, e) == SubSeq(l, 1, i - 1) \o <<e>> \o SubSeq(l, i, Len(l))
Delete(l, i) == SubSeq(l, 1, i - 1) \o SubSeq(l, i + 1, Len(l))

(* a tag is published, removed, or pointed at another commit *)
TagsChange ==
    /\ lookup = "fetching"
    /\ moves < MaxMoves
    /\ moves' = moves + 1
    /\ \/ \E i \in 1..(Len(list) + 1), n \in Names, s \in Shas :
             Indexes(list, n) = {} /\ list' = Insert(list, i, [name |-> n, sha |-> s]) /\ UNCHANGED removed
       \/ \E i \in DOMAIN list : list' = Delete(list, i) /\ removed' = TRUE
       \/ \E i \in DOMAIN list, s \in Shas : list' = [list EXCEPT ![i].sha = s] /\ UNCHANGED removed
    /\ held' = held \cup ShaOf(list', Tag)
    /\ UNCHANGED <<vars, lookup, cursor, page, reason, sha>>

(* a page of the list as it is, with rel="next" if there is more; the header *)
(* may also promise more than there is, and the body be no list at all       *)
TagsPage(k) ==
    {None} \cup [tags : {SubSeq(list, (k - 1) * PerPage + 1, Lesser(k * PerPage, Len(list)))},
                 next : {k * PerPage < Len(list), TRUE}]

-----------------------------------------------------------------------------
(* The lookup                                                               *)

BeginLookup ==
    /\ lookup = "idle"
    /\ lookup' = "fetching"
    /\ held' = ShaOf(list, Tag)
    /\ UNCHANGED <<vars, list, cursor, page, reason, sha, removed, moves>>

(* the steps of githubFetch; what is served is fixed when it is answered *)
FetchPage ==
    /\ lookup = "fetching"
    /\ \/ Fetch \/ Refused \/ Chunk \/ BodyComplete \/ BodyBroken \/ Timeout \/ Wake \/ Tick
    /\ UNCHANGED lookupVars

PageServed ==
    /\ lookup = "fetching"
    /\ Answered
    /\ page' \in TagsPage(cursor)
    /\ UNCHANGED <<list, lookup, cursor, reason, sha, held, removed, moves>>

FallBack(why) == lookup' = "fallback" /\ reason' = why /\ UNCHANGED <<cursor, sha>>

(* githubFetch is called anew; its clock is its own *)
FreshCall ==
    /\ now' = 0 /\ call' = "idle" /\ deadline' = 0 /\ attempt' = 0 /\ lastActivity' = 0
    /\ idleLimit' = 0 /\ wake' = 0 /\ failures' = << >> /\ failedAt' = 0

Matches == {i \in DOMAIN page.tags : page.tags[i].name = Tag /\ page.tags[i].sha # None}

(* slip: the last page is not fetched *)
ReadPageOneShort ==
    /\ lookup = "fetching" /\ call = "resolved"
    /\ IF page = None THEN FallBack("malformed") /\ UNCHANGED vars
       ELSE IF Matches # {}
       THEN /\ lookup' = "found" /\ sha' \in {page.tags[i].sha : i \in Matches}
            /\ UNCHANGED <<vars, cursor, reason>>
       ELSE IF page.next /\ cursor + 1 < MaxPages
       THEN FreshCall /\ cursor' = cursor + 1 /\ UNCHANGED <<lookup, reason, sha>>
       ELSE FallBack("not-found") /\ UNCHANGED vars
    /\ UNCHANGED <<list, page, held, removed, moves>>

(* slip: the address of the next page is not taken *)
ReadPageAgain ==
    /\ lookup = "fetching" /\ call = "resolved"
    /\ IF page = None THEN FallBack("malformed") /\ UNCHANGED vars
       ELSE IF Matches # {}
       THEN /\ lookup' = "found" /\ sha' \in {page.tags[i].sha : i \in Matches}
            /\ UNCHANGED <<vars, cursor, reason>>
       ELSE IF page.next THEN FreshCall /\ UNCHANGED <<cursor, lookup, reason, sha>>
       ELSE FallBack("not-found") /\ UNCHANGED vars
    /\ UNCHANGED <<list, page, held, removed, moves>>

(* the commit of the tag if the page has it, or else the next page, if there *)
(* is one and the cap is not reached                                         *)
ReadPage ==
    /\ lookup = "fetching" /\ call = "resolved"
    /\ IF page = None THEN FallBack("malformed") /\ UNCHANGED vars
       ELSE IF Matches # {}
       THEN /\ lookup' = "found" /\ sha' \in {page.tags[i].sha : i \in Matches}
            /\ UNCHANGED <<vars, cursor, reason>>
       ELSE IF page.next /\ cursor < MaxPages
       THEN FreshCall /\ cursor' = cursor + 1 /\ UNCHANGED <<lookup, reason, sha>>
       ELSE FallBack("not-found") /\ UNCHANGED vars
    /\ UNCHANGED <<list, page, held, removed, moves>>

(* resolveVersion never throws: any failure leaves commitSha undefined *)
LookupFails ==
    /\ lookup = "fetching" /\ call = "thrown"
    /\ FallBack(failures[Len(failures)])
    /\ UNCHANGED <<vars, list, page, held, removed, moves>>

LookupNext == BeginLookup \/ FetchPage \/ PageServed \/ ReadPage \/ LookupFails \/ TagsChange

LookupSpec == LookupInit /\ [][LookupNext]_allVars

(* as GithubFetch, and the code goes on from page to page *)
FairLookupSpec ==
    /\ LookupSpec
    /\ WF_allVars(BeginLookup) /\ WF_allVars(ReadPage) /\ WF_allVars(LookupFails)
    /\ WF_allVars(Fetch /\ FetchPage) /\ WF_allVars(Tick /\ FetchPage)
    /\ WF_allVars(Timeout /\ FetchPage) /\ WF_allVars(Wake /\ FetchPage)

-----------------------------------------------------------------------------
(* Properties                                                              *)

(* A commit the lookup returns is one the tag pointed to while it ran, never *)
(* another tag's.  And "Could not find upstream tag" is said of a tag that   *)
(* was published throughout only if it lies beyond the last page allowed, or *)
(* another tag was removed meanwhile: publishing and re-pointing tags        *)
(* between two pages hides none.                                             *)
LookupIsTrue ==
    /\ lookup = "found" => sha \in held \ {None}
    /\ reason = "not-found" /\ ~removed /\ None \notin held =>
          \A i \in Indexes(list, Tag) : i > MaxPages * PerPage

(* "a cap means a malformed or hostile header can never spin this loop       *)
(* forever": every lookup ends, and with it each of its requests, whatever   *)
(* the server sends, drips or promises.                                      *)
EveryLookupEnds ==
    (lookup = "fetching") ~> (lookup \in {"found", "fallback"})
==============================================================================

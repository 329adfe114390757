----------------------------- MODULE Reporting -------------------------------
(***************************************************************************)
(* From what the engine printed to what a reader sees: parseReport and     *)
(* classifyCoverage of src/output.ts, and renderSummaryMarkdown of         *)
(* src/summary.ts with the truncation that keeps the job summary below     *)
(* GitHub's limit.  The text of a line is abstracted to its bytes, entries *)
(* and groups of lines to the bytes of the lines joined by newlines.       *)
(***************************************************************************)
EXTENDS Integers, Sequences, FiniteSets, Functions

CONSTANTS
    Reports,       \* what may be printed, parsed as JSON
    Preambles,     \* the bytes of the lines above the sections
    Heading,       \* the bytes of each section's heading
    Trailer,       \* and of what closes it
    Marker,        \* bytes of the marker for omitted entries, without the number
    Powers,        \* the powers of ten a number of entries may reach
    Notice,        \* bytes of TRUNCATION_NOTICE
    Limit,         \* SUMMARY_BYTE_LIMIT
    None           \* undefined

Statuses == {"pass", "warning", "fail", "error", "skipped"}
Sections == 1..3   \* Failures, Warnings, Skipped fixtures
Results == [surface : STRING, fixtureId : STRING \cup {None}, testId : STRING,
            status : Statuses, size : Nat]
Skips == [rank : Nat, size : Nat]
Partial == [total : Int, passed : Int, failed : Int, warnings : Int, errors : Int,
            skipped : Int \cup {None}]
Complete == [total : Int, passed : Int, failed : Int, warnings : Int, errors : Int, skipped : Int]

ASSUME ReportingAssumption ==
    /\ None \notin Seq(Skips)
    /\ \A r \in Reports : r.results \in Seq(Results) /\ r.skipped \in Seq(Skips) \cup {None}
    /\ \A r \in Reports : r.malformed \in BOOLEAN /\ r.counts \in Partial \cup {None}
    /\ \A p \in Preambles : p \in Seq(Nat)
    /\ Heading \in [Sections -> Nat]
    /\ Trailer \in [Sections -> Nat]
    /\ Marker \in [Sections -> Nat]
    /\ Powers \subseteq Nat
    /\ IsFiniteSet(Powers)
    /\ Notice \in Nat
    /\ Limit \in Nat
    /\ Notice + 2 <= Limit

VARIABLES
    raw,        \* the report as it was printed
    preamble,   \* the lines of its summary's preamble
    pc,
    counts,     \* the counts of the parsed report
    skips,      \* its skipped fixtures in the order of the summary
    mode,       \* "full", "truncated", "clipped": how the summary is rendered
    bytes,      \* what has been rendered
    lines,      \* how many of the preamble's lines
    at,         \* the section that is rendered next
    todo,       \* its entries that are not rendered yet
    reserved,   \* what its marker and its trailer may still need
    shown,      \* what became of each section
    coverage    \* the output coverage-state

input == <<raw, preamble>>
text == <<mode, bytes, lines, at, todo, reserved, shown>>
vars == <<input, text, pc, counts, skips, coverage>>

-----------------------------------------------------------------------------
(* parseReport *)
Identity(r) == <<r.surface, IF r.fixtureId = None THEN r.testId ELSE r.fixtureId>>

HasDuplicates(r) ==
    \E i, j \in DOMAIN r.results : i # j /\ Identity(r.results[i]) = Identity(r.results[j])

Of(r, S) == {i \in DOMAIN r.results : r.results[i].status \in S}
SkippedOf(r) == IF r.skipped = None THEN <<>> ELSE r.skipped

Derived(r) ==
    [total |-> Len(r.results), passed |-> Cardinality(Of(r, {"pass"})),
     failed |-> Cardinality(Of(r, {"fail"})), warnings |-> Cardinality(Of(r, {"warning"})),
     errors |-> Cardinality(Of(r, {"error"})), skipped |-> Len(SkippedOf(r))]

(* validateCounts: complete counts are those of the results *)
Disagrees(r) == r.counts # None /\ r.counts.skipped # None /\ r.counts # Derived(r)

(* slip: a result that is there twice is counted twice *)
InvalidButForDuplicates(r) == r.malformed \/ Disagrees(r)

Invalid(r) == r.malformed \/ HasDuplicates(r) \/ Disagrees(r)

Counts(r) ==
    IF r.counts = None THEN Derived(r)
    ELSE IF r.counts.skipped = None THEN [r.counts EXCEPT !.skipped = Len(SkippedOf(r))]
    ELSE r.counts

-----------------------------------------------------------------------------
(* summarySections: the entries of a section are results, by index, or       *)
(* skipped fixtures, sorted by the rank of their reason code; the sort's     *)
(* further keys are left open.                                               *)
Orders(s) ==
    {t \in {[i \in DOMAIN s |-> s[p[i]]] : p \in Bijection(DOMAIN s, DOMAIN s)} :
        \A i, j \in DOMAIN s : i < j => t[i].rank <= t[j].rank}

StatusesOf(s) == IF s = 1 THEN {"fail", "error"} ELSE {"warning"}
Entries(s) == IF s = 3 THEN DOMAIN skips ELSE Of(raw, StatusesOf(s))

Size(s, i) == IF s = 3 THEN skips[i].size ELSE raw.results[i].size
First(S) == CHOOSE i \in S : \A j \in S : i <= j

(* omittedMarker of n entries: its text and the digits of n *)
MarkerSize(s, n) == Marker[s] + 1 + Cardinality({p \in Powers : n >= p})
WorstMarker(s) == MarkerSize(s, Cardinality(Entries(s)))

(* a heading, n bytes of entries and a marker, and the trailer, each on a    *)
(* line of its own                                                           *)
WithFirst(s) == Heading[s] + Size(s, First(Entries(s))) + WorstMarker(s) + Trailer[s] + 4
Announcement(s) == Heading[s] + WorstMarker(s) + Trailer[s] + 3

NoticeCost == Notice + 1

(* slip: the limit itself is still taken to be below it *)
FitsAtTheLimit(n) == n + reserved + NoticeCost + bytes <= Limit

Fits(n) == n + reserved + NoticeCost + bytes < Limit

Unseen == [open |-> FALSE, kept |-> {}, omitted |-> 0]

Init ==
    /\ raw \in Reports
    /\ preamble \in Preambles
    /\ pc = "parse"
    /\ counts = None
    /\ skips = <<>>
    /\ mode = "full"
    /\ bytes = 0
    /\ lines = 0
    /\ at = 1
    /\ todo = {}
    /\ reserved = 0
    /\ shown = [s \in Sections |-> Unseen]
    /\ coverage = None

Reject ==
    /\ pc = "parse"
    /\ Invalid(raw)
    /\ pc' = "rejected"
    /\ UNCHANGED <<input, text, counts, skips, coverage>>

Parse ==
    /\ pc = "parse"
    /\ ~Invalid(raw)
    /\ counts' = Counts(raw)
    /\ skips' \in Orders(SkippedOf(raw))
    /\ pc' = "preamble"
    /\ UNCHANGED <<input, text, coverage>>

-----------------------------------------------------------------------------
(* renderSummaryMarkdown and, where its text is too long, once more as       *)
(* renderTruncatedSummary: the preamble.                                     *)
Restart(m) ==
    /\ mode' = m
    /\ bytes' = 0 /\ lines' = 0 /\ at' = 1
    /\ shown' = [s \in Sections |-> Unseen]
    /\ UNCHANGED <<input, counts, skips, coverage, todo, reserved>>

LineCost == preamble[lines + 1] + (IF lines = 0 THEN 0 ELSE 1)

PreambleLine ==
    /\ pc = "preamble"
    /\ lines < Len(preamble)
    /\ bytes' = bytes + LineCost
    /\ lines' = lines + 1
    /\ UNCHANGED <<input, pc, counts, skips, coverage, mode, at, todo, reserved, shown>>

PreambleEnds ==
    /\ pc = "preamble"
    /\ lines = Len(preamble)
    /\ IF mode = "truncated" /\ bytes + NoticeCost >= Limit
       THEN pc' = "clip" /\ Restart("clipped")
       ELSE pc' = "section" /\ UNCHANGED <<input, text, counts, skips, coverage>>

(* clipToLimit *)
Room == Limit - Notice - 2

ClipLine ==
    /\ pc = "clip"
    /\ lines < Len(preamble)
    /\ bytes + LineCost <= Room
    /\ bytes' = bytes + LineCost
    /\ lines' = lines + 1
    /\ UNCHANGED <<input, pc, counts, skips, coverage, mode, at, todo, reserved, shown>>

ClipEnds ==
    /\ pc = "clip"
    /\ lines < Len(preamble) => bytes + LineCost > Room
    /\ bytes' = IF bytes = 0 THEN Notice ELSE bytes + 1 + Notice
    /\ pc' = "classify"
    /\ UNCHANGED <<input, counts, skips, coverage, mode, lines, at, todo, reserved, shown>>

-----------------------------------------------------------------------------
(* The sections, in the order of their importance. *)
NextSection ==
    /\ at' = at + 1
    /\ UNCHANGED <<input, counts, skips, coverage, mode, lines>>

EmptySection ==
    /\ pc = "section"
    /\ at \in Sections
    /\ Entries(at) = {}
    /\ NextSection
    /\ UNCHANGED <<pc, bytes, todo, reserved, shown>>

OpenSection ==
    /\ pc = "section"
    /\ at \in Sections
    /\ Entries(at) # {}
    /\ mode = "full" \/ Fits(WithFirst(at))
    /\ bytes' = bytes + Heading[at] + 1
    /\ reserved' = IF mode = "full" THEN 0 ELSE WorstMarker(at) + Trailer[at] + 2
    /\ todo' = Entries(at)
    /\ pc' = "entries"
    /\ UNCHANGED <<input, counts, skips, coverage, mode, lines, at, shown>>

AnnounceSection ==
    /\ pc = "section"
    /\ at \in Sections
    /\ Entries(at) # {}
    /\ mode = "truncated" /\ ~Fits(WithFirst(at)) /\ Fits(Announcement(at))
    /\ bytes' = bytes + Announcement(at)
    /\ shown' = [shown EXCEPT ![at] =
          [open |-> TRUE, kept |-> {}, omitted |-> Cardinality(Entries(at))]]
    /\ NextSection
    /\ UNCHANGED <<pc, todo, reserved>>

DropSection ==
    /\ pc = "section"
    /\ at \in Sections
    /\ Entries(at) # {}
    /\ mode = "truncated" /\ ~Fits(WithFirst(at)) /\ ~Fits(Announcement(at))
    /\ NextSection
    /\ UNCHANGED <<pc, bytes, todo, reserved, shown>>

KeepEntry ==
    /\ pc = "entries"
    /\ todo # {}
    /\ LET cost == Size(at, First(todo)) + 1
       IN  (mode = "full" \/ Fits(cost)) /\ bytes' = bytes + cost
    /\ todo' = todo \ {First(todo)}
    /\ UNCHANGED <<input, pc, counts, skips, coverage, mode, lines, at, reserved, shown>>

Closing(m) ==
    /\ pc = "entries"
    /\ todo # {} => mode = "truncated" /\ ~Fits(Size(at, First(todo)) + 1)
    /\ bytes' = bytes + (IF todo = {} THEN 0 ELSE MarkerSize(at, m) + 1) + Trailer[at] + 1
    /\ shown' = [shown EXCEPT ![at] =
          [open |-> TRUE, kept |-> Entries(at) \ todo, omitted |-> m]]
    /\ todo' = {}
    /\ pc' = "section"
    /\ NextSection

(* slip: what was reserved for one section is kept from the next ones *)
CloseReserved == Closing(Cardinality(todo)) /\ UNCHANGED reserved

CloseSection == Closing(Cardinality(todo)) /\ reserved' = 0

Finish ==
    /\ pc = "section"
    /\ at \notin Sections
    /\ \/ /\ mode = "full" /\ bytes < Limit
          /\ pc' = "classify"
          /\ UNCHANGED <<input, text, counts, skips, coverage>>
       \/ /\ mode = "full" /\ bytes >= Limit
          /\ pc' = "preamble"
          /\ Restart("truncated")
       \/ /\ mode = "truncated"
          /\ bytes' = bytes + NoticeCost
          /\ pc' = "classify"
          /\ UNCHANGED <<input, counts, skips, coverage, mode, lines, at, todo, reserved, shown>>

-----------------------------------------------------------------------------
(* classifyCoverage of the parsed report *)
Classify ==
    /\ pc = "classify"
    /\ coverage' = IF Of(raw, Statuses \ {"skipped"}) = {} THEN "none"
                   ELSE IF \/ Of(raw, {"skipped"}) # {}
                           \/ SkippedOf(raw) # <<>>
                           \/ counts.skipped > 0
                        THEN "partial"
                        ELSE "full"
    /\ pc' = "over"
    /\ UNCHANGED <<input, text, counts, skips>>

Next ==
    \/ Reject \/ Parse
    \/ PreambleLine \/ PreambleEnds \/ ClipLine \/ ClipEnds
    \/ EmptySection \/ OpenSection \/ AnnounceSection \/ DropSection
    \/ KeepEntry \/ CloseSection \/ Finish
    \/ Classify

Spec == Init /\ [][Next]_vars

-----------------------------------------------------------------------------
(* The variables of the parsed report and of the renderer keep their types,  *)
(* the counts complete whatever the engine left out of them.                 *)
TypeOK ==
    /\ pc \in {"parse", "rejected", "preamble", "clip", "section", "entries", "classify", "over"}
    /\ counts \in Complete \cup {None}
    /\ skips \in Seq(Skips)
    /\ mode \in {"full", "truncated", "clipped"}
    /\ bytes \in Nat
    /\ lines \in 0..Len(preamble)
    /\ at \in 1..4
    /\ todo \subseteq Nat
    /\ reserved \in Nat
    /\ shown \in [Sections -> [open : BOOLEAN, kept : SUBSET Nat, omitted : Nat]]
    /\ coverage \in {None, "full", "partial", "none"}

(* renderSummaryMarkdown returns strictly less than the limit, whatever is   *)
(* in the report: what fits reserves is enough for all that is pushed later. *)
SummaryFits == pc \in {"classify", "over"} => bytes < Limit

(* The truncation omits for want of room only: an omitted entry, with the    *)
(* digits its marker may have been shorter than expected, and the heading    *)
(* and marker of a section that is not even announced, would have reached    *)
(* the limit.  What is kept of a section comes before what is omitted.       *)
OmittedForWantOfRoom ==
    pc \in {"classify", "over"} /\ mode # "clipped" =>
        \A s \in Sections : Entries(s) # {} =>
            LET sh == shown[s]
                rest == Entries(s) \ sh.kept
            IN  /\ ~sh.open => mode = "truncated" /\ bytes + Announcement(s) >= Limit
                /\ sh.open => sh.omitted = Cardinality(rest)
                /\ sh.open /\ rest # {} =>
                      /\ \A i \in sh.kept : i < First(rest)
                      /\ bytes + Size(s, First(rest)) + 1
                            + (WorstMarker(s) - MarkerSize(s, sh.omitted)) >= Limit

(* whether the counts are those of the results: derived here, or compared    *)
Vouched == raw.counts = None \/ raw.counts.skipped # None

(* Counts, coverage-state and summary tell one story: every fixture counts   *)
(* once; full coverage has no trace of a skip and no uncounted result; no    *)
(* coverage has no verdict; and each section of the summary accounts for as  *)
(* many entries as the outputs say.                                          *)
OneStory ==
    pc = "over" =>
        LET verdicts == counts.passed + counts.failed + counts.warnings + counts.errors
            told(s) == Cardinality(shown[s].kept) + shown[s].omitted
        IN  /\ Vouched => counts.total = Cardinality({Identity(raw.results[i]) : i \in DOMAIN raw.results})
            /\ coverage = "full" => counts.skipped <= 0 /\ (Vouched => verdicts = counts.total /\ verdicts > 0)
            /\ coverage = "none" /\ Vouched => verdicts = 0
            /\ shown[1].open /\ Vouched => told(1) = counts.failed + counts.errors
            /\ shown[2].open /\ Vouched => told(2) = counts.warnings
            /\ shown[3].open => told(3) = Len(skips) /\ coverage # "full"
==============================================================================

-------------------------- MODULE ReportingProofs ----------------------------
(***************************************************************************)
(* Proofs about Reporting: for every report, preamble and limit, and for   *)
(* lines of any length, the job summary stays below its limit.             *)
(***************************************************************************)
EXTENDS Reporting, FiniteSetTheorems, WellFoundedInduction, TLAPS

Given == raw \in Reports /\ preamble \in Preambles

(* Which section is rendered when: entries remain, and room is reserved for  *)
(* their marker, only while a section is open.                               *)
PlaceInv ==
    /\ pc = "entries" => at \in Sections /\ todo \subseteq Entries(at)
    /\ pc # "entries" => todo = {} /\ reserved = 0
    /\ pc = "clip" => mode = "clipped"
    /\ mode = "clipped" => pc \in {"clip", "classify", "over"}
    /\ pc \in {"parse", "rejected"} => mode = "full" /\ bytes = 0

(* The renderer never passes the point from which what it has promised, the  *)
(* marker, the trailer and the notice, would not fit.                        *)
RoomInv ==
    /\ mode = "truncated" /\ pc = "section" => bytes + NoticeCost < Limit
    /\ mode = "truncated" /\ pc = "entries" =>
          /\ reserved = WorstMarker(at) + Trailer[at] + 2
          /\ bytes + reserved + NoticeCost < Limit
    /\ pc = "clip" => bytes <= Room
    /\ pc \in {"classify", "over"} => bytes < Limit

IInv == Given /\ TypeOK /\ PlaceInv /\ RoomInv

-----------------------------------------------------------------------------
(* Every section has finitely many entries, each of them a number.           *)
LEMMA EntriesAreFinite ==
    ASSUME Given, TypeOK, NEW s \in Sections
    PROVE  IsFiniteSet(Entries(s)) /\ Entries(s) \subseteq Nat
<1>1. raw.results \in Seq(Results) /\ skips \in Seq(Skips)
  BY ReportingAssumption DEF Given, TypeOK
<1>2. DOMAIN raw.results = 1..Len(raw.results) /\ Len(raw.results) \in Nat
  BY <1>1
<1>3. DOMAIN skips = 1..Len(skips) /\ Len(skips) \in Nat
  BY <1>1
<1>4. IsFiniteSet(1..Len(raw.results)) /\ IsFiniteSet(1..Len(skips))
  BY <1>2, <1>3, FS_Interval
<1>5. ASSUME NEW S PROVE IsFiniteSet(Of(raw, S)) /\ Of(raw, S) \subseteq Nat
  <2>1. Of(raw, S) \in SUBSET (1..Len(raw.results))
    BY <1>2 DEF Of
  <2> QED
    BY <2>1, <1>2, <1>4, FS_Subset
<1>6. DOMAIN skips \subseteq Nat /\ IsFiniteSet(DOMAIN skips)
  BY <1>3, <1>4
<1> QED
  BY <1>5, <1>6 DEF Entries

(* The bytes of an entry.                                                    *)
LEMMA SizeIsANumber ==
    ASSUME Given, TypeOK, NEW s \in Sections, NEW i \in Entries(s)
    PROVE  Size(s, i) \in Nat
<1>1. raw.results \in Seq(Results) /\ skips \in Seq(Skips)
  BY ReportingAssumption DEF Given, TypeOK
<1>2. CASE s = 3
  <2>1. i \in DOMAIN skips
    BY <1>2 DEF Entries
  <2>2. skips[i] \in Skips
    BY <1>1, <2>1
  <2> QED
    BY <1>2, <2>2 DEF Size, Skips
<1>3. CASE s # 3
  <2>1. i \in DOMAIN raw.results
    BY <1>3 DEF Entries, Of
  <2>2. raw.results[i] \in Results
    BY <1>1, <2>1
  <2> QED
    BY <1>3, <2>2 DEF Size, Results
<1> QED
  BY <1>2, <1>3

(* The first of the entries that remain is one of them.                      *)
LEMMA FirstIsLeast ==
    ASSUME NEW S \in SUBSET Nat, S # {}
    PROVE  First(S) \in S /\ \A j \in S : First(S) <= j
<1>1. PICK x \in S : \A y \in S : ~(<<y, x>> \in OpToRel(<, Nat))
  BY NatLessThanWellFounded, WFMin
<1>2. \A y \in S : x <= y
  <2> SUFFICES ASSUME NEW y \in S, y < x PROVE FALSE
    OBVIOUS
  <2>1. <<y, x>> \in Nat \X Nat /\ <<y, x>>[1] < <<y, x>>[2]
    OBVIOUS
  <2>2. <<y, x>> \in OpToRel(<, Nat)
    BY <2>1, Zenon DEF OpToRel
  <2> QED
    BY <1>1, <2>2
<1> QED
  BY <1>2 DEF First

(* A marker for fewer entries is not longer: renderTruncatedSummary may       *)
(* reserve the one for all of them.                                           *)
LEMMA MarkerIsMonotone ==
    ASSUME NEW s \in Sections, NEW m \in Nat, NEW n \in Nat, m <= n
    PROVE  /\ MarkerSize(s, m) \in Nat /\ MarkerSize(s, n) \in Nat
           /\ MarkerSize(s, m) <= MarkerSize(s, n)
<1> DEFINE P(k) == {p \in Powers : k >= p}
<1>1. Powers \subseteq Nat /\ IsFiniteSet(Powers)
  BY ReportingAssumption
<1>2. IsFiniteSet(P(n)) /\ IsFiniteSet(P(m)) /\ Cardinality(P(m)) <= Cardinality(P(n))
  <2>1. \A p \in Powers : m >= p => n >= p
    BY <1>1
  <2>2. P(n) \in SUBSET Powers /\ P(m) \in SUBSET P(n)
    BY <2>1
  <2> QED
    BY <1>1, <2>2, FS_Subset
<1>3. Cardinality(P(n)) \in Nat /\ Cardinality(P(m)) \in Nat
  BY <1>2, FS_CardinalityType
<1>4. Marker[s] \in Nat
  BY ReportingAssumption
<1>5. MarkerSize(s, m) = Marker[s] + 1 + Cardinality(P(m)) /\ MarkerSize(s, n) = Marker[s] + 1 + Cardinality(P(n))
  BY DEF MarkerSize
<1> HIDE DEF P
<1> QED
  BY <1>2, <1>3, <1>4, <1>5

LEMMA MarkerOfTheRest ==
    ASSUME Given, TypeOK, NEW s \in Sections, NEW S \in SUBSET Entries(s)
    PROVE  /\ Cardinality(S) \in Nat
           /\ MarkerSize(s, Cardinality(S)) \in Nat
           /\ WorstMarker(s) \in Nat
           /\ MarkerSize(s, Cardinality(S)) <= WorstMarker(s)
<1>1. IsFiniteSet(Entries(s))
  BY EntriesAreFinite
<1>2. IsFiniteSet(S) /\ Cardinality(S) <= Cardinality(Entries(s))
  BY <1>1, FS_Subset
<1>3. Cardinality(S) \in Nat /\ Cardinality(Entries(s)) \in Nat
  BY <1>1, <1>2, FS_CardinalityType
<1> QED
  BY <1>2, <1>3, MarkerIsMonotone DEF WorstMarker

(* What the constants, and the lines of the preamble, measure.               *)
LEMMA Measures ==
    ASSUME Given, TypeOK
    PROVE  /\ \A s \in Sections : Heading[s] \in Nat /\ Trailer[s] \in Nat
           /\ Notice \in Nat /\ Limit \in Nat /\ NoticeCost \in Nat /\ Notice + 2 <= Limit
           /\ Len(preamble) \in Nat
           /\ lines < Len(preamble) => LineCost \in Nat
<1>1. preamble \in Seq(Nat)
  BY ReportingAssumption DEF Given
<1>2. ASSUME lines < Len(preamble) PROVE LineCost \in Nat
  <2>1. lines + 1 \in 1..Len(preamble)
    BY <1>1, <1>2 DEF TypeOK
  <2>2. preamble[lines + 1] \in Nat
    BY <1>1, <2>1
  <2> QED
    BY <2>2 DEF LineCost
<1> QED
  BY <1>1, <1>2, ReportingAssumption DEF NoticeCost

LEMMA SkippedIsASequence == ASSUME Given PROVE SkippedOf(raw) \in Seq(Skips)
  BY ReportingAssumption DEF Given, SkippedOf

LEMMA CountsAreComplete == ASSUME Given PROVE Counts(raw) \in Complete
<1>1. raw.results \in Seq(Results) /\ raw.counts \in Partial \cup {None}
  BY ReportingAssumption DEF Given
<1>2. DOMAIN raw.results = 1..Len(raw.results) /\ Len(raw.results) \in Nat
  BY <1>1
<1>3. Len(SkippedOf(raw)) \in Nat
  BY SkippedIsASequence
<1>4. ASSUME NEW S PROVE Cardinality(Of(raw, S)) \in Nat
  <2>1. Of(raw, S) \in SUBSET (1..Len(raw.results)) /\ IsFiniteSet(1..Len(raw.results))
    BY <1>2, FS_Interval DEF Of
  <2>2. IsFiniteSet(Of(raw, S))
    BY <2>1, FS_Subset
  <2> QED
    BY <2>2, FS_CardinalityType
<1>5. Derived(raw) \in Complete
  BY <1>2, <1>3, <1>4 DEF Derived, Complete
<1>6. CASE raw.counts = None
  BY <1>5, <1>6 DEF Counts
<1>7. CASE raw.counts # None
  <2>1. raw.counts \in Partial
    BY <1>1, <1>7
  <2>2. CASE raw.counts.skipped = None
    <3>1. Counts(raw) = [raw.counts EXCEPT !.skipped = Len(SkippedOf(raw))]
      BY <1>7, <2>2 DEF Counts
    <3> QED
      BY <2>1, <3>1, <1>3 DEF Partial, Complete
  <2>3. CASE raw.counts.skipped # None
    <3>1. Counts(raw) = raw.counts
      BY <1>7, <2>3 DEF Counts
    <3> QED
      BY <2>1, <2>3, <3>1 DEF Partial, Complete
  <2> QED
    BY <2>2, <2>3
<1> QED
  BY <1>6, <1>7

(* Sorting the skipped fixtures loses none and makes none.                   *)
LEMMA OrderedIsASequence ==
    ASSUME NEW s \in Seq(Skips), NEW t \in Orders(s)
    PROVE  t \in Seq(Skips)
<1>1. PICK p \in Bijection(DOMAIN s, DOMAIN s) : t = [i \in DOMAIN s |-> s[p[i]]]
  BY DEF Orders
<1>2. p \in [DOMAIN s -> DOMAIN s]
  BY <1>1 DEF Bijection, Injection
<1>3. DOMAIN s = 1..Len(s) /\ Len(s) \in Nat
  OBVIOUS
<1>4. \A i \in DOMAIN s : s[p[i]] \in Skips
  BY <1>2
<1>5. t \in [1..Len(s) -> Skips]
  BY <1>1, <1>3, <1>4
<1> QED
  BY <1>3, <1>5

-----------------------------------------------------------------------------
(* The invariant holds initially and every step of the parser and of the     *)
(* renderer preserves it.                                                    *)
LEMMA InitIInv == Init => IInv
<1> SUFFICES ASSUME Init PROVE IInv
  OBVIOUS
<1>1. Given
  BY DEF Init, Given
<1>2. Len(preamble) \in Nat
  BY <1>1, ReportingAssumption DEF Given
<1>3. TypeOK
  BY <1>2, ReportingAssumption DEF Init, TypeOK, Unseen, Sections
<1>4. PlaceInv /\ RoomInv
  BY DEF Init, PlaceInv, RoomInv
<1> QED
  BY <1>1, <1>3, <1>4 DEF IInv

(* Sizes and markers depend on the report and the order of its skips only.   *)
LEMMA SameEntries ==
    ASSUME UNCHANGED <<raw, skips>>, NEW s
    PROVE  /\ Entries(s)' = Entries(s)
           /\ WorstMarker(s)' = WorstMarker(s)
           /\ \A i : Size(s, i)' = Size(s, i)
  BY DEF Entries, Of, WorstMarker, MarkerSize, Size

LEMMA ParserStep == IInv /\ (Reject \/ Parse \/ Classify) => IInv'
<1> SUFFICES ASSUME IInv, Reject \/ Parse \/ Classify PROVE IInv'
  OBVIOUS
<1> USE DEF IInv
<1>1. Given'
  BY DEF Given, Reject, Parse, Classify, input
<1>2. CASE Reject
  BY <1>1, <1>2 DEF Reject, TypeOK, PlaceInv, RoomInv, input, text
<1>3. CASE Parse
  <2>1. counts' \in Complete
    BY <1>3, CountsAreComplete DEF Parse
  <2>2. skips' \in Seq(Skips)
    BY <1>3, SkippedIsASequence, OrderedIsASequence DEF Parse
  <2>3. TypeOK'
    BY <1>3, <2>1, <2>2 DEF Parse, TypeOK, input, text
  <2>4. PlaceInv' /\ RoomInv'
    BY <1>3 DEF Parse, PlaceInv, RoomInv, input, text
  <2> QED
    BY <1>1, <2>3, <2>4
<1>4. CASE Classify
  <2>1. TypeOK'
    BY <1>4 DEF Classify, TypeOK, input, text
  <2>2. PlaceInv' /\ RoomInv'
    BY <1>4 DEF Classify, PlaceInv, RoomInv, input, text
  <2> QED
    BY <1>1, <2>1, <2>2
<1> QED
  BY <1>2, <1>3, <1>4

LEMMA PreambleStep == IInv /\ (PreambleLine \/ PreambleEnds \/ ClipLine \/ ClipEnds \/ Finish) => IInv'
<1> SUFFICES ASSUME IInv, PreambleLine \/ PreambleEnds \/ ClipLine \/ ClipEnds \/ Finish PROVE IInv'
  OBVIOUS
<1>1. Given /\ TypeOK /\ PlaceInv /\ RoomInv
  BY DEF IInv
<1>2. Given'
  BY <1>1 DEF Given, PreambleLine, PreambleEnds, ClipLine, ClipEnds, Finish, Restart, input
<1>3. /\ Notice \in Nat /\ Limit \in Nat /\ Notice + 2 <= Limit
      /\ Len(preamble) \in Nat /\ (lines < Len(preamble) => LineCost \in Nat)
  BY <1>1, Measures
<1>4. [s \in Sections |-> Unseen] \in [Sections -> [open : BOOLEAN, kept : SUBSET Nat, omitted : Nat]]
  BY DEF Unseen
<1>5. ASSUME NEW m \in {"truncated", "clipped"}, Restart(m), pc' \in {"preamble", "clip"} PROVE TypeOK'
  <2>1. lines' \in 0..Len(preamble') /\ at' \in 1..4 /\ bytes' \in Nat
    BY <1>3, <1>5 DEF Restart, input
  <2> QED
    BY <1>1, <1>4, <1>5, <2>1 DEF Restart, TypeOK
<1>6. CASE PreambleLine
  BY <1>1, <1>2, <1>3, <1>6 DEF IInv, PreambleLine, TypeOK, PlaceInv, RoomInv, input
<1>7. CASE PreambleEnds
  <2>1. CASE mode = "truncated" /\ bytes + NoticeCost >= Limit
    <3>1. pc' = "clip" /\ Restart("clipped")
      BY <1>7, <2>1 DEF PreambleEnds
    <3>2. PlaceInv' /\ RoomInv'
      BY <1>1, <1>3, <1>7, <3>1 DEF PreambleEnds, Restart, PlaceInv, RoomInv, Room
    <3> QED
      BY <1>2, <1>5, <3>1, <3>2 DEF IInv
  <2>2. CASE ~(mode = "truncated" /\ bytes + NoticeCost >= Limit)
    <3>1. pc = "preamble" /\ pc' = "section" /\ UNCHANGED <<input, text, counts, skips, coverage>>
      BY <1>7, <2>2 DEF PreambleEnds
    <3>2. TypeOK'
      BY <1>1, <3>1 DEF TypeOK, input, text
    <3>3. PlaceInv' /\ RoomInv'
      BY <1>1, <1>3, <2>2, <3>1 DEF TypeOK, PlaceInv, RoomInv, NoticeCost, input, text
    <3> QED
      BY <1>2, <3>2, <3>3 DEF IInv
  <2> QED
    BY <2>1, <2>2
<1>8. CASE ClipLine
  BY <1>1, <1>2, <1>3, <1>8 DEF IInv, ClipLine, TypeOK, PlaceInv, RoomInv, Room, input
<1>9. CASE ClipEnds
  BY <1>1, <1>2, <1>3, <1>9 DEF IInv, ClipEnds, TypeOK, PlaceInv, RoomInv, Room, input
<1>10. CASE Finish
  <2>1. CASE mode = "full" /\ bytes < Limit
    <3>1. pc' = "classify" /\ UNCHANGED <<input, text, counts, skips, coverage>>
      BY <1>1, <1>3, <1>10, <2>1 DEF Finish, TypeOK
    <3>2. TypeOK'
      BY <1>1, <3>1 DEF TypeOK, input, text
    <3>3. PlaceInv' /\ RoomInv'
      BY <1>1, <1>3, <1>10, <2>1, <3>1 DEF Finish, PlaceInv, RoomInv, input, text
    <3> QED
      BY <1>2, <3>2, <3>3 DEF IInv
  <2>2. CASE mode = "full" /\ bytes >= Limit
    <3>1. pc' = "preamble" /\ Restart("truncated")
      BY <1>1, <1>3, <1>10, <2>2 DEF Finish, TypeOK
    <3>2. PlaceInv' /\ RoomInv'
      BY <1>1, <1>3, <1>10, <3>1 DEF Finish, Restart, PlaceInv, RoomInv
    <3> QED
      BY <1>2, <1>5, <3>1, <3>2 DEF IInv
  <2>3. CASE mode = "truncated"
    <3>1. /\ pc = "section" /\ bytes' = bytes + NoticeCost /\ pc' = "classify"
          /\ UNCHANGED <<input, counts, skips, coverage, mode, lines, at, todo, reserved, shown>>
      BY <1>10, <2>3 DEF Finish
    <3>2. TypeOK'
      BY <1>1, <1>3, <3>1 DEF TypeOK, NoticeCost, input
    <3>3. PlaceInv' /\ RoomInv'
      BY <1>1, <1>3, <2>3, <3>1 DEF PlaceInv, RoomInv
    <3> QED
      BY <1>2, <3>2, <3>3 DEF IInv
  <2> QED
    BY <1>1, <1>3, <1>10, <2>1, <2>2, <2>3 DEF Finish
<1> QED
  BY <1>6, <1>7, <1>8, <1>9, <1>10

(* What is left to show of a step that renders a part of a section: the      *)
(* types of what it changes, and the room.                                   *)
LEMMA SectionTypes ==
    ASSUME IInv, UNCHANGED <<raw, skips, counts, coverage, mode, lines, preamble>>,
           pc' \in {"section", "entries"}, bytes' \in Nat, at' \in 1..4, todo' \subseteq Nat, reserved' \in Nat,
           shown' \in [Sections -> [open : BOOLEAN, kept : SUBSET Nat, omitted : Nat]]
    PROVE  Given' /\ TypeOK'
  BY DEF IInv, Given, TypeOK

LEMMA SectionStep ==
    IInv /\ (EmptySection \/ OpenSection \/ AnnounceSection \/ DropSection \/ KeepEntry \/ CloseSection) => IInv'
<1> SUFFICES ASSUME IInv,
                    EmptySection \/ OpenSection \/ AnnounceSection \/ DropSection \/ KeepEntry \/ CloseSection
             PROVE  IInv'
  OBVIOUS
<1>1. Given /\ TypeOK /\ PlaceInv /\ RoomInv
  BY DEF IInv
<1>2. UNCHANGED <<raw, skips, counts, coverage, mode, lines, preamble>>
  BY DEF EmptySection, OpenSection, AnnounceSection, DropSection, KeepEntry, CloseSection, Closing,
         NextSection, input
<1>3. at \in Sections
  BY <1>1 DEF EmptySection, OpenSection, AnnounceSection, DropSection, KeepEntry, CloseSection, Closing, PlaceInv
<1>4. /\ bytes \in Nat /\ reserved \in Nat /\ todo \subseteq Nat /\ at \in 1..4 /\ at + 1 \in 1..4
      /\ shown \in [Sections -> [open : BOOLEAN, kept : SUBSET Nat, omitted : Nat]]
  BY <1>1, <1>3 DEF TypeOK, Sections
<1>5. /\ Notice \in Nat /\ Limit \in Nat /\ NoticeCost \in Nat /\ NoticeCost' = NoticeCost
      /\ Heading[at] \in Nat /\ Trailer[at] \in Nat
  BY <1>1, <1>3, Measures DEF NoticeCost
<1>6. IsFiniteSet(Entries(at)) /\ Entries(at) \subseteq Nat
  BY <1>1, <1>3, EntriesAreFinite
<1>7. WorstMarker(at) \in Nat
  BY <1>1, <1>3, MarkerOfTheRest
<1>8. Entries(at) # {} => Size(at, First(Entries(at))) \in Nat
  BY <1>1, <1>3, <1>6, FirstIsLeast, SizeIsANumber
<1>9. \A s : Entries(s)' = Entries(s) /\ WorstMarker(s)' = WorstMarker(s)
  BY <1>2, SameEntries
<1>10. CASE EmptySection \/ DropSection
  <2>1. pc = "section" /\ at' = at + 1 /\ UNCHANGED <<pc, bytes, todo, reserved, shown, mode>>
    BY <1>2, <1>10 DEF EmptySection, DropSection, NextSection
  <2>2. Given' /\ TypeOK'
    BY <1>2, <1>4, <2>1, SectionTypes
  <2>3. PlaceInv' /\ RoomInv'
    BY <1>1, <1>5, <2>1 DEF PlaceInv, RoomInv
  <2> QED
    BY <2>2, <2>3 DEF IInv
<1>11. CASE OpenSection
  <2>1. /\ pc = "section" /\ pc' = "entries" /\ at' = at /\ todo' = Entries(at) /\ shown' = shown
        /\ Entries(at) # {}
        /\ bytes' = bytes + Heading[at] + 1
        /\ mode = "full" \/ Fits(WithFirst(at))
        /\ reserved' = IF mode = "full" THEN 0 ELSE WorstMarker(at) + Trailer[at] + 2
    BY <1>11 DEF OpenSection
  <2>2. bytes' \in Nat /\ reserved' \in Nat
    BY <1>4, <1>5, <1>7, <2>1
  <2>3. Given' /\ TypeOK'
    BY <1>2, <1>4, <1>6, <2>1, <2>2, SectionTypes
  <2>4. PlaceInv'
    BY <1>1, <1>2, <1>3, <1>9, <2>1 DEF PlaceInv
  <2>5. RoomInv'
    <3>1. SUFFICES ASSUME mode = "truncated"
                   PROVE  /\ reserved' = WorstMarker(at)' + Trailer[at'] + 2
                          /\ bytes' + reserved' + NoticeCost' < Limit
      BY <1>2, <2>1 DEF RoomInv
    <3>2. reserved = 0
      BY <1>1, <2>1 DEF PlaceInv
    <3>3. WithFirst(at) + reserved + NoticeCost + bytes < Limit
      BY <2>1, <3>1 DEF Fits
    <3>4. WithFirst(at) = Heading[at] + Size(at, First(Entries(at))) + WorstMarker(at) + Trailer[at] + 4
      BY DEF WithFirst
    <3>5. WorstMarker(at)' = WorstMarker(at)
      BY <1>9, <2>1
    <3>6. reserved' = WorstMarker(at) + Trailer[at] + 2
      BY <2>1, <3>1
    <3> QED
      BY <1>4, <1>5, <1>7, <1>8, <2>1, <3>2, <3>3, <3>4, <3>5, <3>6
  <2> QED
    BY <2>3, <2>4, <2>5 DEF IInv
<1>12. CASE AnnounceSection
  <2>1. /\ pc = "section" /\ at' = at + 1 /\ UNCHANGED <<pc, todo, reserved>>
        /\ mode = "truncated" /\ Fits(Announcement(at))
        /\ bytes' = bytes + Announcement(at)
        /\ shown' = [shown EXCEPT ![at] = [open |-> TRUE, kept |-> {}, omitted |-> Cardinality(Entries(at))]]
    BY <1>12 DEF AnnounceSection, NextSection
  <2>2. Announcement(at) \in Nat
    BY <1>5, <1>7 DEF Announcement
  <2>3. Cardinality(Entries(at)) \in Nat
    BY <1>6, FS_CardinalityType
  <2>4. shown' \in [Sections -> [open : BOOLEAN, kept : SUBSET Nat, omitted : Nat]]
    BY <1>4, <2>1, <2>3
  <2>5. Given' /\ TypeOK'
    BY <1>2, <1>4, <2>1, <2>2, <2>4, SectionTypes
  <2>6. PlaceInv'
    BY <1>1, <1>2, <2>1 DEF PlaceInv
  <2>7. RoomInv'
    <3>1. reserved = 0
      BY <1>1, <2>1 DEF PlaceInv
    <3>2. bytes' + NoticeCost' < Limit
      BY <1>4, <1>5, <2>1, <2>2, <3>1 DEF Fits
    <3> QED
      BY <2>1, <3>2 DEF RoomInv
  <2> QED
    BY <2>5, <2>6, <2>7 DEF IInv
<1>13. CASE KeepEntry
  <2> DEFINE cost == Size(at, First(todo)) + 1
  <2>1. /\ pc = "entries" /\ pc' = pc /\ at' = at /\ reserved' = reserved /\ shown' = shown
        /\ todo # {} /\ todo' = todo \ {First(todo)}
        /\ mode = "full" \/ Fits(cost)
        /\ bytes' = bytes + cost
    BY <1>13 DEF KeepEntry
  <2>2. todo \subseteq Entries(at)
    BY <1>1, <2>1 DEF PlaceInv
  <2>3. First(todo) \in Entries(at)
    BY <1>4, <2>1, <2>2, FirstIsLeast
  <2>4. Size(at, First(todo)) \in Nat
    BY <1>1, <1>3, <2>3, SizeIsANumber
  <2>5. cost \in Nat
    BY <2>4
  <2> HIDE DEF cost
  <2>6. bytes' \in Nat /\ todo' \subseteq Nat /\ pc' \in {"section", "entries"}
    <3>1. bytes' = bytes + cost /\ bytes \in Nat
      BY <1>4, <2>1
    <3>2. bytes' \in Nat
      BY <2>5, <3>1
    <3>3. todo' \subseteq todo /\ pc' = "entries"
      BY <2>1
    <3> QED
      BY <1>4, <3>2, <3>3
  <2>7. Given' /\ TypeOK'
    BY <1>2, <1>4, <2>1, <2>6, SectionTypes
  <2>8. PlaceInv'
    BY <1>1, <1>2, <1>3, <1>9, <2>1, <2>2 DEF PlaceInv
  <2>9. RoomInv'
    <3>1. SUFFICES ASSUME mode = "truncated"
                   PROVE  /\ reserved' = WorstMarker(at)' + Trailer[at'] + 2
                          /\ bytes' + reserved' + NoticeCost' < Limit
      BY <1>2, <2>1 DEF RoomInv
    <3>2. reserved = WorstMarker(at) + Trailer[at] + 2
      BY <1>1, <2>1, <3>1 DEF RoomInv
    <3>3. WorstMarker(at)' = WorstMarker(at)
      BY <1>9, <2>1
    <3>4. cost + reserved + NoticeCost + bytes < Limit
      BY <2>1, <3>1 DEF Fits
    <3> QED
      BY <1>4, <1>5, <2>1, <2>5, <3>2, <3>3, <3>4
  <2> QED
    BY <2>7, <2>8, <2>9 DEF IInv
<1>14. CASE CloseSection
  <2> DEFINE m == Cardinality(todo)
  <2>1. todo \in SUBSET Entries(at)
    BY <1>1, <1>14 DEF CloseSection, Closing, PlaceInv
  <2>2. m \in Nat /\ MarkerSize(at, m) \in Nat /\ MarkerSize(at, m) <= WorstMarker(at)
    BY <1>1, <1>3, <2>1, MarkerOfTheRest
  <2>3. /\ pc = "entries" /\ pc' = "section" /\ at' = at + 1 /\ reserved' = 0 /\ todo' = {}
        /\ bytes' = bytes + (IF todo = {} THEN 0 ELSE MarkerSize(at, m) + 1) + Trailer[at] + 1
        /\ shown' = [shown EXCEPT ![at] = [open |-> TRUE, kept |-> Entries(at) \ todo, omitted |-> m]]
    BY <1>14 DEF CloseSection, Closing, NextSection
  <2> HIDE DEF m
  <2>4. bytes' \in Nat
    BY <1>4, <1>5, <2>2, <2>3
  <2>5. shown' \in [Sections -> [open : BOOLEAN, kept : SUBSET Nat, omitted : Nat]]
    BY <1>4, <1>6, <2>2, <2>3
  <2>6. Given' /\ TypeOK'
    BY <1>2, <1>4, <2>3, <2>4, <2>5, SectionTypes
  <2>7. PlaceInv'
    BY <1>1, <1>2, <2>3 DEF PlaceInv
  <2>8. RoomInv'
    <3>1. SUFFICES ASSUME mode = "truncated" PROVE bytes' + NoticeCost' < Limit
      BY <1>2, <2>3 DEF RoomInv
    <3>2. reserved = WorstMarker(at) + Trailer[at] + 2 /\ bytes + reserved + NoticeCost < Limit
      BY <1>1, <2>3, <3>1 DEF RoomInv
    <3> QED
      BY <1>4, <1>5, <1>7, <2>2, <2>3, <3>2
  <2> QED
    BY <2>6, <2>7, <2>8 DEF IInv
<1> QED
  BY <1>10, <1>11, <1>12, <1>13, <1>14

LEMMA StepIInv == IInv /\ [Next]_vars => IInv'
<1> SUFFICES ASSUME IInv, [Next]_vars PROVE IInv'
  OBVIOUS
<1>1. CASE Reject \/ Parse \/ Classify
  BY <1>1, ParserStep
<1>2. CASE PreambleLine \/ PreambleEnds \/ ClipLine \/ ClipEnds \/ Finish
  BY <1>2, PreambleStep
<1>3. CASE EmptySection \/ OpenSection \/ AnnounceSection \/ DropSection \/ KeepEntry \/ CloseSection
  BY <1>3, SectionStep
<1>4. CASE UNCHANGED vars
  <2>1. UNCHANGED <<raw, skips>>
    BY <1>4 DEF vars, input
  <2> QED
    BY <1>4, <2>1, SameEntries DEF vars, input, text, IInv, Given, TypeOK, PlaceInv, RoomInv
<1> QED
  BY <1>1, <1>2, <1>3, <1>4 DEF Next

(* The invariant the properties rest on. *)
THEOREM Invariance == Spec => []IInv
<1> QED
  BY InitIInv, StepIInv, PTL DEF Spec

(* Every variable of the parser and the renderer keeps its type.             *)
THEOREM TypeCorrect == Spec => []TypeOK
<1>1. IInv => TypeOK
  BY DEF IInv
<1> QED
  BY <1>1, Invariance, PTL

(* renderSummaryMarkdown stays below the limit for every report, preamble    *)
(* and length of lines, provided the limit has room for the notice alone.    *)
THEOREM SummaryFitsHolds == Spec => []SummaryFits
<1>1. IInv => SummaryFits
  BY DEF IInv, RoomInv, SummaryFits
<1> QED
  BY <1>1, Invariance, PTL

-----------------------------------------------------------------------------
(* What the summary leaves out                                              *)

(* What is still to come after the sections of a truncated summary.         *)
Slack == IF pc \in {"classify", "over"} THEN 0 ELSE NoticeCost

(* What became of a section that has been rendered.                         *)
Told(s) ==
    LET sh == shown[s]
        rest == Entries(s) \ sh.kept
    IN  /\ Entries(s) # {} /\ ~sh.open => mode = "truncated" /\ bytes + Announcement(s) + Slack >= Limit
        /\ sh.open => Entries(s) # {} /\ sh.kept \subseteq Entries(s) /\ sh.omitted = Cardinality(rest)
        /\ sh.open /\ rest # {} =>
              /\ mode = "truncated"
              /\ \A i \in sh.kept : i < First(rest)
              /\ bytes + Size(s, First(rest)) + 1
                    + (WorstMarker(s) - MarkerSize(s, sh.omitted)) + Slack >= Limit

(* The sections before at are told, those from at on not begun; the entries *)
(* of the open one that are kept come before those that remain.             *)
ToldInv ==
    /\ pc \in {"parse", "rejected", "preamble", "clip"} \/ mode = "clipped" => at = 1
    /\ \A s \in Sections : s >= at => ~shown[s].open
    /\ \A s \in Sections : s < at => Told(s)
    /\ pc = "entries" => Entries(at) # {} /\ \A i \in Entries(at) \ todo, j \in todo : i < j
    /\ pc \in {"classify", "over"} /\ mode # "clipped" => at = 4

(* The same weight is reached when no more room is left.                    *)
LEMMA Weigh ==
    \A a, b, c, d, p, q, r, l \in Nat :
        a + p + 1 + (q - r) + b >= l /\ c + d >= a + b => c + p + 1 + (q - r) + d >= l
  OBVIOUS

(* A section stays told while no more room is made.                         *)
LEMMA StaysTold ==
    ASSUME IInv, NEW s \in Sections, Told(s), shown'[s] = shown[s], UNCHANGED <<raw, skips, mode>>,
           bytes' \in Nat, Slack' \in Nat, Slack \in Nat,
           mode = "truncated" => bytes' + Slack' >= bytes + Slack
    PROVE  Told(s)'
<1> DEFINE rest == Entries(s) \ shown[s].kept
<1>1. Given /\ TypeOK /\ bytes \in Nat
  BY DEF IInv, TypeOK
<1>2. /\ Entries(s)' = Entries(s) /\ WorstMarker(s)' = WorstMarker(s) /\ \A i : Size(s, i)' = Size(s, i)
      /\ Announcement(s)' = Announcement(s)
  BY SameEntries DEF Announcement
<1>3. WorstMarker(s) \in Nat /\ Announcement(s) \in Nat /\ Limit \in Nat
  <2>1. WorstMarker(s) \in Nat
    BY <1>1, MarkerOfTheRest
  <2>2. Heading[s] \in Nat /\ Trailer[s] \in Nat /\ Limit \in Nat
    BY <1>1, Measures
  <2> QED
    BY <2>1, <2>2 DEF Announcement
<1>4. ASSUME Entries(s) # {}, ~shown[s].open
      PROVE  mode' = "truncated" /\ bytes' + Announcement(s)' + Slack' >= Limit
  <2>1. mode = "truncated" /\ bytes + Announcement(s) + Slack >= Limit
    BY <1>4 DEF Told
  <2>2. bytes' + Slack' >= bytes + Slack
    BY <2>1
  <2>3. bytes' + Announcement(s) + Slack' >= Limit
    BY <1>1, <1>3, <2>1, <2>2
  <2> QED
    BY <1>2, <2>1, <2>3
<1>5. ASSUME shown[s].open, rest # {}
      PROVE  /\ mode' = "truncated"
             /\ bytes' + Size(s, First(rest)) + 1
                   + (WorstMarker(s) - MarkerSize(s, shown[s].omitted)) + Slack' >= Limit
  <2>1. rest \in SUBSET Entries(s) /\ rest \in SUBSET Nat
    BY <1>1, EntriesAreFinite
  <2>2. Size(s, First(rest)) \in Nat
    BY <1>1, <1>5, <2>1, FirstIsLeast, SizeIsANumber
  <2>3. shown[s].omitted = Cardinality(rest)
    BY <1>5 DEF Told
  <2>4. MarkerSize(s, shown[s].omitted) \in Nat
    BY <1>1, <2>1, <2>3, MarkerOfTheRest
  <2>5. /\ mode = "truncated"
        /\ bytes + Size(s, First(rest)) + 1
              + (WorstMarker(s) - MarkerSize(s, shown[s].omitted)) + Slack >= Limit
    BY <1>5 DEF Told
  <2> DEFINE size == Size(s, First(rest))
             worst == WorstMarker(s)
             marker == MarkerSize(s, shown[s].omitted)
  <2>6. size \in Nat /\ worst \in Nat /\ marker \in Nat /\ bytes + size + 1 + (worst - marker) + Slack >= Limit
    BY <1>3, <2>2, <2>4, <2>5
  <2>7. bytes' + Slack' >= bytes + Slack
    BY <2>5
  <2> HIDE DEF size, worst, marker
  <2>8. bytes' + size + 1 + (worst - marker) + Slack' >= Limit
    BY <1>1, <1>3, <2>6, <2>7, Weigh
  <2> QED
    BY <2>5, <2>8 DEF size, worst, marker
<1>6. MarkerSize(s, shown[s].omitted)' = MarkerSize(s, shown[s].omitted)
  BY DEF MarkerSize
<1>7. First(rest)' = First(rest)
  BY <1>2 DEF First
<1> QED
  BY <1>2, <1>4, <1>5, <1>6, <1>7 DEF Told

(* What a section is told to be by its own step.                            *)
LEMMA AnnouncedIsTold ==
    ASSUME IInv, ToldInv, AnnounceSection, NEW s \in Sections, s = at
    PROVE  Told(s)'
<1>1. Given /\ TypeOK /\ bytes \in Nat /\ PlaceInv
  BY DEF IInv, TypeOK
<1>2. /\ pc = "section" /\ pc' = "section" /\ mode = "truncated" /\ UNCHANGED <<raw, skips, mode>>
      /\ Entries(s) # {} /\ ~Fits(WithFirst(s))
      /\ bytes' = bytes + Announcement(s)
      /\ shown' = [shown EXCEPT ![s] = [open |-> TRUE, kept |-> {}, omitted |-> Cardinality(Entries(s))]]
  BY DEF AnnounceSection, NextSection, input
<1>3. shown'[s] = [open |-> TRUE, kept |-> {}, omitted |-> Cardinality(Entries(s))]
  BY <1>1, <1>2 DEF TypeOK
<1>4. reserved = 0 /\ Slack' = NoticeCost
  BY <1>1, <1>2 DEF PlaceInv, Slack, NoticeCost
<1>5. Entries(s)' = Entries(s) /\ WorstMarker(s)' = WorstMarker(s) /\ \A i : Size(s, i)' = Size(s, i)
  BY <1>2, SameEntries
<1>6. /\ WorstMarker(s) \in Nat /\ Limit \in Nat /\ NoticeCost \in Nat /\ Heading[s] \in Nat /\ Trailer[s] \in Nat
      /\ Entries(s) \in SUBSET Nat
  BY <1>1, MarkerOfTheRest, Measures, EntriesAreFinite
<1>7. Size(s, First(Entries(s))) \in Nat
  BY <1>1, <1>2, <1>6, FirstIsLeast, SizeIsANumber
<1>8. MarkerSize(s, Cardinality(Entries(s))) = WorstMarker(s)
  BY DEF WorstMarker
<1>9. bytes' + Size(s, First(Entries(s))) + 1 + (WorstMarker(s) - WorstMarker(s)) + Slack' >= Limit
  BY <1>1, <1>2, <1>4, <1>6, <1>7 DEF Fits, WithFirst, Announcement
<1>10. MarkerSize(s, shown[s].omitted)' = WorstMarker(s)
  BY <1>3, <1>8 DEF MarkerSize
<1>11. First(Entries(s) \ shown[s].kept)' = First(Entries(s)) /\ (Entries(s) \ shown[s].kept)' = Entries(s)
  BY <1>3, <1>5 DEF First
<1> QED
  BY <1>2, <1>3, <1>5, <1>9, <1>10, <1>11 DEF Told

LEMMA DroppedIsTold ==
    ASSUME IInv, ToldInv, EmptySection \/ DropSection, NEW s \in Sections, s = at
    PROVE  Told(s)'
<1>1. Given /\ TypeOK /\ bytes \in Nat /\ PlaceInv
  BY DEF IInv, TypeOK
<1>2. /\ pc = "section" /\ UNCHANGED <<raw, skips, mode, pc, bytes, shown, reserved>> /\ ~shown'[s].open
      /\ Entries(s) # {} => mode = "truncated" /\ ~Fits(Announcement(s))
  <2>1. ~shown[s].open
    BY DEF ToldInv, Sections
  <2> QED
    BY <2>1 DEF EmptySection, DropSection, NextSection, input
<1>3. Entries(s)' = Entries(s) /\ WorstMarker(s)' = WorstMarker(s)
  BY <1>2, SameEntries
<1>4. reserved = 0 /\ Slack' = NoticeCost
  BY <1>1, <1>2 DEF PlaceInv, Slack, NoticeCost
<1>5. Announcement(s)' = Announcement(s)
  BY <1>3 DEF Announcement
<1>6. WorstMarker(s) \in Nat
  BY <1>1, MarkerOfTheRest
<1>7. Limit \in Nat /\ NoticeCost \in Nat /\ Heading[s] \in Nat /\ Trailer[s] \in Nat
  BY <1>1, Measures
<1>8. Announcement(s) \in Nat
  BY <1>6, <1>7 DEF Announcement
<1>9. Entries(s) # {} => mode' = "truncated" /\ bytes' + Announcement(s) + Slack' >= Limit
  BY <1>1, <1>2, <1>4, <1>7, <1>8 DEF Fits
<1> QED
  BY <1>2, <1>3, <1>5, <1>9 DEF Told

(* The marker may be shorter than reserved: by as much more could have been *)
(* written.                                                                 *)
LEMMA WeighMarker ==
    \A a, b, p, q, r, t, l \in Nat :
        (p + 1) + (q + t + 2) + b + a >= l => (a + (r + 1) + t + 1) + p + 1 + (q - r) + b >= l
  OBVIOUS

LEMMA ClosedIsTold ==
    ASSUME IInv, ToldInv, CloseSection, NEW s \in Sections, s = at
    PROVE  Told(s)'
<1> DEFINE m == Cardinality(todo)
           rest == Entries(s) \ shown[s].kept
<1>1. Given /\ TypeOK /\ bytes \in Nat /\ PlaceInv /\ RoomInv
  BY DEF IInv, TypeOK
<1>2. /\ pc = "entries" /\ pc' = "section" /\ UNCHANGED <<raw, skips, mode>>
      /\ todo # {} => mode = "truncated" /\ ~Fits(Size(s, First(todo)) + 1)
      /\ bytes' = bytes + (IF todo = {} THEN 0 ELSE MarkerSize(s, m) + 1) + Trailer[s] + 1
      /\ shown' = [shown EXCEPT ![s] = [open |-> TRUE, kept |-> Entries(s) \ todo, omitted |-> m]]
  BY DEF CloseSection, Closing, NextSection, input
<1>3. shown'[s] = [open |-> TRUE, kept |-> Entries(s) \ todo, omitted |-> m]
  BY <1>1, <1>2 DEF TypeOK
<1>4. todo \in SUBSET Entries(s) /\ Entries(s) # {} /\ \A i \in Entries(s) \ todo, j \in todo : i < j
  BY <1>1, <1>2 DEF PlaceInv, ToldInv
<1>5. Entries(s)' = Entries(s) /\ WorstMarker(s)' = WorstMarker(s) /\ \A i : Size(s, i)' = Size(s, i)
  BY <1>2, SameEntries
<1>6. rest' = todo
  BY <1>3, <1>4, <1>5
<1>7. Entries(s)' # {} /\ shown'[s].kept \subseteq Entries(s)' /\ shown'[s].omitted = Cardinality(rest')
  BY <1>3, <1>4, <1>5, <1>6
<1>8. ASSUME todo # {}
      PROVE  /\ mode' = "truncated"
             /\ \A i \in shown'[s].kept : i < First(todo)
             /\ bytes' + Size(s, First(todo)) + 1 + (WorstMarker(s) - MarkerSize(s, m)) + Slack' >= Limit
  <2>1. todo \in SUBSET Nat
    BY <1>1, <1>4, EntriesAreFinite
  <2>2. First(todo) \in todo
    BY <1>8, <2>1, FirstIsLeast
  <2>3. Size(s, First(todo)) \in Nat
    BY <1>1, <1>4, <2>2, SizeIsANumber
  <2>4. WorstMarker(s) \in Nat /\ MarkerSize(s, m) \in Nat
    BY <1>1, <1>4, MarkerOfTheRest
  <2>5. Trailer[s] \in Nat /\ Limit \in Nat /\ NoticeCost \in Nat
    BY <1>1, Measures
  <2>6. reserved = WorstMarker(s) + Trailer[s] + 2
    BY <1>1, <1>2, <1>8 DEF RoomInv
  <2>7. ~((Size(s, First(todo)) + 1) + (WorstMarker(s) + Trailer[s] + 2) + NoticeCost + bytes < Limit)
    BY <1>2, <1>8, <2>6 DEF Fits
  <2>8. Slack' = NoticeCost
    BY <1>2 DEF Slack, NoticeCost
  <2>9. bytes' = bytes + (MarkerSize(s, m) + 1) + Trailer[s] + 1
    BY <1>2, <1>8
  <2> DEFINE p == Size(s, First(todo))
             q == WorstMarker(s)
             r == MarkerSize(s, m)
             t == Trailer[s]
  <2>10. /\ p \in Nat /\ q \in Nat /\ r \in Nat /\ t \in Nat
         /\ ~((p + 1) + (q + t + 2) + NoticeCost + bytes < Limit)
         /\ bytes' = bytes + (r + 1) + t + 1
    BY <2>3, <2>4, <2>5, <2>7, <2>9
  <2> HIDE DEF p, q, r, t
  <2>11. (p + 1) + (q + t + 2) + NoticeCost + bytes >= Limit
    BY <1>1, <2>5, <2>10
  <2>12. bytes' + p + 1 + (q - r) + Slack' >= Limit
    BY <1>1, <2>5, <2>8, <2>10, <2>11, WeighMarker
  <2> QED
    BY <1>2, <1>3, <1>4, <1>8, <2>2, <2>12 DEF p, q, r, t
<1>9. MarkerSize(s, shown[s].omitted)' = MarkerSize(s, m)
  BY <1>3 DEF MarkerSize
<1>10. First(rest)' = First(todo)
  BY <1>6 DEF First
<1> QED
  BY <1>3, <1>5, <1>6, <1>7, <1>8, <1>9, <1>10 DEF Told

(* Every step tells of the section it renders, and leaves the others told.  *)
LEMMA SectionsTold ==
    ASSUME IInv, IInv', ToldInv,
           EmptySection \/ OpenSection \/ AnnounceSection \/ DropSection \/ KeepEntry \/ CloseSection
    PROVE  ToldInv'
<1>1. Given /\ TypeOK /\ PlaceInv /\ Given' /\ TypeOK'
  BY DEF IInv
<1>2. UNCHANGED <<raw, skips, mode>> /\ mode # "clipped"
  <2>1. UNCHANGED <<raw, skips, mode>> /\ pc \in {"section", "entries"}
    BY DEF EmptySection, OpenSection, AnnounceSection, DropSection, KeepEntry, CloseSection, Closing,
           NextSection, input
  <2> QED
    BY <1>1, <2>1 DEF PlaceInv
<1>3. \A s : Entries(s)' = Entries(s)
  BY <1>2, SameEntries
<1>4. /\ at \in Sections /\ at \in 1..3 /\ bytes \in Nat /\ bytes' \in Nat
      /\ pc \in {"section", "entries"} /\ pc' \in {"section", "entries"}
  <2>1. pc \in {"section", "entries"} /\ at \in Sections
    BY <1>1 DEF PlaceInv, EmptySection, OpenSection, AnnounceSection, DropSection, KeepEntry, CloseSection, Closing
  <2>2. pc' \in {"section", "entries"}
    BY <2>1 DEF EmptySection, OpenSection, AnnounceSection, DropSection, KeepEntry, CloseSection, Closing
  <2> QED
    BY <1>1, <2>1, <2>2 DEF TypeOK, Sections
<1>5. NoticeCost \in Nat /\ Slack = NoticeCost /\ Slack' = NoticeCost
  BY <1>1, <1>4, Measures DEF Slack, NoticeCost
<1>6. bytes' >= bytes
  <2>1. Heading[at] \in Nat /\ Trailer[at] \in Nat /\ WorstMarker(at) \in Nat
    BY <1>1, <1>4, Measures, MarkerOfTheRest
  <2>2. CASE EmptySection \/ DropSection
    BY <1>4, <2>2 DEF EmptySection, DropSection
  <2>3. CASE OpenSection
    BY <1>4, <2>1, <2>3 DEF OpenSection
  <2>4. CASE AnnounceSection
    BY <1>4, <2>1, <2>4 DEF AnnounceSection, Announcement
  <2>5. CASE KeepEntry
    <3>1. todo \in SUBSET Entries(at) /\ todo \in SUBSET Nat /\ todo # {}
      BY <1>1, <1>4, <2>5, EntriesAreFinite DEF KeepEntry, PlaceInv
    <3>2. Size(at, First(todo)) \in Nat
      BY <1>1, <1>4, <3>1, FirstIsLeast, SizeIsANumber
    <3> QED
      BY <1>4, <2>5, <3>2 DEF KeepEntry
  <2>6. CASE CloseSection
    <3>1. todo \in SUBSET Entries(at)
      BY <1>1, <2>6 DEF CloseSection, Closing, PlaceInv
    <3>2. MarkerSize(at, Cardinality(todo)) \in Nat
      BY <1>1, <1>4, <3>1, MarkerOfTheRest
    <3> QED
      BY <1>4, <2>1, <2>6, <3>2 DEF CloseSection, Closing
  <2> QED
    BY <2>2, <2>3, <2>4, <2>5, <2>6
<1>7. ASSUME NEW s \in Sections, s # at PROVE shown'[s] = shown[s]
  BY <1>1, <1>7 DEF TypeOK, EmptySection, OpenSection, AnnounceSection, DropSection, KeepEntry, CloseSection, Closing
<1>8. ASSUME NEW s \in Sections, s < at PROVE Told(s)'
  <2>1. Told(s) /\ shown'[s] = shown[s]
    BY <1>4, <1>7, <1>8 DEF ToldInv, Sections
  <2> QED
    BY <1>2, <1>4, <1>5, <1>6, <2>1, StaysTold
<1>9. CASE EmptySection \/ DropSection \/ AnnounceSection \/ CloseSection
  <2>1. at' = at + 1 /\ pc' = "section"
    BY <1>4, <1>9 DEF EmptySection, DropSection, AnnounceSection, CloseSection, Closing, NextSection
  <2>2. \A s \in Sections : s = at => Told(s)'
    BY <1>9, DroppedIsTold, AnnouncedIsTold, ClosedIsTold
  <2>3. \A s \in Sections : s < at' => Told(s)'
    BY <1>4, <1>8, <2>1, <2>2 DEF Sections
  <2>4. \A s \in Sections : s >= at' => ~shown'[s].open
    BY <1>4, <1>7, <2>1 DEF ToldInv, Sections
  <2> QED
    BY <1>2, <2>1, <2>3, <2>4 DEF ToldInv
<1>10. CASE OpenSection
  <2>1. at' = at /\ pc' = "entries" /\ shown' = shown /\ todo' = Entries(at) /\ Entries(at) # {}
    BY <1>10 DEF OpenSection
  <2>2. Entries(at)' = Entries(at)
    BY <1>2, <2>1 DEF Entries, Of
  <2>3. \A s \in Sections : s < at' => Told(s)'
    BY <1>8, <2>1
  <2>4. \A s \in Sections : s >= at' => ~shown'[s].open
    BY <2>1 DEF ToldInv
  <2> QED
    BY <1>2, <2>1, <2>2, <2>3, <2>4 DEF ToldInv
<1>11. CASE KeepEntry
  <2>1. /\ at' = at /\ pc' = pc /\ pc = "entries" /\ shown' = shown /\ todo # {} /\ todo' = todo \ {First(todo)}
    BY <1>11 DEF KeepEntry
  <2>2. Entries(at)' = Entries(at)
    BY <1>2, <2>1 DEF Entries, Of
  <2>3. \A s \in Sections : s < at' => Told(s)'
    BY <1>8, <2>1
  <2>4. \A s \in Sections : s >= at' => ~shown'[s].open
    BY <2>1 DEF ToldInv
  <2>5. todo \in SUBSET Nat /\ Entries(at) \subseteq Nat /\ First(todo) \in todo /\ \A j \in todo : First(todo) <= j
    BY <1>1, <1>4, <2>1, EntriesAreFinite, FirstIsLeast DEF TypeOK
  <2>6. ASSUME NEW i \in Entries(at) \ todo', NEW j \in todo' PROVE i < j
    <3>1. CASE i = First(todo)
      BY <2>1, <2>5, <2>6, <3>1
    <3>2. CASE i # First(todo)
      BY <2>1, <2>6, <3>2 DEF ToldInv
    <3> QED
      BY <3>1, <3>2
  <2>7. Entries(at) # {}
    BY <2>1 DEF ToldInv
  <2> QED
    BY <1>2, <2>1, <2>2, <2>3, <2>4, <2>6, <2>7 DEF ToldInv
<1> QED
  BY <1>9, <1>10, <1>11

(* At the start of a rendering nothing has been told.                       *)
LEMMA NothingTold ==
    ASSUME at' = 1, pc' # "entries", \A s \in Sections : ~shown'[s].open,
           pc' \in {"classify", "over"} => mode' = "clipped"
    PROVE  ToldInv'
  BY DEF ToldInv, Sections

LEMMA ParserTold ==
    ASSUME IInv, IInv', ToldInv,
           Reject \/ Parse \/ PreambleLine \/ PreambleEnds \/ ClipLine \/ ClipEnds
    PROVE  ToldInv'
<1>1. PlaceInv /\ TypeOK
  BY DEF IInv
<1>2. at = 1
  BY DEF ToldInv, Reject, Parse, PreambleLine, PreambleEnds, ClipLine, ClipEnds
<1>3. \A s \in Sections : ~shown[s].open
  BY <1>2 DEF ToldInv, Sections
<1>4. CASE Reject \/ Parse
  BY <1>2, <1>3, <1>4, NothingTold DEF Reject, Parse, text
<1>5. CASE PreambleLine \/ ClipLine
  BY <1>2, <1>3, <1>5, NothingTold DEF PreambleLine, ClipLine
<1>6. CASE PreambleEnds
  <2>1. CASE Restart("clipped") /\ pc' = "clip"
    <3>1. \A s \in Sections : shown'[s] = Unseen
      BY <2>1 DEF Restart
    <3> QED
      BY <2>1, <3>1, NothingTold DEF Restart, Unseen
  <2>2. CASE UNCHANGED text /\ pc' = "section"
    BY <1>2, <1>3, <2>2, NothingTold DEF text
  <2> QED
    BY <1>6, <2>1, <2>2 DEF PreambleEnds
<1>7. CASE ClipEnds
  BY <1>1, <1>2, <1>3, <1>7, NothingTold DEF ClipEnds, PlaceInv
<1> QED
  BY <1>4, <1>5, <1>6, <1>7

LEMMA EndsTold ==
    ASSUME IInv, IInv', ToldInv, Finish \/ Classify
    PROVE  ToldInv'
<1>1. Given /\ TypeOK /\ PlaceInv /\ bytes \in Nat /\ bytes' \in Nat
  BY DEF IInv, TypeOK
<1>2. NoticeCost \in Nat /\ Slack \in Nat /\ Slack' \in Nat
  BY <1>1, Measures DEF Slack, NoticeCost
<1>3. CASE Finish /\ mode = "full" /\ bytes >= Limit
  <2>1. pc' = "preamble" /\ Restart("truncated")
    BY <1>1, <1>3, Measures DEF Finish
  <2>2. \A s \in Sections : shown'[s] = Unseen
    BY <2>1 DEF Restart
  <2> QED
    BY <2>1, <2>2, NothingTold DEF Restart, Unseen
<1>4. CASE Classify \/ (Finish /\ ~(mode = "full" /\ bytes >= Limit))
  <2>1. UNCHANGED <<raw, skips, mode, at, shown>> /\ pc' \in {"classify", "over"}
    BY <1>1, <1>4 DEF Classify, Finish, input, text
  <2>2. mode = "truncated" => bytes' + Slack' >= bytes + Slack
    <3>1. CASE Classify
      BY <1>1, <3>1 DEF Classify, text, Slack
    <3>2. CASE Finish
      BY <1>1, <1>2, <3>2 DEF Finish, Slack
    <3> QED
      BY <1>4, <3>1, <3>2
  <2>3. ASSUME NEW s \in Sections, s < at' PROVE Told(s)'
    BY <1>1, <1>2, <2>1, <2>2, <2>3, StaysTold DEF ToldInv
  <2>4. mode # "clipped" => at = 4
    BY <1>1, <1>4 DEF Finish, Classify, ToldInv, TypeOK, Sections
  <2> QED
    BY <2>1, <2>3, <2>4 DEF ToldInv
<1> QED
  BY <1>3, <1>4

LEMMA StepTold == IInv /\ IInv' /\ ToldInv /\ [Next]_vars => ToldInv'
<1> SUFFICES ASSUME IInv, IInv', ToldInv, [Next]_vars PROVE ToldInv'
  OBVIOUS
<1>1. CASE Next
  BY <1>1, SectionsTold, ParserTold, EndsTold DEF Next
<1>2. CASE UNCHANGED vars
  <2>1. UNCHANGED <<raw, skips, mode, at, shown, pc, bytes, todo>>
    BY <1>2 DEF vars, input, text
  <2>2. Entries(at)' = Entries(at) /\ bytes \in Nat /\ NoticeCost \in Nat
    BY <2>1, Measures DEF Entries, Of, IInv, TypeOK
  <2>3. Slack' = Slack /\ Slack \in Nat
    BY <2>1, <2>2 DEF Slack, NoticeCost
  <2>4. ASSUME NEW s \in Sections, s < at' PROVE Told(s)'
    BY <2>1, <2>2, <2>3, <2>4, StaysTold DEF ToldInv
  <2> QED
    BY <2>1, <2>2, <2>4 DEF ToldInv
<1> QED
  BY <1>1, <1>2

(* renderTruncatedSummary settles every section as it passes it.            *)
THEOREM ToldThroughout == Spec => []ToldInv
<1>1. Init => ToldInv
  BY DEF Init, ToldInv, Unseen, Sections
<1> QED
  BY <1>1, StepTold, Invariance, PTL DEF Spec

(* renderTruncatedSummary omits nothing it had room for, whatever the       *)
(* report, the limit and the length of the lines, and what it keeps of a    *)
(* section comes first.                                                     *)
THEOREM OmittedForWantOfRoomHolds == Spec => []OmittedForWantOfRoom
<1>1. IInv /\ ToldInv => OmittedForWantOfRoom
  <2> SUFFICES ASSUME IInv, ToldInv, pc \in {"classify", "over"}, mode # "clipped",
                      NEW s \in Sections, Entries(s) # {}
               PROVE  LET sh == shown[s]
                          rest == Entries(s) \ sh.kept
                      IN  /\ ~sh.open => mode = "truncated" /\ bytes + Announcement(s) >= Limit
                          /\ sh.open => sh.omitted = Cardinality(rest)
                          /\ sh.open /\ rest # {} =>
                                /\ \A i \in sh.kept : i < First(rest)
                                /\ bytes + Size(s, First(rest)) + 1
                                      + (WorstMarker(s) - MarkerSize(s, sh.omitted)) >= Limit
    BY DEF OmittedForWantOfRoom
  <2>1. Told(s) /\ Slack = 0 /\ bytes \in Nat /\ Given /\ TypeOK
    BY DEF ToldInv, Sections, Slack, IInv, TypeOK
  <2>2. WorstMarker(s) \in Nat
    BY <2>1, MarkerOfTheRest
  <2>3. Announcement(s) \in Nat
    BY <2>1, <2>2, Measures DEF Announcement
  <2> DEFINE rest == Entries(s) \ shown[s].kept
  <2>4. ASSUME shown[s].open, rest # {}
        PROVE  /\ \A i \in shown[s].kept : i < First(rest)
               /\ bytes + Size(s, First(rest)) + 1 + (WorstMarker(s) - MarkerSize(s, shown[s].omitted)) >= Limit
    <3>1. rest \in SUBSET Entries(s) /\ rest \in SUBSET Nat
      BY <2>1, EntriesAreFinite
    <3>2. Size(s, First(rest)) \in Nat
      BY <2>1, <2>4, <3>1, FirstIsLeast, SizeIsANumber
    <3>3. MarkerSize(s, shown[s].omitted) \in Nat
      BY <2>1, <2>4, <3>1, MarkerOfTheRest DEF Told
    <3>4. /\ \A i \in shown[s].kept : i < First(rest)
          /\ bytes + Size(s, First(rest)) + 1 + (WorstMarker(s) - MarkerSize(s, shown[s].omitted)) + 0 >= Limit
      BY <2>1, <2>4 DEF Told
    <3> DEFINE p == Size(s, First(rest))
               q == WorstMarker(s)
               r == MarkerSize(s, shown[s].omitted)
    <3>5. p \in Nat /\ q \in Nat /\ r \in Nat /\ bytes + p + 1 + (q - r) + 0 >= Limit
      BY <2>2, <3>2, <3>3, <3>4
    <3> HIDE DEF p, q, r
    <3>6. bytes + p + 1 + (q - r) >= Limit
      BY <2>1, <3>5
    <3> QED
      BY <3>4, <3>6 DEF p, q, r
  <2>5. shown[s].open => shown[s].omitted = Cardinality(rest)
    BY <2>1 DEF Told
  <2>6. ~shown[s].open => mode = "truncated" /\ bytes + Announcement(s) >= Limit
    BY <2>1, <2>3 DEF Told
  <2> HIDE DEF rest
  <2> QED
    BY <2>4, <2>5, <2>6 DEF rest
<1> QED
  BY <1>1, Invariance, ToldThroughout, PTL

-----------------------------------------------------------------------------
(* Counts, coverage and summary                                             *)

NotSkipped == Statuses \ {"skipped"}

StoryInv ==
    /\ pc \notin {"parse", "rejected"} =>
          ~Invalid(raw) /\ counts = Counts(raw) /\ skips \in Orders(SkippedOf(raw))
    /\ pc = "over" =>
          /\ coverage = "full" =>
                /\ Of(raw, NotSkipped) # {} /\ Of(raw, {"skipped"}) = {}
                /\ SkippedOf(raw) = <<>> /\ ~(counts.skipped > 0)
          /\ coverage = "none" => Of(raw, NotSkipped) = {}

LEMMA StepStory == StoryInv /\ [Next]_vars => StoryInv'
<1> SUFFICES ASSUME StoryInv, [Next]_vars PROVE StoryInv'
  OBVIOUS
<1>1. CASE Reject
  BY <1>1 DEF Reject, StoryInv
<1>2. CASE Parse
  <2>1. /\ pc' = "preamble" /\ counts' = Counts(raw) /\ skips' \in Orders(SkippedOf(raw)) /\ raw' = raw
        /\ ~Invalid(raw)
    BY <1>2 DEF Parse, input
  <2>2. Counts(raw)' = Counts(raw) /\ Invalid(raw)' = Invalid(raw) /\ Orders(SkippedOf(raw))' = Orders(SkippedOf(raw))
    BY <2>1 DEF Counts, Invalid, Orders, SkippedOf, Derived, HasDuplicates, Disagrees, Of, Identity
  <2> QED
    BY <2>1, <2>2 DEF StoryInv
<1>3. CASE Classify
  <2>1. /\ pc = "classify" /\ pc' = "over" /\ UNCHANGED <<raw, counts, skips>>
        /\ coverage' = "full" =>
              /\ Of(raw, NotSkipped) # {} /\ Of(raw, {"skipped"}) = {}
              /\ SkippedOf(raw) = <<>> /\ ~(counts.skipped > 0)
        /\ coverage' = "none" => Of(raw, NotSkipped) = {}
    BY <1>3 DEF Classify, input, NotSkipped
  <2>2. /\ Counts(raw)' = Counts(raw) /\ Invalid(raw)' = Invalid(raw) /\ SkippedOf(raw)' = SkippedOf(raw)
        /\ Orders(SkippedOf(raw))' = Orders(SkippedOf(raw))
    BY <2>1 DEF Counts, Invalid, Orders, SkippedOf, Derived, HasDuplicates, Disagrees, Of, Identity
  <2>3. Of(raw, NotSkipped)' = Of(raw, NotSkipped) /\ Of(raw, {"skipped"})' = Of(raw, {"skipped"})
    BY <2>1 DEF Of
  <2> QED
    BY <2>1, <2>2, <2>3 DEF StoryInv
<1>4. CASE Next /\ ~Reject /\ ~Parse /\ ~Classify
  <2>1. UNCHANGED <<raw, counts, skips>> /\ pc \notin {"parse", "rejected"} /\ pc' # "over"
    BY <1>4 DEF Next, PreambleLine, PreambleEnds, ClipLine, ClipEnds, EmptySection, OpenSection, AnnounceSection,
       DropSection, KeepEntry, CloseSection, Closing, NextSection, Finish, Restart, input
  <2>2. Counts(raw)' = Counts(raw) /\ Invalid(raw)' = Invalid(raw) /\ Orders(SkippedOf(raw))' = Orders(SkippedOf(raw))
    BY <2>1 DEF Counts, Invalid, Orders, SkippedOf, Derived, HasDuplicates, Disagrees, Of, Identity
  <2> QED
    BY <2>1, <2>2 DEF StoryInv
<1>5. CASE UNCHANGED vars
  <2>1. UNCHANGED <<raw, counts, skips, pc, coverage>>
    BY <1>5 DEF vars, input
  <2>2. /\ Counts(raw)' = Counts(raw) /\ Invalid(raw)' = Invalid(raw) /\ SkippedOf(raw)' = SkippedOf(raw)
        /\ Orders(SkippedOf(raw))' = Orders(SkippedOf(raw))
    BY <2>1 DEF Counts, Invalid, Orders, SkippedOf, Derived, HasDuplicates, Disagrees, Of, Identity
  <2>3. Of(raw, NotSkipped)' = Of(raw, NotSkipped) /\ Of(raw, {"skipped"})' = Of(raw, {"skipped"})
    BY <2>1 DEF Of
  <2> QED
    BY <2>1, <2>2, <2>3 DEF StoryInv
<1> QED
  BY <1>1, <1>2, <1>3, <1>4, <1>5

(* The results are numbered, and those of disjoint statuses are disjoint.   *)
LEMMA OfFacts ==
    ASSUME Given, NEW S
    PROVE  /\ DOMAIN raw.results = 1..Len(raw.results) /\ Len(raw.results) \in Nat
           /\ Of(raw, S) \in SUBSET (1..Len(raw.results))
           /\ IsFiniteSet(Of(raw, S)) /\ Cardinality(Of(raw, S)) \in Nat
<1>1. raw.results \in Seq(Results)
  BY ReportingAssumption DEF Given
<1>2. DOMAIN raw.results = 1..Len(raw.results) /\ Len(raw.results) \in Nat
  BY <1>1
<1>3. Of(raw, S) \in SUBSET (1..Len(raw.results)) /\ IsFiniteSet(1..Len(raw.results))
  BY <1>2, FS_Interval DEF Of
<1>4. IsFiniteSet(Of(raw, S))
  BY <1>3, FS_Subset
<1> QED
  BY <1>2, <1>3, <1>4, FS_CardinalityType

LEMMA OfUnion ==
    ASSUME Given, NEW S, NEW T, S \cap T = {}
    PROVE  Cardinality(Of(raw, S \cup T)) = Cardinality(Of(raw, S)) + Cardinality(Of(raw, T))
<1>1. Of(raw, S \cup T) = Of(raw, S) \cup Of(raw, T) /\ Of(raw, S) \cap Of(raw, T) = {}
  BY DEF Of
<1>2. /\ IsFiniteSet(Of(raw, S)) /\ IsFiniteSet(Of(raw, T))
      /\ Cardinality(Of(raw, S)) \in Nat /\ Cardinality(Of(raw, T)) \in Nat
  BY OfFacts
<1>3. Cardinality(Of(raw, S) \cup Of(raw, T))
        = Cardinality(Of(raw, S)) + Cardinality(Of(raw, T)) - Cardinality(Of(raw, S) \cap Of(raw, T))
  BY <1>2, FS_Union
<1>4. Cardinality(Of(raw, S) \cap Of(raw, T)) = 0
  BY <1>1, FS_EmptySet
<1> QED
  BY <1>1, <1>2, <1>3, <1>4

(* Every result has one status.                                             *)
LEMMA Partition ==
    ASSUME Given
    PROVE  /\ Cardinality(Of(raw, NotSkipped)) =
                 Cardinality(Of(raw, {"pass"})) + Cardinality(Of(raw, {"fail"}))
                    + Cardinality(Of(raw, {"warning"})) + Cardinality(Of(raw, {"error"}))
           /\ Cardinality(Of(raw, {"fail", "error"})) =
                 Cardinality(Of(raw, {"fail"})) + Cardinality(Of(raw, {"error"}))
           /\ Of(raw, {"skipped"}) = {} => Cardinality(Of(raw, NotSkipped)) = Len(raw.results)
<1>1. raw.results \in Seq(Results) /\ DOMAIN raw.results = 1..Len(raw.results) /\ Len(raw.results) \in Nat
  BY ReportingAssumption DEF Given
<1>2. /\ Cardinality(Of(raw, {"pass"})) \in Nat /\ Cardinality(Of(raw, {"fail"})) \in Nat
      /\ Cardinality(Of(raw, {"warning"})) \in Nat /\ Cardinality(Of(raw, {"error"})) \in Nat
  BY OfFacts
<1>3. /\ {"fail"} \cup {"error"} = {"fail", "error"} /\ {"pass"} \cup {"fail", "error"} = {"pass", "fail", "error"}
      /\ {"pass", "fail", "error"} \cup {"warning"} = NotSkipped
  BY DEF NotSkipped, Statuses
<1>4. Cardinality(Of(raw, {"fail", "error"})) = Cardinality(Of(raw, {"fail"})) + Cardinality(Of(raw, {"error"}))
  BY <1>3, OfUnion
<1>5. Cardinality(Of(raw, {"pass", "fail", "error"})) =
         Cardinality(Of(raw, {"pass"})) + Cardinality(Of(raw, {"fail", "error"}))
  <2>1. {"pass"} \cap {"fail", "error"} = {}
    OBVIOUS
  <2>2. Cardinality(Of(raw, {"pass"} \cup {"fail", "error"})) =
           Cardinality(Of(raw, {"pass"})) + Cardinality(Of(raw, {"fail", "error"}))
    BY <2>1, OfUnion
  <2> QED
    BY <1>3, <2>2
<1>6. Cardinality(Of(raw, NotSkipped)) =
         Cardinality(Of(raw, {"pass", "fail", "error"})) + Cardinality(Of(raw, {"warning"}))
  <2>1. {"pass", "fail", "error"} \cap {"warning"} = {}
    OBVIOUS
  <2>2. Cardinality(Of(raw, {"pass", "fail", "error"} \cup {"warning"})) =
           Cardinality(Of(raw, {"pass", "fail", "error"})) + Cardinality(Of(raw, {"warning"}))
    BY <2>1, OfUnion
  <2> QED
    BY <1>3, <2>2
<1>7. ASSUME Of(raw, {"skipped"}) = {} PROVE Cardinality(Of(raw, NotSkipped)) = Len(raw.results)
  <2>1. \A i \in DOMAIN raw.results : raw.results[i].status \in Statuses
    <3>1. \A i \in DOMAIN raw.results : raw.results[i] \in Results
      BY <1>1
    <3>2. \A r \in Results : r.status \in Statuses
      BY DEF Results
    <3> QED
      BY <3>1, <3>2
  <2>2. Of(raw, NotSkipped) = 1..Len(raw.results)
    BY <1>1, <1>7, <2>1 DEF Of, NotSkipped
  <2> QED
    BY <1>1, <2>2, FS_Interval
<1> QED
  BY <1>2, <1>4, <1>5, <1>6, <1>7

(* Without duplicates every result is a fixture of its own.                 *)
LEMMA OneFixtureEach ==
    ASSUME Given, ~HasDuplicates(raw)
    PROVE  Cardinality({Identity(raw.results[i]) : i \in DOMAIN raw.results}) = Len(raw.results)
<1> DEFINE T == {Identity(raw.results[i]) : i \in DOMAIN raw.results}
           S == DOMAIN raw.results
           f == [i \in S |-> Identity(raw.results[i])]
<1>1. S = 1..Len(raw.results) /\ Len(raw.results) \in Nat
  BY OfFacts
<1>2. f \in [S -> T] /\ (\A t \in T : \E i \in S : f[i] = t)
  OBVIOUS
<1>3. f \in Surjection(S, T)
  BY <1>2 DEF Surjection
<1>4. \A i, j \in S : f[i] = f[j] => i = j
  BY DEF HasDuplicates
<1>5. f \in Injection(S, T)
  BY <1>2, <1>4 DEF Injection, IsInjective
<1>6. IsFiniteSet(S) /\ Cardinality(S) = Len(raw.results)
  BY <1>1, FS_Interval
<1> HIDE DEF S, T, f
<1>7. Cardinality(T) = Cardinality(S)
  BY <1>3, <1>5, <1>6, FS_Surjection
<1> QED
  BY <1>6, <1>7 DEF T, S

(* An open section accounts for all its entries.                            *)
LEMMA OpenAccounts ==
    ASSUME IInv, ToldInv, NEW s \in Sections, shown[s].open
    PROVE  /\ Entries(s) # {}
           /\ Cardinality(shown[s].kept) + shown[s].omitted = Cardinality(Entries(s))
<1>1. Given /\ TypeOK
  BY DEF IInv
<1>2. Told(s)
  BY <1>1 DEF ToldInv, Sections, TypeOK
<1>3. Entries(s) # {} /\ shown[s].kept \subseteq Entries(s)
      /\ shown[s].omitted = Cardinality(Entries(s) \ shown[s].kept)
  BY <1>2 DEF Told
<1> DEFINE kept == shown[s].kept
           rest == Entries(s) \ shown[s].kept
<1>4. IsFiniteSet(Entries(s))
  BY <1>1, EntriesAreFinite
<1>5. IsFiniteSet(kept) /\ IsFiniteSet(rest)
  BY <1>3, <1>4, FS_Subset
<1>6. kept \cup rest = Entries(s) /\ kept \cap rest = {}
  BY <1>3
<1> HIDE DEF kept, rest
<1>7. Cardinality(kept \cup rest) = Cardinality(kept) + Cardinality(rest) - Cardinality(kept \cap rest)
  BY <1>5, FS_Union
<1>8. Cardinality(kept \cap rest) = 0 /\ Cardinality(kept) \in Nat /\ Cardinality(rest) \in Nat
  BY <1>5, <1>6, FS_EmptySet, FS_CardinalityType
<1> QED
  BY <1>3, <1>6, <1>7, <1>8 DEF kept, rest

(* Counts that are derived, or were complete, are those of the results.     *)
LEMMA VouchedCounts ==
    ASSUME Given, ~Invalid(raw), Vouched
    PROVE  Counts(raw) = Derived(raw)
  BY DEF Invalid, Disagrees, Vouched, Counts

LEMMA SkipsOpen ==
    ASSUME Given, TypeOK, StoryInv, pc \notin {"parse", "rejected"}
    PROVE  /\ Cardinality(Entries(3)) = Len(skips)
           /\ Entries(3) # {} => SkippedOf(raw) # <<>>
<1>1. skips \in Seq(Skips) /\ SkippedOf(raw) \in Seq(Skips)
  BY SkippedIsASequence DEF TypeOK
<1>2. DOMAIN skips = DOMAIN SkippedOf(raw)
  BY DEF StoryInv, Orders
<1>3. Entries(3) = 1..Len(skips) /\ Len(skips) \in Nat
  BY <1>1 DEF Entries
<1>4. Cardinality(1..Len(skips)) = Len(skips)
  <2>1. \A n \in Nat : 1 \in Int /\ n \in Int /\ (1 > n => n = 0) /\ n - 1 + 1 = n
    OBVIOUS
  <2>2. \A n \in Nat : Cardinality(1..n) = n
    BY <2>1, FS_Interval
  <2> QED
    BY <1>3, <2>2
<1>5. ASSUME SkippedOf(raw) = <<>> PROVE Entries(3) = {}
  <2>1. DOMAIN SkippedOf(raw) = {}
    BY <1>5
  <2> QED
    BY <1>2, <2>1 DEF Entries
<1> QED
  BY <1>3, <1>4, <1>5

(* What the outputs say of the report is computed from it once.             *)
THEOREM StoryThroughout == Spec => []StoryInv
<1>1. Init => StoryInv
  BY DEF Init, StoryInv
<1> QED
  BY <1>1, StepStory, PTL DEF Spec

(* The outputs and the summary agree, whatever report was printed: counts   *)
(* and coverage-state with each other, and each section with the counts.    *)
THEOREM OneStoryHolds == Spec => []OneStory
<1> DEFINE told(s) == Cardinality(shown[s].kept) + shown[s].omitted
           verdicts == counts.passed + counts.failed + counts.warnings + counts.errors
<1>1. IInv /\ ToldInv /\ StoryInv => OneStory
  <2> SUFFICES ASSUME IInv, ToldInv, StoryInv, pc = "over"
               PROVE  /\ Vouched => counts.total =
                               Cardinality({Identity(raw.results[i]) : i \in DOMAIN raw.results})
                      /\ coverage = "full" =>
                            counts.skipped <= 0 /\ (Vouched => verdicts = counts.total /\ verdicts > 0)
                      /\ coverage = "none" /\ Vouched => verdicts = 0
                      /\ shown[1].open /\ Vouched => told(1) = counts.failed + counts.errors
                      /\ shown[2].open /\ Vouched => told(2) = counts.warnings
                      /\ shown[3].open => told(3) = Len(skips) /\ coverage # "full"
    BY DEF OneStory
  <2>1. Given /\ TypeOK /\ ~Invalid(raw) /\ counts = Counts(raw)
    BY DEF IInv, StoryInv
  <2>2. counts.skipped \in Int
    BY <2>1, CountsAreComplete DEF Complete
  <2>3. Vouched => counts = Derived(raw)
    BY <2>1, VouchedCounts
  <2>4. Vouched =>
           /\ counts.total = Len(raw.results) /\ counts.passed = Cardinality(Of(raw, {"pass"}))
           /\ counts.failed = Cardinality(Of(raw, {"fail"})) /\ counts.warnings = Cardinality(Of(raw, {"warning"}))
           /\ counts.errors = Cardinality(Of(raw, {"error"}))
    BY <2>3 DEF Derived
  <2>5. Vouched => verdicts = Cardinality(Of(raw, NotSkipped))
    BY <2>1, <2>4, Partition
  <2>6. IsFiniteSet(Of(raw, NotSkipped)) /\ Cardinality(Of(raw, NotSkipped)) \in Nat
    BY <2>1, OfFacts
  <2> HIDE DEF verdicts
  <2>7. Vouched => counts.total = Cardinality({Identity(raw.results[i]) : i \in DOMAIN raw.results})
    BY <2>1, <2>4, OneFixtureEach DEF Invalid
  <2>8. ASSUME coverage = "full"
        PROVE  counts.skipped <= 0 /\ (Vouched => verdicts = counts.total /\ verdicts > 0)
    <3>1. Of(raw, NotSkipped) # {} /\ Of(raw, {"skipped"}) = {} /\ ~(counts.skipped > 0)
      BY <2>8 DEF StoryInv
    <3>2. Cardinality(Of(raw, NotSkipped)) = Len(raw.results)
      BY <2>1, <3>1, Partition
    <3>3. Cardinality(Of(raw, NotSkipped)) # 0
      BY <2>6, <3>1, FS_EmptySet
    <3> QED
      BY <2>2, <2>4, <2>5, <2>6, <3>1, <3>2, <3>3
  <2>9. coverage = "none" /\ Vouched => verdicts = 0
    BY <2>5, FS_EmptySet DEF StoryInv
  <2>10. \A s \in Sections : shown[s].open => Entries(s) # {} /\ told(s) = Cardinality(Entries(s))
    BY OpenAccounts
  <2>11. 1 \in Sections /\ 2 \in Sections /\ 3 \in Sections
    BY DEF Sections
  <2>12. Entries(1) = Of(raw, {"fail", "error"}) /\ Entries(2) = Of(raw, {"warning"})
    BY DEF Entries, StatusesOf
  <2>13. Cardinality(Of(raw, {"fail", "error"})) = Cardinality(Of(raw, {"fail"})) + Cardinality(Of(raw, {"error"}))
    BY <2>1, Partition
  <2>14. Cardinality(Entries(3)) = Len(skips) /\ (Entries(3) # {} => SkippedOf(raw) # <<>>)
    BY <2>1, SkipsOpen
  <2> HIDE DEF told
  <2>15. shown[1].open /\ Vouched => told(1) = counts.failed + counts.errors
    BY <2>4, <2>10, <2>11, <2>12, <2>13
  <2>16. shown[2].open /\ Vouched => told(2) = counts.warnings
    BY <2>4, <2>10, <2>11, <2>12
  <2>17. shown[3].open => told(3) = Len(skips) /\ coverage # "full"
    BY <2>10, <2>11, <2>14 DEF StoryInv
  <2> QED
    BY <2>7, <2>8, <2>9, <2>15, <2>16, <2>17
<1> QED
  BY <1>1, Invariance, ToldThroughout, StoryThroughout, PTL
=============================================================================

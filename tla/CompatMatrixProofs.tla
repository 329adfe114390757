------------------------- MODULE CompatMatrixProofs --------------------------
(***************************************************************************)
(* Proofs about CompatMatrix: for every matrix, registry and way an engine *)
(* may end, and wherever steps, runners, uploads and downloads are lost, a *)
(* green collector is earned and a red one, if nothing was lost, warranted.*)
(* CellInv follows the evidence of one cell from its engine to its         *)
(* artifact; CollectInv says what the collector has seen of it.            *)
(***************************************************************************)
EXTENDS CompatMatrix, FiniteSetTheorems, TLAPS

(* The matrix is the product of the accepted lists, or there is none, and   *)
(* then no job of a cell has begun.                                         *)
MatrixInv ==
    /\ prepare = "success" => Accepted /\ matrix = BuildMatrix(Lists.engines, Lists.packs)
    /\ prepare # "success" => matrix = << >> /\ \A i \in Ids : step[i] = "checkout"

(* The directory of a cell holds how its engine ended.                      *)
HoldsTheRun(i) ==
    /\ ran[i] \in CliRuns
    /\ Files \subseteq disk[i].files
    /\ disk[i].exit = ran[i].exit /\ disk[i].report = ran[i].report
    /\ disk[i].detail = ran[i].detail /\ disk[i].line = ran[i].line
    /\ disk[i].parse = ran[i].parse

(* A job that is still successful has succeeded in each step behind it.     *)
CellInv(i) ==
    job[i] = "success" =>
        /\ step[i] # "checkout" => outcome[i].engine = "success" /\ outcome[i].fixtures = "success"
        /\ step[i] \notin {"checkout", "build"} =>
              outcome[i].build = "success" /\ "build" \in disk[i].files
        /\ step[i] \in {"facts", "upload", "over"} =>
              outcome[i].check = "success" /\ HoldsTheRun(i)
        /\ step[i] \in {"upload", "over"} => disk[i].facts = CreateCellFacts(i)
        /\ step[i] = "over" => store[i] = disk[i]

(* The collector starts when nothing of a cell moves any more, and sees the *)
(* facts that a cell uploaded or none.                                      *)
CollectInv ==
    /\ collect = "waiting" => \A i \in Ids : got[i] = None
    /\ collect # "waiting" =>
          /\ JobsOver
          /\ \A i \in Cells : got[i] # None =>
                store[i] # None /\ got[i].facts \in {None, store[i].facts}
    /\ collect \in {"waiting", "downloaded"} => classes = None
    /\ collect \in {"classified", "published", "over"} /\ collectJob = "success" =>
          /\ classes = [i \in Cells |-> ClassOf(i)]
          /\ hasFailures = (Issues \/ \E i \in Cells : ClassOf(i) \in ShouldFailJob)
    /\ verdict # "none" =>
          /\ collect = "over"
          /\ verdict = IF collectJob = "failure" \/ hasFailures THEN "red" ELSE "green"
    /\ collect = "over" => verdict # "none"

IInv == TypeOK /\ MatrixInv /\ (\A i \in Ids : CellInv(i)) /\ CollectInv

-----------------------------------------------------------------------------
(* The product of the lists                                                 *)

(* Division with a remainder. *)
LEMMA Division ==
    ASSUME NEW a \in Nat, NEW n \in Nat, n > 0
    PROVE  a \div n \in Nat /\ a % n \in 0..(n - 1) /\ a = n * (a \div n) + (a % n)
  OBVIOUS

(* A product bounds the quotient by its other factor. *)
LEMMA QuotientBound ==
    ASSUME NEW q \in Nat, NEW m \in Nat, NEW n \in Nat, NEW r \in Nat, n * q + r < m * n
    PROVE  q < m
<1>1. ASSUME q >= m PROVE FALSE
  <2>1. n * q >= n * m
    BY <1>1
  <2> QED
    BY <2>1
<1> QED
  BY <1>1

(* Every index of buildMatrix stands for one engine and one pack.            *)
LEMMA ProductIndex ==
    ASSUME NEW m \in Nat, NEW n \in Nat, NEW i \in 1..(m * n)
    PROVE  /\ n > 0 /\ i - 1 \in Nat
           /\ ((i - 1) \div n) + 1 \in 1..m
           /\ ((i - 1) % n) + 1 \in 1..n
<1> DEFINE q == (i - 1) \div n
           r == (i - 1) % n
<1>1. i - 1 \in Nat /\ m * n \in Nat /\ i - 1 < m * n
  OBVIOUS
<1>2. n > 0
  BY <1>1
<1>3. q \in Nat /\ r \in 0..(n - 1) /\ i - 1 = n * q + r
  BY <1>1, <1>2, Division
<1> HIDE DEF q, r
<1>4. q < m
  BY <1>1, <1>3, QuotientBound
<1> QED
  BY <1>1, <1>2, <1>3, <1>4 DEF q, r

(* buildMatrix: a sequence of pairs of well-formed references, as long as   *)
(* the product of the lists.                                                *)
LEMMA MatrixType ==
    ASSUME NEW es \in Seq(Words), NEW ps \in Seq(Words),
           ParseReferenceList(es), ParseReferenceList(ps)
    PROVE  /\ BuildMatrix(es, ps) \in Seq(Pairs)
           /\ Len(BuildMatrix(es, ps)) = Len(es) * Len(ps)
           /\ Len(es) * Len(ps) > 0
<1> DEFINE m == Len(es)
           n == Len(ps)
<1>1. m \in Nat /\ n \in Nat /\ m > 0 /\ n > 0 /\ DOMAIN es = 1..m /\ DOMAIN ps = 1..n
  BY DEF ParseReferenceList
<1>2. m * n \in Nat /\ m * n > 0
  BY <1>1
<1>3. ASSUME NEW i \in 1..(m * n)
      PROVE  <<es[((i - 1) \div n) + 1], ps[((i - 1) % n) + 1]>> \in Pairs
  <2>1. ((i - 1) \div n) + 1 \in 1..m /\ ((i - 1) % n) + 1 \in 1..n
    BY <1>1, ProductIndex
  <2> QED
    BY <1>1, <2>1 DEF ParseReferenceList, Pairs
<1> HIDE DEF m, n
<1>4. BuildMatrix(es, ps) \in [1..(m * n) -> Pairs]
  BY <1>3 DEF BuildMatrix, m, n
<1> QED
  BY <1>2, <1>4 DEF m, n

(* No pair stands in the matrix twice, as neither list has a double.        *)
LEMMA MatrixIsDistinct ==
    ASSUME NEW es \in Seq(Words), NEW ps \in Seq(Words),
           ParseReferenceList(es), ParseReferenceList(ps),
           NEW i \in DOMAIN BuildMatrix(es, ps), NEW j \in DOMAIN BuildMatrix(es, ps),
           BuildMatrix(es, ps)[i] = BuildMatrix(es, ps)[j]
    PROVE  i = j
<1> DEFINE m == Len(es)
           n == Len(ps)
           q(k) == (k - 1) \div n
           r(k) == (k - 1) % n
<1>1. m \in Nat /\ n \in Nat /\ DOMAIN es = 1..m /\ DOMAIN ps = 1..n
  OBVIOUS
<1>2. i \in 1..(m * n) /\ j \in 1..(m * n)
  BY DEF BuildMatrix
<1>3. es[q(i) + 1] = es[q(j) + 1] /\ ps[r(i) + 1] = ps[r(j) + 1]
  BY <1>2 DEF BuildMatrix
<1>4. \A k \in 1..(m * n) : n > 0 /\ k - 1 \in Nat /\ q(k) + 1 \in 1..m /\ r(k) + 1 \in 1..n
  BY <1>1, ProductIndex
<1>5. q(i) + 1 = q(j) + 1 /\ r(i) + 1 = r(j) + 1
  BY <1>1, <1>2, <1>3, <1>4 DEF ParseReferenceList
<1>6. ASSUME NEW k \in 1..(m * n)
      PROVE  q(k) \in Nat /\ r(k) \in Nat /\ k - 1 = n * q(k) + r(k)
  <2>1. n \in Nat /\ n > 0 /\ k - 1 \in Nat
    BY <1>1, <1>4
  <2> QED
    BY <2>1, Division
<1> HIDE DEF m, n, q, r
<1>7. q(i) = q(j) /\ r(i) = r(j)
  BY <1>2, <1>5, <1>6
<1>8. i - 1 = j - 1
  BY <1>2, <1>6, <1>7
<1> QED
  BY <1>1, <1>2, <1>8

-----------------------------------------------------------------------------
(* Types                                                                    *)

(* The cells are numbered within the bound. *)
LEMMA CellsAreIds == TypeOK => Cells \subseteq Ids /\ \A i \in Cells : matrix[i] \in Pairs
  BY MatrixAssumption DEF TypeOK, Cells, Ids

(* What the results of a step do to the job and to the outcomes.            *)
LEMMA EndedFacts ==
    ASSUME TypeOK, NEW i \in Ids, NEW results,
           \A s \in DOMAIN results : results[s] \in StepOutcomes,
           Ended(i, results)
    PROVE  /\ outcome' \in [Ids -> [{"engine", "fixtures", "build", "check"} -> StepOutcomes]]
           /\ job' \in [Ids -> {"success", "failure", "cancelled"}]
           /\ \A k \in Ids \ {i} : outcome'[k] = outcome[k] /\ job'[k] = job[k]
           /\ \A s \in {"engine", "fixtures", "build", "check"} :
                 outcome'[i][s] = IF s \in DOMAIN results THEN results[s] ELSE outcome[i][s]
           /\ job'[i] = "success" =>
                 job[i] = "success" /\ \A s \in DOMAIN results : results[s] = "success"
<1> DEFINE new == [s \in DOMAIN outcome[i] |-> IF s \in DOMAIN results THEN results[s]
                                               ELSE outcome[i][s]]
           now == IF \E s \in DOMAIN results : results[s] = "cancelled" THEN "cancelled"
                  ELSE IF \A s \in DOMAIN results : results[s] = "success" THEN job[i]
                  ELSE "failure"
<1>1. outcome' = [outcome EXCEPT ![i] = new] /\ job' = [job EXCEPT ![i] = now]
  BY DEF Ended
<1>2. new \in [{"engine", "fixtures", "build", "check"} -> StepOutcomes]
  BY DEF TypeOK
<1>3. now \in {"success", "failure", "cancelled"}
  BY DEF TypeOK
<1>4. \A s \in {"engine", "fixtures", "build", "check"} :
         new[s] = IF s \in DOMAIN results THEN results[s] ELSE outcome[i][s]
  BY DEF TypeOK
<1>5. now = "success" => job[i] = "success" /\ \A s \in DOMAIN results : results[s] = "success"
  OBVIOUS
<1> HIDE DEF new, now
<1> QED
  BY <1>1, <1>2, <1>3, <1>4, <1>5 DEF TypeOK

(* createCellFacts writes facts. *)
LEMMA FactsType ==
    ASSUME TypeOK, NEW i \in Cells
    PROVE  CreateCellFacts(i) \in Facts
<1>1. i \in Ids /\ matrix[i] \in Pairs
  BY CellsAreIds
<1> DEFINE e == disk[i]
           o == outcome[i]
<1>2. e \in Evidence /\ o \in [{"engine", "fixtures", "build", "check"} -> StepOutcomes]
  BY <1>1 DEF TypeOK
<1>3. CheckOutcome(e.exit, o.check) \in StepOutcomes \cup {"completed", "timeout"}
  BY <1>2 DEF CheckOutcome, StepOutcomes
<1>4. ParseCliReport(e.report) => e.report.status \in CheckStatuses /\ e.report.total \in Nat
  BY <1>2 DEF Evidence, CliReports, ParseCliReport
<1>5. CliFailureKind(e) \in {"fixture-parse", None}
  BY DEF CliFailureKind
<1>6. FirstDiagnostic(e) \in SUBSET Signatures
  BY <1>2 DEF FirstDiagnostic, Evidence
<1>7. e.exit \in Exits \cup {None} /\ e.files \in SUBSET Files
  BY <1>2 DEF Evidence
<1>8. o.engine \in StepOutcomes /\ o.fixtures \in StepOutcomes /\ o.build \in StepOutcomes
  BY <1>2
<1> HIDE DEF e, o
<1> QED
  BY <1>1, <1>3, <1>4, <1>5, <1>6, <1>7, <1>8 DEF CreateCellFacts, Facts, e, o

(* What is left of an artifact is evidence still.                           *)
LEMMA PartsType ==
    ASSUME NEW e \in Evidence \cup {None}, NEW p \in Parts(e)
    PROVE  /\ p \in Evidence \cup {None}
           /\ p # None => e # None /\ p.facts \in {None, e.facts}
<1>1. CASE p = None
  BY <1>1
<1>2. CASE p # None
  <2>1. e # None /\ \E fs \in SUBSET e.files, f \in {None, e.facts} : p = Part(e, fs, f)
    BY <1>2 DEF Parts
  <2> PICK fs \in SUBSET e.files, f \in {None, e.facts} : p = Part(e, fs, f)
    BY <2>1
  <2>2. e \in Evidence /\ fs \in SUBSET Files /\ f \in Facts \cup {None}
    BY <2>1 DEF Evidence
  <2>3. p \in Evidence /\ p.facts = f
    BY <2>2 DEF Evidence, Part
  <2> QED
    BY <2>1, <2>3
<1> QED
  BY <1>1, <1>2

(* classifyCell and the checks before it yield a known class.               *)
LEMMA ClassType == ASSUME NEW i PROVE ClassOf(i) \in Classes
<1>1. \A f, s : FailureClass(f, s) \in Classes
  BY DEF FailureClass, Classes, ShouldFailJob
<1>2. \A f : ClassifyCell(f) \in Classes
  BY <1>1 DEF ClassifyCell, Classes, ShouldFailJob
<1> QED
  BY <1>2 DEF ClassOf, Classes, ShouldFailJob

(* A step of a cell's job leaves the request, the matrix and the collector   *)
(* alone: only the parts of the cells have to be looked at.                 *)
LEMMA CellTypes ==
    ASSUME TypeOK, UNCHANGED <<request, registry, faults, prepare, matrix, collectVars>>,
           step' \in [Ids -> {"checkout", "build", "check", "facts", "upload", "over"}],
           job' \in [Ids -> {"success", "failure", "cancelled"}],
           outcome' \in [Ids -> [{"engine", "fixtures", "build", "check"} -> StepOutcomes]],
           disk' \in [Ids -> Evidence],
           ran' \in [Ids -> CliRuns \cup {None}],
           store' \in [Ids -> Evidence \cup {None}]
    PROVE  TypeOK'
  BY DEF TypeOK, collectVars, Cells

(* The next step of a job is a step. *)
LEMMA AdvanceType ==
    ASSUME TypeOK, NEW i \in Ids, Advance(i), step[i] # "over"
    PROVE  /\ step' \in [Ids -> {"checkout", "build", "check", "facts", "upload", "over"}]
           /\ \A k \in Ids \ {i} : step'[k] = step[k]
           /\ step[i] = "checkout" => step'[i] = "build"
           /\ step[i] = "build" => step'[i] = "check"
           /\ step[i] = "check" => step'[i] = "facts"
           /\ step[i] = "facts" => step'[i] = "upload"
           /\ step[i] = "upload" => step'[i] = "over"
<1>1. step' = [step EXCEPT ![i] = Following[step[i]]]
  BY DEF Advance
<1>2. Following[step[i]] \in {"build", "check", "facts", "upload", "over"}
  BY DEF TypeOK, Following
<1> QED
  BY <1>1, <1>2 DEF TypeOK, Following

(* A result of a step of its own. *)
LEMMA BadIsAResult == Bad \subseteq {"failure", "cancelled"}
  BY DEF Bad

(* What the steps of the engine's run leave in the directory is evidence.   *)
LEMMA WritesType ==
    ASSUME TypeOK, NEW i \in Ids, NEW r \in CliRuns, Writes(i, r) \/ WritesInPart(i, r)
    PROVE  disk' \in [Ids -> Evidence] /\ \A k \in Ids \ {i} : disk'[k] = disk[k]
<1> DEFINE e == disk[i]
           all == [files |-> e.files \cup {"report", "stderr", "exit"}, exit |-> r.exit,
                   report |-> r.report, detail |-> r.detail, line |-> r.line,
                   parse |-> r.parse, facts |-> None]
           some == [e EXCEPT !.files = @ \cup {"report", "stderr"}, !.line = r.line, !.parse = r.parse]
<1>1. r \in Runs /\ e \in Evidence
  BY MatrixAssumption DEF TypeOK
<1>2. all \in Evidence
  BY <1>1 DEF Evidence, Runs, Files
<1>3. some \in Evidence
  BY <1>1 DEF Evidence, Runs, Files
<1>4. CASE Writes(i, r)
  <2>1. disk' = [disk EXCEPT ![i] = all]
    BY <1>4 DEF Writes
  <2> HIDE DEF all
  <2> QED
    BY <1>2, <2>1 DEF TypeOK
<1>5. CASE WritesInPart(i, r)
  <2>1. disk' = [disk EXCEPT ![i] = some]
    BY <1>5, <1>1 DEF WritesInPart, TypeOK
  <2> HIDE DEF some
  <2> QED
    BY <1>3, <2>1 DEF TypeOK
<1> QED
  BY <1>4, <1>5

-----------------------------------------------------------------------------
(* The job of a cell                                                        *)

(* What one job does is nothing to another's. *)
LEMMA OtherCells ==
    ASSUME NEW k \in Ids, CellInv(k), UNCHANGED matrix,
           step'[k] = step[k], job'[k] = job[k], outcome'[k] = outcome[k],
           disk'[k] = disk[k], ran'[k] = ran[k], store'[k] = store[k]
    PROVE  CellInv(k)'
  BY DEF CellInv, HoldsTheRun, CreateCellFacts

(* The checkouts. *)
LEMMA CheckoutInv ==
    ASSUME TypeOK, \A k \in Ids : CellInv(k), NEW i \in Ids, Checkout(i)
    PROVE  TypeOK' /\ \A k \in Ids : CellInv(k)'
<1> USE DEF At
<1>1. PICK results :
         /\ Ended(i, results)
         /\ DOMAIN results = {"engine", "fixtures"}
         /\ \A s \in DOMAIN results : results[s] \in StepOutcomes
  <2>1. CASE Ended(i, [engine |-> "success", fixtures |-> "success"])
    BY <2>1 DEF StepOutcomes
  <2>2. ASSUME NEW b \in Bad, \/ Ended(i, [engine |-> b, fixtures |-> "skipped"])
                              \/ Ended(i, [engine |-> "success", fixtures |-> b])
        PROVE  \E results : /\ Ended(i, results)
                            /\ DOMAIN results = {"engine", "fixtures"}
                            /\ \A s \in DOMAIN results : results[s] \in StepOutcomes
    <3>1. b \in StepOutcomes
      BY BadIsAResult DEF StepOutcomes
    <3> QED
      BY <2>2, <3>1 DEF StepOutcomes
  <2>3. CASE Ended(i, [engine |-> "skipped", fixtures |-> "skipped"])
    BY <2>3 DEF StepOutcomes
  <2> QED
    BY <2>1, <2>2, <2>3 DEF Checkout
<1>2. Advance(i) /\ step[i] = "checkout"
      /\ UNCHANGED <<request, registry, faults, prepare, matrix, disk, ran, store, collectVars>>
  BY DEF Checkout
<1>3. TypeOK'
  BY <1>1, <1>2, EndedFacts, AdvanceType, CellTypes DEF TypeOK
<1>4. CellInv(i)'
  <2>1. step'[i] = "build"
    BY <1>2, AdvanceType
  <2>2. job'[i] = "success" => outcome'[i].engine = "success" /\ outcome'[i].fixtures = "success"
    BY <1>1, EndedFacts
  <2> QED
    BY <2>1, <2>2 DEF CellInv
<1>5. ASSUME NEW k \in Ids \ {i} PROVE CellInv(k)'
  BY <1>1, <1>2, EndedFacts, AdvanceType, OtherCells
<1> QED
  BY <1>3, <1>4, <1>5

(* The build of the engine.  Whatever becomes of it, its log is evidence.    *)
LEMMA BuildInv ==
    ASSUME TypeOK, \A k \in Ids : CellInv(k), NEW i \in Ids, Build(i)
    PROVE  TypeOK' /\ \A k \in Ids : CellInv(k)'
<1> USE DEF At
<1>1. Advance(i) /\ step[i] = "build"
      /\ UNCHANGED <<request, registry, faults, prepare, matrix, ran, store, collectVars>>
  BY DEF Build
<1>2. CASE job[i] # "success" /\ UNCHANGED <<job, outcome, disk>>
  <2>1. TypeOK'
    BY <1>1, <1>2, AdvanceType, CellTypes DEF TypeOK
  <2>2. CellInv(i)'
    BY <1>2 DEF CellInv
  <2> QED
    BY <1>1, <1>2, <2>1, <2>2, AdvanceType, OtherCells
<1>3. ASSUME job[i] = "success",
             NEW b \in {"success", "failure", "cancelled", "skipped"}, Ended(i, [build |-> b]),
             \/ disk' = [disk EXCEPT ![i].files = @ \cup {"build"}]
             \/ (b # "success" /\ UNCHANGED disk)
      PROVE  TypeOK' /\ \A k \in Ids : CellInv(k)'
  <2>1. /\ outcome' \in [Ids -> [{"engine", "fixtures", "build", "check"} -> StepOutcomes]]
        /\ job' \in [Ids -> {"success", "failure", "cancelled"}]
        /\ \A k \in Ids \ {i} : outcome'[k] = outcome[k] /\ job'[k] = job[k]
        /\ outcome'[i].engine = outcome[i].engine /\ outcome'[i].fixtures = outcome[i].fixtures
        /\ outcome'[i].build = b
        /\ job'[i] = "success" => job[i] = "success" /\ b = "success"
    BY <1>3, EndedFacts DEF StepOutcomes
  <2>2. /\ disk' \in [Ids -> Evidence]
        /\ \A k \in Ids \ {i} : disk'[k] = disk[k]
        /\ b = "success" => "build" \in disk'[i].files
    <3>1. disk[i] \in Evidence
      BY DEF TypeOK
    <3> DEFINE e == [disk[i] EXCEPT !.files = @ \cup {"build"}]
    <3>2. e \in Evidence /\ "build" \in e.files
      BY <3>1 DEF Evidence, Files
    <3>3. disk' = [disk EXCEPT ![i] = e] \/ (b # "success" /\ UNCHANGED disk)
      BY <1>3
    <3> HIDE DEF e
    <3> QED
      BY <3>2, <3>3 DEF TypeOK
  <2>3. TypeOK'
    BY <1>1, <2>1, <2>2, AdvanceType, CellTypes DEF TypeOK
  <2>4. CellInv(i)'
    BY <1>1, <2>1, <2>2, AdvanceType DEF CellInv
  <2> QED
    BY <1>1, <2>1, <2>2, <2>3, <2>4, AdvanceType, OtherCells
<1> QED
  BY <1>2, <1>3, BadIsAResult DEF Build

(* The engine's run.  If the step succeeded, the directory holds the run.    *)
LEMMA CheckInv ==
    ASSUME TypeOK, \A k \in Ids : CellInv(k), NEW i \in Ids, Check(i)
    PROVE  TypeOK' /\ \A k \in Ids : CellInv(k)'
<1> USE DEF At
<1>1. Advance(i) /\ step[i] = "check"
      /\ UNCHANGED <<request, registry, faults, prepare, matrix, store, collectVars>>
  BY DEF Check
<1>2. step'[i] = "facts" /\ \A k \in Ids \ {i} : step'[k] = step[k]
  BY <1>1, AdvanceType
<1>3. CASE outcome[i].build # "success" /\ UNCHANGED <<job, outcome, disk, ran>>
  <2>1. TypeOK'
    BY <1>1, <1>3, AdvanceType, CellTypes DEF TypeOK
  <2>2. job[i] # "success"
    BY <1>1, <1>3 DEF CellInv
  <2>3. CellInv(i)'
    BY <1>3, <2>2 DEF CellInv
  <2> QED
    BY <1>1, <1>2, <1>3, <2>1, <2>3, OtherCells
<1>4. ASSUME NEW r \in CliRuns, Ended(i, [check |-> "success"]), Writes(i, r),
             ran' = [ran EXCEPT ![i] = r]
      PROVE  TypeOK' /\ \A k \in Ids : CellInv(k)'
  <2>1. /\ outcome' \in [Ids -> [{"engine", "fixtures", "build", "check"} -> StepOutcomes]]
        /\ job' \in [Ids -> {"success", "failure", "cancelled"}]
        /\ \A k \in Ids \ {i} : outcome'[k] = outcome[k] /\ job'[k] = job[k]
        /\ outcome'[i].engine = outcome[i].engine /\ outcome'[i].fixtures = outcome[i].fixtures
        /\ outcome'[i].build = outcome[i].build /\ outcome'[i].check = "success"
        /\ job'[i] = "success" => job[i] = "success"
    BY <1>4, EndedFacts DEF StepOutcomes
  <2>2. /\ ran' \in [Ids -> CliRuns \cup {None}] /\ ran'[i] = r
        /\ \A k \in Ids \ {i} : ran'[k] = ran[k]
    BY <1>4 DEF TypeOK
  <2>3. TypeOK'
    BY <1>1, <1>4, <2>1, <2>2, AdvanceType, WritesType, CellTypes DEF TypeOK
  <2>4. job'[i] = "success" => HoldsTheRun(i)' /\ "build" \in disk'[i].files
    <3>1. disk'[i] = [files |-> disk[i].files \cup {"report", "stderr", "exit"}, exit |-> r.exit,
                      report |-> r.report, detail |-> r.detail, line |-> r.line,
                      parse |-> r.parse, facts |-> None]
      BY <1>4 DEF Writes, TypeOK
    <3>2. job[i] = "success" => "build" \in disk[i].files
      BY <1>1 DEF CellInv
    <3> QED
      BY <2>1, <2>2, <3>1, <3>2 DEF HoldsTheRun, Files
  <2>5. CellInv(i)'
    BY <1>1, <1>2, <2>1, <2>4 DEF CellInv
  <2>6. \A k \in Ids \ {i} : CellInv(k)'
    BY <1>1, <1>2, <1>4, <2>1, <2>2, WritesType, OtherCells
  <2> QED
    BY <2>3, <2>5, <2>6
<1>5. ASSUME NEW b \in {"failure", "cancelled"}, Ended(i, [check |-> b]), UNCHANGED ran,
             disk' \in [Ids -> Evidence], \A k \in Ids \ {i} : disk'[k] = disk[k]
      PROVE  TypeOK' /\ \A k \in Ids : CellInv(k)'
  <2>1. /\ outcome' \in [Ids -> [{"engine", "fixtures", "build", "check"} -> StepOutcomes]]
        /\ job' \in [Ids -> {"success", "failure", "cancelled"}]
        /\ \A k \in Ids \ {i} : outcome'[k] = outcome[k] /\ job'[k] = job[k]
        /\ job'[i] # "success"
    BY <1>5, EndedFacts DEF StepOutcomes
  <2>2. TypeOK'
    BY <1>1, <1>5, <2>1, AdvanceType, CellTypes DEF TypeOK
  <2>3. CellInv(i)'
    BY <2>1 DEF CellInv
  <2> QED
    BY <1>1, <1>2, <1>5, <2>1, <2>2, <2>3, OtherCells
<1>6. ASSUME NEW r \in CliRuns, Ended(i, [check |-> "cancelled"]),
             Writes(i, r) \/ WritesInPart(i, r), UNCHANGED ran
      PROVE  TypeOK' /\ \A k \in Ids : CellInv(k)'
  BY <1>5, <1>6, WritesType
<1>7. CASE /\ Ended(i, [check |-> "failure"])
           /\ disk' = [disk EXCEPT ![i].files = @ \cup {"stderr"}]
           /\ UNCHANGED ran
  <2>1. disk[i] \in Evidence
    BY DEF TypeOK
  <2> DEFINE e == [disk[i] EXCEPT !.files = @ \cup {"stderr"}]
  <2>2. e \in Evidence
    BY <2>1 DEF Evidence, Files
  <2>3. disk' = [disk EXCEPT ![i] = e]
    BY <1>7
  <2> HIDE DEF e
  <2>4. disk' \in [Ids -> Evidence] /\ \A k \in Ids \ {i} : disk'[k] = disk[k]
    BY <2>2, <2>3 DEF TypeOK
  <2> QED
    BY <1>5, <1>7, <2>4
<1> QED
  BY <1>3, <1>4, <1>6, <1>7 DEF Check

(* The facts, written by a script that may be missing or fail.               *)
LEMMA WriteCellFactsInv ==
    ASSUME TypeOK, \A k \in Ids : CellInv(k), NEW i \in Ids, WriteCellFacts(i)
    PROVE  TypeOK' /\ \A k \in Ids : CellInv(k)'
<1> USE DEF At
<1>1. Advance(i) /\ step[i] = "facts" /\ i \in Cells
      /\ UNCHANGED <<request, registry, faults, prepare, matrix, outcome, ran, store, collectVars>>
  BY DEF WriteCellFacts
<1>2. step'[i] = "upload" /\ \A k \in Ids \ {i} : step'[k] = step[k]
  BY <1>1, AdvanceType
<1>3. ASSUME NEW b \in {"failure", "cancelled"}, job' = [job EXCEPT ![i] = b], UNCHANGED disk
      PROVE  TypeOK' /\ \A k \in Ids : CellInv(k)'
  <2>1. TypeOK'
    BY <1>1, <1>3, AdvanceType, CellTypes DEF TypeOK
  <2>2. job'[i] # "success" /\ \A k \in Ids \ {i} : job'[k] = job[k]
    BY <1>3 DEF TypeOK
  <2>3. CellInv(i)'
    BY <2>2 DEF CellInv
  <2> QED
    BY <1>1, <1>2, <1>3, <2>1, <2>2, <2>3, OtherCells
<1>4. CASE disk' = [disk EXCEPT ![i].facts = CreateCellFacts(i)] /\ UNCHANGED job
  <2>1. disk[i] \in Evidence /\ CreateCellFacts(i) \in Facts
    BY <1>1, FactsType DEF TypeOK
  <2> DEFINE e == [disk[i] EXCEPT !.facts = CreateCellFacts(i)]
  <2>2. disk' = [disk EXCEPT ![i] = e]
    BY <1>4
  <2>3. /\ e \in Evidence /\ e.facts = CreateCellFacts(i) /\ e.files = disk[i].files
        /\ e.exit = disk[i].exit /\ e.report = disk[i].report /\ e.detail = disk[i].detail
        /\ e.line = disk[i].line /\ e.parse = disk[i].parse
    BY <2>1 DEF Evidence
  <2> HIDE DEF e
  <2>4. disk' \in [Ids -> Evidence] /\ disk'[i] = e /\ \A k \in Ids \ {i} : disk'[k] = disk[k]
    BY <2>2, <2>3 DEF TypeOK
  <2>5. TypeOK'
    BY <1>1, <1>4, <2>4, AdvanceType, CellTypes DEF TypeOK
  <2>6. CreateCellFacts(i)' = CreateCellFacts(i)
    BY <1>1, <2>3, <2>4 DEF CreateCellFacts, FirstDiagnostic, CliFailureKind
  <2>7. CellInv(i)'
    BY <1>1, <1>2, <1>4, <2>3, <2>4, <2>6 DEF CellInv, HoldsTheRun
  <2> QED
    BY <1>1, <1>2, <1>4, <2>4, <2>5, <2>7, OtherCells
<1> QED
  BY <1>3, <1>4, BadIsAResult DEF WriteCellFacts

(* The upload: a job that is still successful has uploaded all it wrote.     *)
LEMMA UploadInv ==
    ASSUME TypeOK, \A k \in Ids : CellInv(k), NEW i \in Ids, UploadEvidence(i)
    PROVE  TypeOK' /\ \A k \in Ids : CellInv(k)'
<1> USE DEF At
<1>1. Advance(i) /\ step[i] = "upload"
      /\ UNCHANGED <<request, registry, faults, prepare, matrix, outcome, disk, ran, collectVars>>
  BY DEF UploadEvidence
<1>2. step'[i] = "over" /\ \A k \in Ids \ {i} : step'[k] = step[k]
  BY <1>1, AdvanceType
<1>3. CASE store' = [store EXCEPT ![i] = disk[i]] /\ UNCHANGED job
  <2>1. /\ store' \in [Ids -> Evidence \cup {None}] /\ store'[i] = disk[i]
        /\ \A k \in Ids \ {i} : store'[k] = store[k]
    BY <1>3 DEF TypeOK
  <2>2. TypeOK'
    BY <1>1, <1>3, <2>1, AdvanceType, CellTypes DEF TypeOK
  <2>3. CellInv(i)'
    BY <1>1, <1>2, <1>3, <2>1 DEF CellInv, HoldsTheRun, CreateCellFacts
  <2> QED
    BY <1>1, <1>2, <1>3, <2>1, <2>2, <2>3, OtherCells
<1>4. CASE job' = [job EXCEPT ![i] = "failure"] /\ UNCHANGED store
  <2>1. TypeOK'
    BY <1>1, <1>4, AdvanceType, CellTypes DEF TypeOK
  <2>2. job'[i] # "success" /\ \A k \in Ids \ {i} : job'[k] = job[k]
    BY <1>4 DEF TypeOK
  <2>3. CellInv(i)'
    BY <2>2 DEF CellInv
  <2> QED
    BY <1>1, <1>2, <1>4, <2>1, <2>2, <2>3, OtherCells
<1> QED
  BY <1>3, <1>4 DEF UploadEvidence

(* A lost runner ends its job without success. *)
LEMMA LoseRunnerInv ==
    ASSUME TypeOK, \A k \in Ids : CellInv(k), NEW i \in Ids, LoseRunner(i)
    PROVE  TypeOK' /\ \A k \in Ids : CellInv(k)'
<1>1. PICK b \in {"failure", "cancelled"} : job' = [job EXCEPT ![i] = b]
  BY DEF LoseRunner
<1>2. step' = [step EXCEPT ![i] = "over"]
      /\ UNCHANGED <<request, registry, faults, prepare, matrix, outcome, disk, ran, store, collectVars>>
  BY DEF LoseRunner
<1>3. TypeOK'
  BY <1>1, <1>2, CellTypes DEF TypeOK
<1>4. job'[i] # "success" /\ \A k \in Ids \ {i} : job'[k] = job[k] /\ step'[k] = step[k]
  BY <1>1, <1>2 DEF TypeOK
<1>5. CellInv(i)'
  BY <1>4 DEF CellInv
<1> QED
  BY <1>2, <1>3, <1>4, <1>5, OtherCells

-----------------------------------------------------------------------------
(* The prepare job and the collector                                        *)

(* While a cell moves the collector waits, so that no step of a job changes *)
(* what the collector has seen.                                             *)
LEMMA CellStepKeepsCollect ==
    ASSUME IInv, NEW i \in Ids, CellStep(i) \/ LoseRunner(i)
    PROVE  CollectInv' /\ MatrixInv'
<1>1. prepare = "success" /\ i \in Cells /\ step[i] # "over"
      /\ UNCHANGED <<request, prepare, matrix, collectVars>>
  BY DEF CellStep, Checkout, Build, Check, WriteCellFacts, UploadEvidence, LoseRunner, At
<1>2. collect = "waiting" /\ classes = None /\ verdict = "none" /\ \A k \in Ids : got[k] = None
  BY <1>1 DEF IInv, CollectInv, JobsOver, TypeOK
<1>3. CollectInv'
  BY <1>1, <1>2 DEF CollectInv, collectVars
<1>4. request' = request /\ prepare' = "success" /\ matrix' = matrix
  BY <1>1
<1>5. Lists' = Lists /\ Accepted' = Accepted
  BY <1>4 DEF Lists, Accepted
<1>6. Accepted /\ matrix = BuildMatrix(Lists.engines, Lists.packs)
  BY <1>1 DEF IInv, MatrixInv
<1>7. MatrixInv'
  BY <1>4, <1>5, <1>6 DEF MatrixInv
<1> QED
  BY <1>3, <1>7

(* The prepare job decides on the matrix before anything else happens.       *)
LEMMA PrepareInv ==
    ASSUME IInv, Prepare
    PROVE  IInv'
<1> USE DEF cellVars, collectVars
<1>1. collect = "waiting" /\ classes = None /\ verdict = "none" /\ matrix = << >>
      /\ \A k \in Ids : got[k] = None
  BY DEF Prepare, IInv, CollectInv, JobsOver, TypeOK, MatrixInv
<1>2. UNCHANGED <<request, registry, faults, step, job, outcome, disk, ran, store, got, collect,
                  collectJob, classes, hasFailures, verdict>>
  BY DEF Prepare
<1>3. Lists' = Lists /\ Accepted' = Accepted
  BY <1>2 DEF Lists, Accepted
<1>4. \/ prepare' = "success" /\ Accepted /\ matrix' = BuildMatrix(Lists.engines, Lists.packs)
      \/ prepare' \in {"failure", "cancelled"} /\ matrix' = matrix
  BY DEF Prepare
<1>5. matrix' \in Seq(Pairs) /\ Len(matrix') <= MaxCells
  <2>1. Lists.engines \in Seq(Words) /\ Lists.packs \in Seq(Words)
    BY MatrixAssumption DEF IInv, TypeOK, Lists, ReferenceLists
  <2> QED
    BY <1>4, <2>1, MatrixType DEF Accepted, IInv, TypeOK
<1>6. TypeOK'
  BY <1>1, <1>2, <1>4, <1>5 DEF IInv, TypeOK
<1>7. MatrixInv'
  <2>1. \A i \in Ids : step'[i] = "checkout"
    BY <1>2 DEF Prepare, IInv, MatrixInv
  <2> QED
    BY <1>3, <1>4, <2>1, <1>1 DEF MatrixInv
<1>8. ASSUME NEW i \in Ids PROVE CellInv(i)'
  <2>1. step'[i] = "checkout"
    BY <1>2 DEF Prepare, IInv, MatrixInv
  <2> QED
    BY <2>1 DEF CellInv
<1>9. CollectInv'
  BY <1>1, <1>2 DEF CollectInv
<1> QED
  BY <1>6, <1>7, <1>8, <1>9 DEF IInv

(* The collector downloads, once all jobs are over, what they uploaded, what *)
(* is left of it, or nothing.                                               *)
LEMMA DownloadInv ==
    ASSUME IInv, Download
    PROVE  IInv'
<1> USE DEF cellVars, collectVars
<1>1. JobsOver /\ collect = "waiting" /\ collect' = "downloaded"
      /\ UNCHANGED <<request, registry, faults, prepare, matrix, step, job, outcome, disk, ran, store,
                     collectJob, classes, hasFailures, verdict>>
  BY DEF Download, CollectMayStart
<1>2. ASSUME NEW k \in Ids
      PROVE  /\ got'[k] \in Evidence \cup {None}
             /\ got'[k] # None => store[k] # None /\ got'[k].facts \in {None, store[k].facts}
  <2>1. store[k] \in Evidence \cup {None}
    BY DEF IInv, TypeOK
  <2>2. CASE got' = store
    BY <2>1, <2>2
  <2>3. ASSUME NEW i \in Cells, NEW lost \in SUBSET Cells, NEW p \in Parts(store[i]),
               got' = [j \in Ids |-> IF j = i THEN p ELSE IF j \in lost THEN None ELSE store[j]]
        PROVE  /\ got'[k] \in Evidence \cup {None}
               /\ got'[k] # None => store[k] # None /\ got'[k].facts \in {None, store[k].facts}
    <3>1. CASE k = i
      BY <2>1, <2>3, <3>1, PartsType
    <3>2. CASE k # i
      BY <2>1, <2>3, <3>2
    <3> QED
      BY <3>1, <3>2
  <2> QED
    BY <2>2, <2>3 DEF Download
<1>3. got' \in [Ids -> Evidence \cup {None}]
  <2>1. CASE got' = store
    BY <2>1 DEF IInv, TypeOK
  <2>2. CASE \E i \in Cells, lost \in SUBSET Cells : \E p \in Parts(store[i]) :
                got' = [k \in Ids |-> IF k = i THEN p ELSE IF k \in lost THEN None ELSE store[k]]
    <3>1. PICK i \in Cells, lost \in SUBSET Cells : \E p \in Parts(store[i]) :
             got' = [k \in Ids |-> IF k = i THEN p ELSE IF k \in lost THEN None ELSE store[k]]
      BY <2>2
    <3>2. PICK p \in Parts(store[i]) :
             got' = [k \in Ids |-> IF k = i THEN p ELSE IF k \in lost THEN None ELSE store[k]]
      BY <3>1
    <3>3. got' = [k \in Ids |-> got'[k]]
      BY <3>2
    <3> QED
      BY <1>2, <3>3
  <2> QED
    BY <2>1, <2>2 DEF Download
<1>4. TypeOK'
  BY <1>1, <1>3 DEF IInv, TypeOK, Cells
<1>5. MatrixInv'
  BY <1>1 DEF IInv, MatrixInv, Accepted, Lists
<1>6. \A i \in Ids : CellInv(i)'
  BY <1>1, OtherCells DEF IInv
<1>7. CollectInv'
  <2>1. classes = None /\ verdict = "none"
    BY <1>1 DEF IInv, CollectInv
  <2>2. JobsOver'
    BY <1>1 DEF JobsOver, Cells
  <2>3. \A i \in Cells' : i \in Ids
    BY <1>1, CellsAreIds DEF IInv, Cells
  <2>4. \A i \in Cells' : got'[i] # None => store'[i] # None /\ got'[i].facts \in {None, store'[i].facts}
    BY <1>1, <1>2, <2>3
  <2> QED
    BY <1>1, <2>1, <2>2, <2>4 DEF CollectInv
<1> QED
  BY <1>4, <1>5, <1>6, <1>7 DEF IInv

(* The classification says of what was downloaded what collectResults says.  *)
LEMMA ClassifyInv ==
    ASSUME IInv, Classify
    PROVE  IInv'
<1> USE DEF cellVars, collectVars
<1>1. collect = "downloaded" /\ collect' = "classified"
      /\ UNCHANGED <<request, registry, faults, prepare, matrix, step, job, outcome, disk, ran, store,
                     got, verdict>>
  BY DEF Classify
<1>2. JobsOver /\ classes = None /\ verdict = "none"
  BY <1>1 DEF IInv, CollectInv
<1>3. Cells' = Cells /\ JobsOver' /\ (\A i : ClassOf(i)' = ClassOf(i)) /\ Issues' = Issues
  BY <1>1, <1>2 DEF Cells, JobsOver, ClassOf, ValidateCellFacts, ClassifyCell, FailureClass,
     KnownFailure, Expected, Issues, ReadMatrix, MatrixResult
<1>4. \/ /\ classes' = [i \in Cells |-> ClassOf(i)]
         /\ hasFailures' = (Issues \/ \E i \in Cells : ClassOf(i) \in ShouldFailJob)
         /\ UNCHANGED collectJob
      \/ collectJob' = "failure" /\ UNCHANGED <<classes, hasFailures>>
  BY DEF Classify
<1>5. TypeOK'
  <2>1. [i \in Cells |-> ClassOf(i)] \in [Cells -> Classes]
    BY ClassType
  <2>2. classes' = None \/ (classes' \in [Cells' -> Classes])
    BY <1>2, <1>3, <1>4, <2>1
  <2>3. hasFailures' \in BOOLEAN /\ collectJob' \in {"success", "failure"}
    BY <1>4 DEF IInv, TypeOK
  <2> QED
    BY <1>1, <2>2, <2>3 DEF IInv, TypeOK
<1>6. MatrixInv'
  BY <1>1 DEF IInv, MatrixInv, Accepted, Lists
<1>7. \A i \in Ids : CellInv(i)'
  BY <1>1, OtherCells DEF IInv
<1>8. CollectInv'
  BY <1>1, <1>2, <1>3, <1>4 DEF IInv, CollectInv
<1> QED
  BY <1>5, <1>6, <1>7, <1>8 DEF IInv

(* What comes after the classification adds at most a failure of the job,    *)
(* and the conclusion takes it into account.                                *)
LEMMA ConcludeInv ==
    ASSUME IInv, Publish \/ Conclude \/ LoseCollector
    PROVE  IInv'
<1> USE DEF cellVars, collectVars
<1>1. UNCHANGED <<request, registry, faults, prepare, matrix, step, job, outcome, disk, ran, store,
                  got, classes, hasFailures>>
  BY DEF Publish, Conclude, LoseCollector
<1>2. Cells' = Cells /\ JobsOver' = JobsOver /\ (\A i : ClassOf(i)' = ClassOf(i)) /\ Issues' = Issues
  BY <1>1 DEF Cells, JobsOver, ClassOf, ValidateCellFacts, ClassifyCell, FailureClass,
     KnownFailure, Expected, Issues, ReadMatrix, MatrixResult
<1>3. TypeOK'
  <2>1. /\ collect' \in {"published", "over"} /\ collectJob' \in {"success", "failure"}
        /\ verdict' \in {"none", "green", "red"}
    BY DEF Publish, Conclude, LoseCollector, IInv, TypeOK
  <2> QED
    BY <1>1, <2>1 DEF IInv, TypeOK, Cells
<1>4. MatrixInv'
  BY <1>1 DEF IInv, MatrixInv, Accepted, Lists
<1>5. \A i \in Ids : CellInv(i)'
  BY <1>1, OtherCells DEF IInv
<1>6. /\ JobsOver
      /\ \A i \in Cells : got[i] # None => store[i] # None /\ got[i].facts \in {None, store[i].facts}
  BY CellsAreIds DEF Publish, Conclude, LoseCollector, CollectMayStart, IInv, CollectInv
<1>7. CollectInv'
  <2>1. CASE Publish
    BY <1>1, <1>2, <1>6, <2>1 DEF Publish, IInv, CollectInv
  <2>2. CASE Conclude
    BY <1>1, <1>2, <1>6, <2>2 DEF Conclude, IInv, CollectInv
  <2>3. CASE LoseCollector
    BY <1>1, <1>2, <1>6, <2>3 DEF LoseCollector, IInv, CollectInv
  <2> QED
    BY <2>1, <2>2, <2>3
<1> QED
  BY <1>3, <1>4, <1>5, <1>7 DEF IInv

(* Every action preserves the invariant. *)
LEMMA StepIInv == IInv /\ [Next]_vars => IInv'
<1> SUFFICES ASSUME IInv, [Next]_vars PROVE IInv'
  OBVIOUS
<1>1. CASE Prepare
  BY <1>1, PrepareInv
<1>2. ASSUME NEW i \in Ids, CellStep(i) \/ LoseRunner(i) PROVE IInv'
  <2>1. TypeOK /\ \A k \in Ids : CellInv(k)
    BY DEF IInv
  <2>2. TypeOK' /\ \A k \in Ids : CellInv(k)'
    BY <1>2, <2>1, CheckoutInv, BuildInv, CheckInv, WriteCellFactsInv, UploadInv, LoseRunnerInv
       DEF CellStep
  <2> QED
    BY <1>2, <2>2, CellStepKeepsCollect DEF IInv
<1>3. CASE CollectStep
  BY <1>3, DownloadInv, ClassifyInv, ConcludeInv DEF CollectStep
<1>4. CASE UNCHANGED vars
  <2> USE <1>4 DEF vars, cellVars, collectVars
  <2>1. TypeOK'
    BY DEF IInv, TypeOK, Cells
  <2>2. MatrixInv'
    BY DEF IInv, MatrixInv, Accepted, Lists
  <2>3. \A i \in Ids : CellInv(i)'
    BY OtherCells DEF IInv
  <2>4. Cells' = Cells /\ JobsOver' = JobsOver /\ (\A i : ClassOf(i)' = ClassOf(i)) /\ Issues' = Issues
    BY DEF Cells, JobsOver, ClassOf, ValidateCellFacts, ClassifyCell, FailureClass,
       KnownFailure, Expected, Issues, ReadMatrix, MatrixResult
  <2>5. CollectInv'
    BY <2>4 DEF IInv, CollectInv
  <2> QED
    BY <2>1, <2>2, <2>3, <2>5 DEF IInv
<1> QED
  BY <1>1, <1>2, <1>3, <1>4 DEF Next

(* Before the prepare job nothing has been seen and nothing decided.         *)
LEMMA InitIInv == Init => IInv
<1> SUFFICES ASSUME Init PROVE IInv
  OBVIOUS
<1>1. NoEvidence \in Evidence
  BY DEF NoEvidence, Evidence
<1>2. TypeOK
  <2>1. matrix \in Seq(Pairs) /\ Len(matrix) <= MaxCells
    BY MatrixAssumption DEF Init
  <2>2. outcome \in [Ids -> [{"engine", "fixtures", "build", "check"} -> StepOutcomes]]
    BY DEF Init, StepOutcomes
  <2>3. disk \in [Ids -> Evidence] /\ ran \in [Ids -> CliRuns \cup {None}]
        /\ store \in [Ids -> Evidence \cup {None}] /\ got \in [Ids -> Evidence \cup {None}]
    BY <1>1 DEF Init
  <2> QED
    BY <2>1, <2>2, <2>3 DEF Init, TypeOK
<1>3. MatrixInv
  BY DEF Init, MatrixInv
<1>4. \A i \in Ids : CellInv(i)
  BY DEF Init, CellInv
<1>5. CollectInv
  BY DEF Init, CollectInv
<1> QED
  BY <1>2, <1>3, <1>4, <1>5 DEF IInv

(* The invariant the properties below rest on. *)
THEOREM Invariance == Spec => []IInv
<1> QED
  BY InitIInv, StepIInv, PTL DEF Spec

(* Every variable of the matrix keeps its type, and the matrix its bound.    *)
THEOREM TypeCorrect == Spec => []TypeOK
<1>1. IInv => TypeOK
  BY DEF IInv
<1> QED
  BY <1>1, Invariance, PTL

-----------------------------------------------------------------------------
(* From the engine to its class                                             *)

(* A report that parses and does not pass has a failing result to quote:    *)
(* its status is that of its counts, and these are those of its results.    *)
LEMMA NotPassedHasResult ==
    ASSUME NEW r \in CliReports, ParseCliReport(r), r.status # "pass"
    PROVE  \E k \in DOMAIN r.results : r.results[k] # "pass"
<1>1. r.status = StatusFromCounts(r.counts)
  BY DEF ParseCliReport
<1>2. PICK s \in {"error", "fail", "warning"} : r.counts[s] > 0
  BY <1>1 DEF StatusFromCounts
<1>3. Occurrences(s, r.results) = r.counts[s]
  BY DEF ParseCliReport, CheckStatuses
<1>4. {k \in DOMAIN r.results : r.results[k] = s} # {}
  <2>1. SUFFICES ASSUME {k \in DOMAIN r.results : r.results[k] = s} = {} PROVE FALSE
    OBVIOUS
  <2>2. Occurrences(s, r.results) = Cardinality({})
    BY <2>1 DEF Occurrences
  <2>3. Cardinality({}) = 0
    BY FS_EmptySet
  <2> QED
    BY <1>2, <1>3, <2>2, <2>3
<1> QED
  BY <1>4

(* The facts of a cell whose steps all succeeded tell how its engine ended.  *)
LEMMA FactsOfSuccess ==
    ASSUME TypeOK, NEW i \in Cells, HoldsTheRun(i),
           \A s \in {"engine", "fixtures", "build", "check"} : outcome[i][s] = "success"
    PROVE  LET f == CreateCellFacts(i)
               r == ran[i]
           IN /\ f.pair = matrix[i] /\ f.files = disk[i].files
              /\ f.engine = "success" /\ f.fixtures = "success" /\ f.build = "success"
              /\ f.check = IF r.exit = "killed" THEN "timeout" ELSE "completed"
              /\ f.exit = r.exit
              /\ f.status = IF ParseCliReport(r.report) THEN r.report.status ELSE None
              /\ ParseCliReport(r.report) => f.total = r.report.total
              /\ f.kind = CliFailureKind(disk[i])
              /\ f.kind = IF ~ParseCliReport(r.report) /\ r.exit # "zero" /\ r.parse
                          THEN "fixture-parse" ELSE None
              /\ ~ParseCliReport(r.report) => f.diagnostic = r.line
              /\ ParseCliReport(r.report) /\ r.report.status # "pass" => f.diagnostic = r.detail
<1>1. i \in Ids
  BY CellsAreIds
<1> DEFINE e == disk[i]
           r == ran[i]
           f == CreateCellFacts(i)
<1>2. r \in Runs /\ r.exit \in Exits /\ r.exit # None
  BY MatrixAssumption, NoneAssumption DEF HoldsTheRun, Runs
<1>3. e.exit = r.exit /\ e.report = r.report /\ e.detail = r.detail /\ e.line = r.line
      /\ e.parse = r.parse
  BY DEF HoldsTheRun
<1>4. f.check = IF r.exit = "killed" THEN "timeout" ELSE "completed"
  BY <1>2, <1>3 DEF CreateCellFacts, CheckOutcome
<1>5. f.kind = CliFailureKind(e)
      /\ CliFailureKind(e) = IF ~ParseCliReport(r.report) /\ r.exit # "zero" /\ r.parse
                             THEN "fixture-parse" ELSE None
  BY <1>2, <1>3 DEF CreateCellFacts, CliFailureKind
<1>6. f.diagnostic = FirstDiagnostic(e)
  BY DEF CreateCellFacts
<1>7. ASSUME ParseCliReport(r.report), r.report.status # "pass" PROVE f.diagnostic = r.detail
  <2>1. r.report \in CliReports
    BY <1>2, <1>7 DEF Runs, ParseCliReport
  <2> QED
    BY <1>3, <1>6, <1>7, <2>1, NotPassedHasResult DEF FirstDiagnostic
<1>8. ~ParseCliReport(r.report) => f.diagnostic = r.line
  BY <1>3, <1>6 DEF FirstDiagnostic
<1>9. /\ f.pair = matrix[i] /\ f.files = e.files /\ f.exit = e.exit
      /\ f.engine = "success" /\ f.fixtures = "success" /\ f.build = "success"
      /\ f.status = IF ParseCliReport(e.report) THEN e.report.status ELSE None
      /\ ParseCliReport(e.report) => f.total = e.report.total
  BY DEF CreateCellFacts
<1> HIDE DEF f, e, r
<1>10. f.exit = r.exit
  BY <1>3, <1>9
<1> QED
  BY <1>3, <1>4, <1>5, <1>7, <1>8, <1>9, <1>10 DEF f, e, r

(* Of such facts, classifyCell fails the job exactly if the engine did not  *)
(* do what the registry says of it.                                         *)
LEMMA FactsDecide ==
    ASSUME TypeOK, NEW i \in Cells, HoldsTheRun(i), registry # None,
           \A s \in {"engine", "fixtures", "build", "check"} : outcome[i][s] = "success"
    PROVE  ClassifyCell(CreateCellFacts(i)) \notin ShouldFailJob <=> AsRegistered(i)
<1> DEFINE r == ran[i]
           f == CreateCellFacts(i)
           usable == ParseCliReport(r.report)
<1>1. r \in Runs /\ r # None /\ r.exit \in Exits
  BY MatrixAssumption, NoneAssumption DEF HoldsTheRun, Runs
<1>2. /\ f.pair = matrix[i]
      /\ f.engine = "success" /\ f.fixtures = "success" /\ f.build = "success"
      /\ f.check = IF r.exit = "killed" THEN "timeout" ELSE "completed"
      /\ f.exit = r.exit
      /\ f.status = IF usable THEN r.report.status ELSE None
      /\ usable => f.total = r.report.total
      /\ f.kind = IF ~usable /\ r.exit # "zero" /\ r.parse THEN "fixture-parse" ELSE None
      /\ ~usable => f.diagnostic = r.line
      /\ usable /\ r.report.status # "pass" => f.diagnostic = r.detail
  BY FactsOfSuccess
<1>3. usable => r.report.status \in CheckStatuses /\ r.report.status # None
  BY <1>1, NoneAssumption DEF Runs, CliReports, ParseCliReport
<1>4. Interrupted(f) <=> r.exit = "killed"
  BY <1>2 DEF Interrupted
<1>5. AsRegistered(i) <=>
         /\ r.exit # "killed"
         /\ \/ /\ usable
               /\ \/ r.report.total = 0
                  \/ r.report.status = "pass" /\ ~\E x \in registry : x.pair = matrix[i]
                  \/ r.report.status # "pass" /\ RegisteredAs(i, r.report.status, r.detail)
            \/ /\ ~usable /\ r.exit = "nonzero" /\ r.parse
               /\ RegisteredAs(i, "execution-failed", r.line)
  BY <1>1 DEF AsRegistered
<1>6. None # "fixture-parse"
  BY NoneAssumption
<1> HIDE DEF r, f, usable
<1>7. \A status, diagnostic : f.diagnostic = diagnostic =>
         (FailureClass(f, status) \notin ShouldFailJob <=> RegisteredAs(i, status, diagnostic))
  BY <1>2 DEF FailureClass, KnownFailure, Expected, ShouldFailJob, RegisteredAs
<1>8. CASE r.exit = "killed"
  <2>1. ClassifyCell(f) = "infrastructure"
    BY <1>4, <1>8 DEF ClassifyCell
  <2> QED
    BY <1>5, <1>8, <2>1 DEF f, ShouldFailJob
<1>9. CASE r.exit # "killed" /\ ~usable /\ r.exit # "zero" /\ r.parse
  <2>1. ClassifyCell(f) = FailureClass(f, "execution-failed")
    BY <1>2, <1>4, <1>9 DEF ClassifyCell
  <2>2. r.exit = "nonzero" /\ f.diagnostic = r.line
    BY <1>1, <1>2, <1>9 DEF Exits
  <2> QED
    BY <1>5, <1>7, <1>9, <2>1, <2>2 DEF f
<1>10. CASE r.exit # "killed" /\ ~usable /\ ~(r.exit # "zero" /\ r.parse)
  <2>1. ClassifyCell(f) = "infrastructure"
    BY <1>2, <1>4, <1>6, <1>10 DEF ClassifyCell
  <2> QED
    BY <1>5, <1>10, <2>1 DEF f, ShouldFailJob
<1>11. CASE r.exit # "killed" /\ usable
  <2>1. ~Interrupted(f) /\ f.kind # "fixture-parse" /\ f.status # None /\ f.check = "completed"
    BY <1>2, <1>3, <1>4, <1>6, <1>11
  <2>2. f.status = r.report.status /\ f.total = r.report.total
    BY <1>2, <1>11
  <2>3. CASE f.total = 0
    <3>1. ClassifyCell(f) = "skipped"
      BY <2>1, <2>3 DEF ClassifyCell
    <3> QED
      BY <1>5, <1>11, <2>2, <2>3, <3>1 DEF f, ShouldFailJob
  <2>4. CASE f.total # 0 /\ f.status = "pass"
    <3>1. ClassifyCell(f) = IF \E x \in registry : x.pair = f.pair
                            THEN "unexpected-pass" ELSE "supported"
      BY <2>1, <2>4 DEF ClassifyCell, Expected
    <3> QED
      BY <1>2, <1>5, <1>11, <2>2, <2>4, <3>1 DEF f, ShouldFailJob
  <2>5. CASE f.total # 0 /\ f.status # "pass"
    <3>1. ClassifyCell(f) = FailureClass(f, f.status)
      BY <2>1, <2>5 DEF ClassifyCell
    <3>2. f.diagnostic = r.detail
      BY <1>2, <1>11, <2>2, <2>5
    <3> QED
      BY <1>5, <1>7, <1>11, <2>2, <2>5, <3>1, <3>2 DEF f
  <2> QED
    BY <2>3, <2>4, <2>5
<1> QED
  BY <1>8, <1>9, <1>10, <1>11

-----------------------------------------------------------------------------
(* What the collector concludes                                             *)

(* A cell whose job ended successfully has uploaded what its engine did.     *)
LEMMA CellOfSuccess ==
    ASSUME IInv, collect # "waiting", NEW i \in Cells, job[i] = "success"
    PROVE  /\ i \in Ids /\ HoldsTheRun(i)
           /\ \A s \in {"engine", "fixtures", "build", "check"} : outcome[i][s] = "success"
           /\ disk[i].facts = CreateCellFacts(i) /\ store[i] = disk[i]
<1>1. i \in Ids /\ step[i] = "over"
  BY CellsAreIds DEF IInv, CollectInv, JobsOver
<1>2. CellInv(i)
  BY <1>1 DEF IInv
<1> QED
  BY <1>1, <1>2 DEF CellInv

(* The prepared matrix is one that the collector accepts.                   *)
LEMMA PreparedIsRead ==
    ASSUME IInv, prepare = "success"
    PROVE  ReadMatrix
<1>1. /\ Lists.engines \in Seq(Words) /\ Lists.packs \in Seq(Words)
      /\ ParseReferenceList(Lists.engines) /\ ParseReferenceList(Lists.packs)
      /\ matrix = BuildMatrix(Lists.engines, Lists.packs)
  BY MatrixAssumption DEF IInv, MatrixInv, Accepted, TypeOK, Lists, ReferenceLists
<1>2. Len(matrix) > 0 /\ matrix \in Seq(Pairs)
  BY <1>1, MatrixType
<1>3. matrix # << >>
  BY <1>2
<1>4. \A i, j \in Cells : matrix[i] = matrix[j] => i = j
  BY <1>1, MatrixIsDistinct DEF Cells
<1> QED
  BY <1>3, <1>4 DEF ReadMatrix

(* A green collector implies the cells of GreenIsEarned.                    *)
LEMMA GreenFollows == IInv => GreenIsEarned
<1> SUFFICES ASSUME IInv, verdict = "green" PROVE
      /\ prepare = "success" /\ registry # None /\ Cells # {}
      /\ \A i \in Cells : job[i] = "success" /\ AsRegistered(i)
  BY DEF GreenIsEarned
<1>1. ~hasFailures /\ collect = "over" /\ collectJob = "success"
  <2>1. collect = "over" /\ collectJob # "failure" /\ ~hasFailures
    BY DEF IInv, CollectInv
  <2> QED
    BY <2>1 DEF IInv, TypeOK
<1>2. ~Issues /\ \A i \in Cells : ClassOf(i) \notin ShouldFailJob
  BY <1>1 DEF IInv, CollectInv
<1>3. prepare = "success" /\ registry # None /\ matrix # << >> /\ MatrixResult = "success"
  BY <1>2 DEF Issues, ReadMatrix
<1>4. Cells # {}
  <2>1. matrix \in Seq(Pairs)
    BY DEF IInv, TypeOK
  <2>2. Len(matrix) \in Nat /\ Len(matrix) # 0 /\ DOMAIN matrix = 1..Len(matrix)
    BY <1>3, <2>1
  <2>3. 1 \in Cells
    BY <2>2 DEF Cells
  <2> QED
    BY <2>3
<1>5. ASSUME NEW i \in Cells PROVE job[i] = "success"
  <2>1. job[i] # "failure" /\ job[i] # "cancelled"
    BY <1>3 DEF MatrixResult
  <2> QED
    BY <2>1, CellsAreIds DEF IInv, TypeOK
<1>6. ASSUME NEW i \in Cells PROVE AsRegistered(i)
  <2>1. /\ i \in Ids /\ HoldsTheRun(i)
        /\ \A s \in {"engine", "fixtures", "build", "check"} : outcome[i][s] = "success"
        /\ disk[i].facts = CreateCellFacts(i) /\ store[i] = disk[i]
    BY <1>1, <1>5, CellOfSuccess
  <2>2. got[i] # None /\ got[i].facts # None /\ ClassOf(i) = ClassifyCell(got[i].facts)
    BY <1>2 DEF ClassOf, ShouldFailJob
  <2>3. got[i].facts = CreateCellFacts(i)
    BY <1>1, <2>1, <2>2 DEF IInv, CollectInv
  <2>4. ClassifyCell(CreateCellFacts(i)) \notin ShouldFailJob
    BY <1>2, <2>2, <2>3
  <2> QED
    BY <1>3, <2>1, <2>4, FactsDecide DEF IInv
<1> QED
  BY <1>3, <1>4, <1>5, <1>6

(* The collector is green only if every cell of the prepared matrix ran its  *)
(* engine to the end and it did what the registry says of it, whatever was   *)
(* lost on the way (collectResults and the last step of the collect job).   *)
THEOREM GreenIsEarnedHolds == Spec => []GreenIsEarned
  BY GreenFollows, Invariance, PTL

(* Facts that arrive as they were written pass validateCellFacts.           *)
LEMMA ArrivedIsValid ==
    ASSUME IInv, collect # "waiting", NEW i \in Cells, job[i] = "success", got[i] = store[i]
    PROVE  ClassOf(i) = ClassifyCell(CreateCellFacts(i))
<1> DEFINE f == CreateCellFacts(i)
<1>1. /\ i \in Ids /\ HoldsTheRun(i)
      /\ \A s \in {"engine", "fixtures", "build", "check"} : outcome[i][s] = "success"
      /\ disk[i].facts = f /\ got[i] = disk[i]
  BY CellOfSuccess
<1>2. got[i] # None /\ got[i].facts = f /\ f # None
  <2>1. f \in Facts /\ disk[i] \in Evidence
    BY <1>1, FactsType DEF IInv, TypeOK
  <2> QED
    BY <1>1, <2>1, NoneAssumption
<1>3. /\ f.pair = matrix[i] /\ f.files = disk[i].files
      /\ f.check = IF ran[i].exit = "killed" THEN "timeout" ELSE "completed"
      /\ f.exit = ran[i].exit /\ f.kind = CliFailureKind(disk[i])
  BY <1>1, FactsOfSuccess DEF IInv
<1>4. ran[i].exit # None
  BY <1>1, MatrixAssumption, NoneAssumption DEF HoldsTheRun, Runs
<1>5. RequiredFiles(f) \subseteq disk[i].files
  BY <1>1 DEF RequiredFiles, HoldsTheRun, Files
<1> HIDE DEF f
<1>6. ValidateCellFacts(got[i].facts, got[i], matrix[i])
  BY <1>1, <1>2, <1>3, <1>4, <1>5 DEF ValidateCellFacts
<1> QED
  BY <1>2, <1>6 DEF ClassOf, f

(* Where every job succeeded and every artifact arrived, nothing but the    *)
(* engines decides.                                                         *)
LEMMA RedFollows == IInv => RedIsWarranted
<1> SUFFICES ASSUME IInv, verdict = "red", collectJob = "success", prepare = "success", registry # None,
                    got = store, \A i \in Cells : job[i] = "success",
                    \A i \in Cells : AsRegistered(i)
             PROVE  FALSE
  BY DEF RedIsWarranted
<1>1. collect = "over" /\ hasFailures
  BY DEF IInv, CollectInv
<1>2. ~Issues
  <2>1. MatrixResult = "success"
    BY DEF MatrixResult
  <2> QED
    BY <2>1, PreparedIsRead DEF Issues
<1>3. PICK i \in Cells : ClassOf(i) \in ShouldFailJob
  BY <1>1, <1>2 DEF IInv, CollectInv
<1>4. ClassOf(i) = ClassifyCell(CreateCellFacts(i))
  BY <1>1, ArrivedIsValid
<1>5. /\ HoldsTheRun(i)
      /\ \A s \in {"engine", "fixtures", "build", "check"} : outcome[i][s] = "success"
  BY <1>1, CellOfSuccess
<1> QED
  BY <1>3, <1>4, <1>5, FactsDecide DEF IInv

(* A red collector has a reason that is not of its own making: the facts    *)
(* that createCellFacts writes pass validateCellFacts and lose nothing that *)
(* classifyCell asks for.                                                   *)
THEOREM RedIsWarrantedHolds == Spec => []RedIsWarranted
  BY RedFollows, Invariance, PTL

-----------------------------------------------------------------------------
(* The gate                                                                 *)

(* What has become of a cell that is over depends on its job alone.          *)
LEMMA SameResult ==
    ASSUME NEW i, UNCHANGED <<registry, matrix>>, step'[i] = step[i],
           step[i] = "over" => job'[i] = job[i] /\ ran'[i] = ran[i]
    PROVE  ResultOf(i)' = ResultOf(i)
<1>1. CASE step[i] # "over"
  BY <1>1 DEF ResultOf
<1>2. CASE step[i] = "over"
  BY <1>2 DEF ResultOf, AsRegistered, RegisteredAs
<1> QED
  BY <1>1, <1>2

(* A step of one job ends its cell or changes nothing that the gate shows.   *)
LEMMA CellStepAtGate ==
    ASSUME IInv, NEW i \in Ids, CellStep(i) \/ LoseRunner(i)
    PROVE  [Gate!Next]_(Gate!vars)
<1> DEFINE res == [k \in Cells |-> ResultOf(k)]
<1>1. i \in Cells /\ prepare = "success" /\ step[i] # "over"
  BY DEF CellStep, LoseRunner, Checkout, Build, Check, WriteCellFacts, UploadEvidence, At
<1>2. UNCHANGED <<registry, prepare, matrix, verdict>>
  BY DEF CellStep, LoseRunner, Checkout, Build, Check, WriteCellFacts, UploadEvidence, collectVars
<1>3. \A k \in Ids \ {i} : step'[k] = step[k] /\ job'[k] = job[k] /\ ran'[k] = ran[k]
  BY DEF CellStep, LoseRunner, Checkout, Build, Check, WriteCellFacts, UploadEvidence, Advance, Ended,
     IInv, TypeOK
<1>4. \A k \in Cells \ {i} : ResultOf(k)' = ResultOf(k)
  BY <1>2, <1>3, CellsAreIds, SameResult DEF IInv
<1>5. Cells' = Cells
  BY <1>2 DEF Cells
<1>6. res' = [res EXCEPT ![i] = ResultOf(i)']
  BY <1>1, <1>4, <1>5
<1>7. res[i] = "running"
  BY <1>1 DEF ResultOf
<1>8. ResultOf(i)' \in {"running", "earned", "failed"}
  BY DEF ResultOf
<1>9. DOMAIN res = Cells
  OBVIOUS
<1>10. CASE ResultOf(i)' = "running"
  <2>1. res' = res
    BY <1>6, <1>7, <1>10, <1>9
  <2> QED
    BY <1>2, <2>1 DEF Gate!vars
<1>11. CASE ResultOf(i)' \in {"earned", "failed"}
  <2>1. Gate!EndCell(i)
    BY <1>2, <1>6, <1>7, <1>11 DEF Gate!EndCell
  <2> QED
    BY <1>1, <2>1 DEF Gate!Next, Gate!Cells
<1> QED
  BY <1>8, <1>10, <1>11

(* The conclusion is a judgement: every cell is over, and for a green one    *)
(* GreenIsEarned holds after it.  The loss of the collector is a red one.    *)
LEMMA ConcludeAtGate ==
    ASSUME IInv, IInv', Conclude \/ LoseCollector
    PROVE  Gate!Judge
<1>1. UNCHANGED <<prepare, registry, matrix, step, job, ran>> /\ verdict = "none"
      /\ verdict' \in {"red", "green"}
  BY DEF Conclude, LoseCollector, cellVars, IInv, CollectInv
<1>2. JobsOver
  BY DEF Conclude, LoseCollector, CollectMayStart, IInv, CollectInv
<1>3. \A i \in Cells : ResultOf(i) # "running"
  BY <1>2 DEF JobsOver, ResultOf
<1>4. ASSUME verdict' = "green"
      PROVE  Cells # {} /\ \A i \in Cells : ResultOf(i) = "earned"
  <2>1. GreenIsEarned'
    BY GreenFollows, PTL
  <2>2. registry # None /\ Cells # {} /\ \A i \in Cells : job[i] = "success" /\ AsRegistered(i)
    BY <1>1, <1>4, <2>1 DEF GreenIsEarned, Cells, AsRegistered, RegisteredAs
  <2> QED
    BY <1>2, <2>2 DEF JobsOver, ResultOf
<1>5. UNCHANGED [i \in Cells |-> ResultOf(i)]
  BY <1>1 DEF Cells, ResultOf, AsRegistered, RegisteredAs
<1> QED
  BY <1>1, <1>2, <1>3, <1>4, <1>5 DEF Gate!Judge, Gate!Cells, JobsOver

(* CompatMatrix implements MatrixGate: every step of the jobs plans, ends a *)
(* cell, judges, or leaves the promise alone.                               *)
THEOREM GateRefinement == Spec => KeepsGatePromise
<1>1. Init => Gate!Init
  BY DEF Init, Gate!Init, Gate!Cells, Cells
<1>2. IInv /\ IInv' /\ [Next]_vars => [Gate!Next]_(Gate!vars)
  <2> SUFFICES ASSUME IInv, IInv', [Next]_vars PROVE [Gate!Next]_(Gate!vars)
    OBVIOUS
  <2>1. CASE Prepare
    <3>1. prepare = "pending" /\ prepare' # "pending" /\ UNCHANGED <<step, verdict>>
      BY <2>1 DEF Prepare, cellVars, collectVars
    <3>2. \A i \in Cells' : step'[i] = "checkout"
      <4>1. Cells' \subseteq Ids
        BY MatrixAssumption DEF IInv, TypeOK, Cells, Ids
      <4> QED
        BY <3>1, <4>1 DEF IInv, MatrixInv
    <3>3. [i \in Cells |-> ResultOf(i)]' = [i \in Cells' |-> "running"]
      BY <3>2 DEF ResultOf
    <3> QED
      BY <3>1, <3>3 DEF Gate!Plan, Gate!Next, Gate!Cells
  <2>2. ASSUME NEW i \in Ids, CellStep(i) \/ LoseRunner(i) PROVE [Gate!Next]_(Gate!vars)
    BY <2>2, CellStepAtGate
  <2>3. CASE Download \/ Classify \/ Publish \/ UNCHANGED vars
    <3>1. UNCHANGED <<prepare, registry, matrix, step, job, ran, verdict>>
      BY <2>3 DEF Download, Classify, Publish, vars, cellVars, collectVars
    <3>2. UNCHANGED [i \in Cells |-> ResultOf(i)]
      BY <3>1 DEF Cells, ResultOf, AsRegistered, RegisteredAs
    <3> QED
      BY <3>1, <3>2 DEF Gate!vars
  <2>4. CASE Conclude \/ LoseCollector
    BY <2>4, ConcludeAtGate DEF Gate!Next
  <2> QED
    BY <2>1, <2>2, <2>3, <2>4 DEF Next, CollectStep
<1>3. IInv /\ [Next]_vars => IInv'
  BY StepIInv
<1> QED
  BY <1>1, <1>2, <1>3, Invariance, PTL DEF Spec, KeepsGatePromise, Gate!Spec
==============================================================================

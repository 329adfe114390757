---------------------------- MODULE CompatMatrix -----------------------------
(***************************************************************************)
(* The offline compatibility matrix: scripts/compat-matrix-inputs.mjs      *)
(* prepares the cells, each a pair of references, as                       *)
(* .github/workflows/compat-matrix.yml runs them: a job per cell builds an *)
(* engine, runs it and uploads what it saw (createCellFacts), and one job  *)
(* collects and classifies (collectResults, classifyCell).  The jobs run   *)
(* at once; a step may fail, be cancelled, or its runner may be lost.      *)
(***************************************************************************)
EXTENDS Naturals, Sequences, FiniteSets

CONSTANTS
    Words,         \* what stands between the commas of a list of references
    Refs,          \* those of them that are well-formed Git references
    Requests,      \* the events considered: name and the two comma-separated lists
    Defaults,      \* DEFAULT_ENGINE_REFS and DEFAULT_PACK_REFS
    MaxCells,      \* MAX_MATRIX_CELLS
    Signatures,    \* failure signatures a diagnostic may contain
    Registries,    \* contents of docs/compat-expectations.json
    CliRuns,       \* how the engine may end (see Runs)
    Worlds,        \* the sets of faults considered
    None

CheckStatuses == {"pass", "warning", "fail", "error"}
Pairs == Refs \X Refs
Ids == 1..MaxCells

(* exit "killed" stands for 124, 137 and 143; detail and line are the       *)
(* signatures in the first failing result and in stderr, parse that stderr  *)
(* matches FIXTURE_PARSE_DIAGNOSTIC                                         *)
Exits == {"zero", "nonzero", "killed"}
CliReports == [status : CheckStatuses, total : Nat, counts : [CheckStatuses -> Nat],
               results : Seq(CheckStatuses)]
Runs == [exit : Exits, report : CliReports \cup {None}, detail : SUBSET Signatures,
         line : SUBSET Signatures, parse : BOOLEAN]
Expectations == [pair : Pairs, status : {"fail", "error", "execution-failed"}, signature : Signatures]
FaultKinds == {"step", "runner", "upload", "download", "collect"}

(* cell-facts.json, and the directory that a cell uploads with it *)
StepOutcomes == {"skipped", "success", "failure", "cancelled"}
Files == {"build", "report", "stderr", "exit"}
Facts == [pair : Pairs, engine : StepOutcomes, fixtures : StepOutcomes, build : StepOutcomes,
          check : StepOutcomes \cup {"completed", "timeout"}, exit : Exits \cup {None},
          status : CheckStatuses \cup {None}, total : Nat \cup {None},
          kind : {"fixture-parse", None}, diagnostic : SUBSET Signatures, files : SUBSET Files]
Evidence == [files : SUBSET Files, exit : Exits \cup {None}, report : CliReports \cup {None},
             detail : SUBSET Signatures, line : SUBSET Signatures, parse : BOOLEAN,
             facts : Facts \cup {None}]
ReferenceLists == [engines : Seq(Words), packs : Seq(Words)]

ASSUME MatrixAssumption ==
    /\ MaxCells \in Nat
    /\ Refs \subseteq Words
    /\ Defaults \in ReferenceLists
    /\ Requests \subseteq [event : {"schedule", "workflow_dispatch"}, engines : Seq(Words),
                           packs : Seq(Words)]
    /\ CliRuns \subseteq Runs
    /\ Worlds \subseteq SUBSET FaultKinds
    /\ \A g \in Registries : g = None \/ g \subseteq Expectations

(* None is the absence of each of the things that may be absent *)
ASSUME NoneAssumption ==
    None \notin CheckStatuses \cup Exits \cup {"fixture-parse"} \cup CliReports
                  \cup CliRuns \cup Facts \cup Evidence

VARIABLES
    request, registry, faults,   \* what this run of the workflow meets
    prepare,       \* the result of the prepare job, "pending" before
    matrix,        \* its output: the pairs in order, << >> if there is none
    step,          \* what each cell's job does next
    job,           \* its status so far
    outcome,       \* the outcomes of its steps
    disk,          \* its evidence directory
    ran,           \* how its engine ended, None if it did not (history)
    store,         \* the uploaded artifacts
    got,           \* what the collect job has downloaded
    collect,       \* "waiting", "downloaded", "classified", "published", "over"
    collectJob,    \* the status of the collect job, before its last step
    classes,       \* the classification of every cell, None if there is none
    hasFailures,
    verdict        \* the conclusion of the collect job, "none" before

cellVars == <<step, job, outcome, disk, ran, store>>
collectVars == <<got, collect, collectJob, classes, hasFailures, verdict>>
vars == <<request, registry, faults, prepare, matrix, cellVars, collectVars>>

Cells == DOMAIN matrix
NoEvidence == [files |-> {}, exit |-> None, report |-> None, detail |-> {}, line |-> {},
               parse |-> FALSE, facts |-> None]

Init ==
    /\ request \in Requests
    /\ registry \in Registries
    /\ faults \in Worlds
    /\ prepare = "pending"
    /\ matrix = << >>
    /\ step = [i \in Ids |-> "checkout"]
    /\ job = [i \in Ids |-> "success"]
    /\ outcome = [i \in Ids |-> [s \in {"engine", "fixtures", "build", "check"} |-> "skipped"]]
    /\ disk = [i \in Ids |-> NoEvidence]
    /\ ran = [i \in Ids |-> None]
    /\ store = [i \in Ids |-> None]
    /\ got = [i \in Ids |-> None]
    /\ collect = "waiting"
    /\ collectJob = "success"
    /\ classes = None
    /\ hasFailures = FALSE
    /\ verdict = "none"

-----------------------------------------------------------------------------
(* Prepare: compat-matrix-inputs.mjs                                        *)

ParseReferenceList(refs) ==
    /\ refs # << >>
    /\ \A i \in DOMAIN refs : refs[i] \in Refs
    /\ \A i, j \in DOMAIN refs : refs[i] = refs[j] => i = j

BuildMatrix(engines, packs) ==
    [i \in 1..(Len(engines) * Len(packs)) |->
        <<engines[((i - 1) \div Len(packs)) + 1], packs[((i - 1) % Len(packs)) + 1]>>]

Lists == IF request.event = "schedule" THEN Defaults ELSE request

Accepted ==
    /\ ParseReferenceList(Lists.engines)
    /\ ParseReferenceList(Lists.packs)
    /\ Len(Lists.engines) * Len(Lists.packs) <= MaxCells

Prepare ==
    /\ prepare = "pending"
    /\ \/ Accepted /\ prepare' = "success" /\ matrix' = BuildMatrix(Lists.engines, Lists.packs)
       \/ ~Accepted /\ prepare' = "failure" /\ UNCHANGED matrix
       \/ "runner" \in faults /\ prepare' \in {"failure", "cancelled"} /\ UNCHANGED matrix
    /\ UNCHANGED <<request, registry, faults, cellVars, collectVars>>

-----------------------------------------------------------------------------
(* A cell's job                                                             *)

At(i, s) == prepare = "success" /\ i \in Cells /\ step[i] = s

Following ==
    [checkout |-> "build", build |-> "check", check |-> "facts", facts |-> "upload", upload |-> "over"]

Advance(i) == step' = [step EXCEPT ![i] = Following[@]]

(* the results of a step: a failed or cancelled one ends the job's success *)
Ended(i, results) ==
    /\ outcome' = [outcome EXCEPT ![i] = [s \in DOMAIN @ |-> IF s \in DOMAIN results
                                                             THEN results[s] ELSE @[s]]]
    /\ job' = [job EXCEPT ![i] =
          IF \E s \in DOMAIN results : results[s] = "cancelled" THEN "cancelled"
          ELSE IF \A s \in DOMAIN results : results[s] = "success" THEN @ ELSE "failure"]

Bad == IF "step" \in faults THEN {"failure", "cancelled"} ELSE {}

(* the checkouts of the Action, of the engine and of the fixtures, each     *)
(* skipped after one that did not succeed                                   *)
Checkout(i) ==
    /\ At(i, "checkout")
    /\ Advance(i)
    /\ \/ Ended(i, [engine |-> "success", fixtures |-> "success"])
       \/ \E b \in Bad : \/ Ended(i, [engine |-> b, fixtures |-> "skipped"])
                         \/ Ended(i, [engine |-> "success", fixtures |-> b])
       \/ Bad # {} /\ Ended(i, [engine |-> "skipped", fixtures |-> "skipped"])
    /\ UNCHANGED <<request, registry, faults, prepare, matrix, disk, ran, store, collectVars>>

(* the toolchain, then cargo install: skipped if the toolchain fails *)
Build(i) ==
    /\ At(i, "build")
    /\ Advance(i)
    /\ IF job[i] # "success" THEN UNCHANGED <<job, outcome, disk>>
       ELSE \/ \E b \in Bad \cup {"success"} :
                  /\ Ended(i, [build |-> b])
                  /\ disk' = [disk EXCEPT ![i].files = @ \cup {"build"}]
            \/ Bad # {} /\ Ended(i, [build |-> "skipped"]) /\ UNCHANGED disk
    /\ UNCHANGED <<request, registry, faults, prepare, matrix, ran, store, collectVars>>

(* the report, stderr and exit code of a run that ended, or what a run that *)
(* is stopped leaves                                                        *)
Writes(i, r) ==
    disk' = [disk EXCEPT ![i] = [files |-> @.files \cup {"report", "stderr", "exit"},
                exit |-> r.exit, report |-> r.report, detail |-> r.detail, line |-> r.line,
                parse |-> r.parse, facts |-> None]]
WritesInPart(i, r) ==
    disk' = [disk EXCEPT ![i].files = @ \cup {"report", "stderr"}, ![i].line = r.line,
                         ![i].parse = r.parse]

(* the step succeeds however the engine exits; without the pack's directory *)
(* it fails                                                                 *)
Check(i) ==
    /\ At(i, "check")
    /\ Advance(i)
    /\ IF outcome[i].build # "success" THEN UNCHANGED <<job, outcome, disk, ran>>
       ELSE \/ \E r \in CliRuns :
                  /\ Ended(i, [check |-> "success"])
                  /\ Writes(i, r)
                  /\ ran' = [ran EXCEPT ![i] = r]
            \/ \E r \in CliRuns :
                  /\ Bad # {}
                  /\ Ended(i, [check |-> "cancelled"])
                  /\ Writes(i, r) \/ WritesInPart(i, r)
                  /\ UNCHANGED ran
            \/ /\ Bad # {}
               /\ Ended(i, [check |-> "failure"])
               /\ disk' = [disk EXCEPT ![i].files = @ \cup {"stderr"}]
               /\ UNCHANGED ran
    /\ UNCHANGED <<request, registry, faults, prepare, matrix, store, collectVars>>

-----------------------------------------------------------------------------
(* compat-matrix-results.mjs cell: createCellFacts                          *)

Occurrences(s, results) == Cardinality({k \in DOMAIN results : results[k] = s})

(* the worst that was counted *)
StatusFromCounts(counts) ==
    IF counts["error"] > 0 THEN "error"
    ELSE IF counts["fail"] > 0 THEN "fail"
    ELSE IF counts["warning"] > 0 THEN "warning" ELSE "pass"

(* parseCliReport accepts it: its counts and its status are its results' *)
ParseCliReport(r) ==
    /\ r # None
    /\ r.total = Len(r.results)
    /\ \A s \in CheckStatuses : r.counts[s] = Occurrences(s, r.results)
    /\ r.status = StatusFromCounts(r.counts)

FirstDiagnostic(e) ==
    IF ParseCliReport(e.report) /\ \E k \in DOMAIN e.report.results : e.report.results[k] # "pass"
    THEN e.detail ELSE e.line

CliFailureKind(e) ==
    IF ~ParseCliReport(e.report) /\ e.exit \notin {None, "zero"} /\ e.parse THEN "fixture-parse" ELSE None

(* slip: an engine that reports a failure by its exit code has not completed *)
CheckOutcomeOfCleanExit(exit, result) ==
    IF exit = "killed" THEN "timeout"
    ELSE IF result # "success" THEN result
    ELSE IF exit = "zero" THEN "completed" ELSE "failure"

CheckOutcome(exit, result) ==
    IF exit = "killed" THEN "timeout"
    ELSE IF result # "success" THEN result
    ELSE IF exit # None THEN "completed" ELSE "failure"

CreateCellFacts(i) ==
    LET e == disk[i]
        usable == ParseCliReport(e.report)
    IN [pair |-> matrix[i], engine |-> outcome[i].engine, fixtures |-> outcome[i].fixtures,
        build |-> outcome[i].build, check |-> CheckOutcome(e.exit, outcome[i].check),
        exit |-> e.exit, status |-> IF usable THEN e.report.status ELSE None,
        total |-> IF usable THEN e.report.total ELSE None, kind |-> CliFailureKind(e),
        diagnostic |-> FirstDiagnostic(e), files |-> e.files]

(* always(); the script itself is missing where the Action was not checked out *)
WriteCellFacts(i) ==
    /\ At(i, "facts")
    /\ Advance(i)
    /\ IF outcome[i].engine = "skipped"
       THEN job' = [job EXCEPT ![i] = "failure"] /\ UNCHANGED disk
       ELSE \/ disk' = [disk EXCEPT ![i].facts = CreateCellFacts(i)] /\ UNCHANGED job
            \/ \E b \in Bad : job' = [job EXCEPT ![i] = b] /\ UNCHANGED disk
    /\ UNCHANGED <<request, registry, faults, prepare, matrix, outcome, ran, store, collectVars>>

(* always(); if-no-files-found: error *)
UploadEvidence(i) ==
    /\ At(i, "upload")
    /\ Advance(i)
    /\ \/ disk[i] # NoEvidence /\ store' = [store EXCEPT ![i] = disk[i]] /\ UNCHANGED job
       \/ /\ disk[i] = NoEvidence \/ "upload" \in faults
          /\ job' = [job EXCEPT ![i] = "failure"]
          /\ UNCHANGED store
    /\ UNCHANGED <<request, registry, faults, prepare, matrix, outcome, disk, ran, collectVars>>

(* the runner is lost, or the job's own time is up: nothing more of it runs *)
LoseRunner(i) ==
    /\ "runner" \in faults
    /\ \E s \in {"checkout", "build", "check", "facts", "upload"} : At(i, s)
    /\ step' = [step EXCEPT ![i] = "over"]
    /\ \E b \in {"failure", "cancelled"} : job' = [job EXCEPT ![i] = b]
    /\ UNCHANGED <<request, registry, faults, prepare, matrix, outcome, disk, ran, store, collectVars>>

CellStep(i) == Checkout(i) \/ Build(i) \/ Check(i) \/ WriteCellFacts(i) \/ UploadEvidence(i)

-----------------------------------------------------------------------------
(* The collect job                                                          *)

JobsOver == prepare # "pending" /\ \A i \in Cells : step[i] = "over"

MatrixResult ==
    IF prepare # "success" THEN "skipped"
    ELSE IF \E i \in Cells : job[i] = "failure" THEN "failure"
    ELSE IF \E i \in Cells : job[i] = "cancelled" THEN "cancelled" ELSE "success"

(* slip: without always() the job needs what it waits for to have succeeded *)
CollectAfterSuccess == JobsOver /\ MatrixResult = "success"

(* slip: the job needs the preparation only *)
CollectBesideTheCells == prepare # "pending"

(* needs and if: always() *)
CollectMayStart == JobsOver

(* what is left of an artifact whose download breaks off *)
Part(e, files, facts) == [e EXCEPT !.files = files, !.facts = facts]
Parts(e) ==
    IF e = None THEN {None}
    ELSE {None} \cup {Part(e, fs, f) : fs \in SUBSET e.files, f \in {None, e.facts}}

(* continue-on-error: any artifact may be missing, and one may be in part *)
Download ==
    /\ collect = "waiting"
    /\ CollectMayStart
    /\ collect' = "downloaded"
    /\ \/ got' = store
       \/ /\ "download" \in faults
          /\ \E i \in Cells, lost \in SUBSET Cells : \E p \in Parts(store[i]) :
                got' = [k \in Ids |-> IF k = i THEN p ELSE IF k \in lost THEN None ELSE store[k]]
    /\ UNCHANGED <<request, registry, faults, prepare, matrix, cellVars, collectJob, classes, hasFailures,
                   verdict>>

(* validated again, though the matrix comes from the prepare job *)
ReadMatrix == matrix # << >> /\ \A i, j \in Cells : matrix[i] = matrix[j] => i = j

RequiredFiles(f) ==
    (IF f.check \in {"completed", "timeout"} THEN {"report", "stderr", "exit"}
     ELSE IF f.check = "failure" THEN {"stderr"} ELSE {})
    \cup (IF f.build \in {"success", "failure"} THEN {"build"} ELSE {})

ValidateCellFacts(f, e, pair) ==
    /\ f.pair = pair
    /\ f.check = "completed" => f.exit # None
    /\ f.files = e.files
    /\ RequiredFiles(f) \subseteq e.files
    /\ f.kind = CliFailureKind(e)

KnownFailure(f, status) ==
    \E x \in registry : x.pair = f.pair /\ x.status = status /\ x.signature \in f.diagnostic
Expected == registry # None

(* an unreadable registry counts as an empty one, and as an issue *)
FailureClass(f, status) ==
    IF Expected /\ KnownFailure(f, status) THEN "expected-incompatible" ELSE "unexpected-failure"

(* a step that did not succeed, or an engine that did not end *)
Interrupted(f) ==
    \/ \E s \in {"engine", "fixtures", "build"} : f[s] # "success"
    \/ f.check \in {"timeout", "cancelled"}

(* the first that applies *)
ClassifyCell(f) ==
    IF Interrupted(f) THEN "infrastructure"
    ELSE IF f.kind = "fixture-parse"
    THEN IF f.check = "completed" /\ f.exit # "zero" /\ f.status = None
         THEN FailureClass(f, "execution-failed") ELSE "infrastructure"
    ELSE IF f.status = None \/ f.check # "completed" THEN "infrastructure"
    ELSE IF f.total = 0 THEN "skipped"
    ELSE IF f.status # "pass" THEN FailureClass(f, f.status)
    ELSE IF Expected /\ \E x \in registry : x.pair = f.pair THEN "unexpected-pass" ELSE "supported"

(* slip: a cell without facts is passed over *)
ClassOfMissingSkipped(i) ==
    IF got[i] = None \/ got[i].facts = None THEN "skipped"
    ELSE IF ~ValidateCellFacts(got[i].facts, got[i], matrix[i]) THEN "infrastructure"
    ELSE ClassifyCell(got[i].facts)

ClassOf(i) ==
    IF \/ got[i] = None \/ got[i].facts = None
       \/ ~ValidateCellFacts(got[i].facts, got[i], matrix[i])
    THEN "infrastructure" ELSE ClassifyCell(got[i].facts)

ShouldFailJob == {"infrastructure", "unexpected-failure", "unexpected-pass"}

(* collectResults *)
Issues ==
    \/ prepare # "success"
    \/ ~ReadMatrix
    \/ registry = None
    \/ MatrixResult # "success" /\ ~(prepare # "success" /\ MatrixResult = "skipped")

Classify ==
    /\ collect = "downloaded"
    /\ collect' = "classified"
    /\ \/ /\ classes' = [i \in Cells |-> ClassOf(i)]
          /\ hasFailures' = (Issues \/ \E i \in Cells : ClassOf(i) \in ShouldFailJob)
          /\ UNCHANGED collectJob
       \/ "collect" \in faults /\ collectJob' = "failure" /\ UNCHANGED <<classes, hasFailures>>
    /\ UNCHANGED <<request, registry, faults, prepare, matrix, cellVars, got, verdict>>

(* the table is printed and the results are uploaded, always(): either      *)
(* step may fail, and then the job does, whatever the classification says   *)
Publish ==
    /\ collect = "classified"
    /\ collect' = "published"
    /\ \/ UNCHANGED collectJob
       \/ {"upload", "collect"} \cap faults # {} /\ collectJob' = "failure"
    /\ UNCHANGED <<request, registry, faults, prepare, matrix, cellVars, got, classes, hasFailures, verdict>>

(* the last step fails if the classification failed or found failures, and  *)
(* a failed step before it has failed the job already                       *)
Conclude ==
    /\ collect = "published"
    /\ collect' = "over"
    /\ verdict' = IF collectJob = "failure" \/ hasFailures THEN "red" ELSE "green"
    /\ UNCHANGED <<request, registry, faults, prepare, matrix, cellVars, got, collectJob, classes,
                   hasFailures>>

(* the collector's own runner is lost, or its time is up: nothing more of   *)
(* it runs, and its conclusion is a failure or a cancellation               *)
LoseCollector ==
    /\ "runner" \in faults
    /\ CollectMayStart
    /\ collect # "over"
    /\ collect' = "over"
    /\ collectJob' = "failure"
    /\ verdict' = "red"
    /\ UNCHANGED <<request, registry, faults, prepare, matrix, cellVars, got, classes, hasFailures>>

CollectStep == Download \/ Classify \/ Publish \/ Conclude \/ LoseCollector

Next == Prepare \/ (\E i \in Ids : CellStep(i) \/ LoseRunner(i)) \/ CollectStep

Spec == Init /\ [][Next]_vars

(* the service runs every job that is due, and ends it (timeout-minutes) *)
FairSpec ==
    Spec /\ WF_vars(Prepare) /\ WF_vars(CollectStep)
         /\ \A i \in Ids : WF_vars(CellStep(i) \/ LoseRunner(i))

-----------------------------------------------------------------------------
(* Properties                                                              *)

Classes == {"supported", "expected-incompatible", "skipped"} \cup ShouldFailJob

TypeOK ==
    /\ request \in Requests /\ registry \in Registries /\ faults \in Worlds
    /\ prepare \in {"pending", "success", "failure", "cancelled"}
    /\ matrix \in Seq(Pairs) /\ Len(matrix) <= MaxCells
    /\ step \in [Ids -> {"checkout", "build", "check", "facts", "upload", "over"}]
    /\ job \in [Ids -> {"success", "failure", "cancelled"}]
    /\ outcome \in [Ids -> [{"engine", "fixtures", "build", "check"} -> StepOutcomes]]
    /\ disk \in [Ids -> Evidence]
    /\ ran \in [Ids -> CliRuns \cup {None}]
    /\ store \in [Ids -> Evidence \cup {None}]
    /\ got \in [Ids -> Evidence \cup {None}]
    /\ collect \in {"waiting", "downloaded", "classified", "published", "over"}
    /\ collectJob \in {"success", "failure"}
    /\ classes = None \/ classes \in [Cells -> Classes]
    /\ hasFailures \in BOOLEAN
    /\ verdict \in {"none", "green", "red"}

(* what the engine of a cell did, against what the registry says of it *)
RegisteredAs(i, status, diagnostic) ==
    registry # None /\ \E x \in registry :
        x.pair = matrix[i] /\ x.status = status /\ x.signature \in diagnostic

AsRegistered(i) ==
    LET r == ran[i] IN
    r # None /\ r.exit # "killed" /\
        \/ /\ ParseCliReport(r.report)
           /\ \/ r.report.total = 0
              \/ r.report.status = "pass" /\ ~\E x \in registry : x.pair = matrix[i]
              \/ r.report.status # "pass" /\ RegisteredAs(i, r.report.status, r.detail)
        \/ /\ ~ParseCliReport(r.report) /\ r.exit = "nonzero" /\ r.parse
           /\ RegisteredAs(i, "execution-failed", r.line)

(* "Missing, duplicate, mismatched or malformed artifacts cannot produce a  *)
(* successful empty report": the collector is green only if every cell of   *)
(* the prepared matrix ran its engine to the end and that engine did what   *)
(* the registry says of it, whatever steps, runners, uploads and downloads  *)
(* were lost.  A cell that ran no checks is green also where the registry   *)
(* expects a failure of it.                                                 *)
GreenIsEarned ==
    verdict = "green" =>
        /\ prepare = "success" /\ registry # None /\ Cells # {}
        /\ \A i \in Cells : job[i] = "success" /\ AsRegistered(i)

(* A red collector has a reason: if every job succeeded and every artifact  *)
(* arrived, and no step of the collector but the last failed (it classified,*)
(* printed and uploaded, and kept its runner), some engine did not do what  *)
(* the registry says, or the registry is unreadable.  The chain from facts  *)
(* to their validation loses nothing.                                       *)
RedIsWarranted ==
    verdict = "red" /\ collectJob = "success" /\ prepare = "success" /\ registry # None /\ got = store
            /\ (\A i \in Cells : job[i] = "success") =>
        \E i \in Cells : ~AsRegistered(i)

(* The matrix keeps the promise of MatrixGate.  A cell has ended when its    *)
(* job has, and earned green if the job succeeded and its engine did what   *)
(* the registry says of it: nothing changes that afterwards, least of all   *)
(* under the collector's hands, and the one verdict comes after all of it.  *)
ResultOf(i) ==
    IF step[i] # "over" THEN "running"
    ELSE IF job[i] = "success" /\ registry # None /\ AsRegistered(i) THEN "earned" ELSE "failed"

Gate == INSTANCE MatrixGate WITH
    planned <- prepare # "pending", results <- [i \in Cells |-> ResultOf(i)]

KeepsGatePromise == Gate!Spec

(* The collector concludes, whatever failed or was lost before it.          *)
EveryMatrixConcludes == <>(verdict # "none")
==============================================================================

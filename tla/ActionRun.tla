----------------------------- MODULE ActionRun -------------------------------
(***************************************************************************)
(* run() of src/main.ts: one invocation of the Action, from its inputs to  *)
(* the step's conclusion.  Each stage is one action; where a stage returns *)
(* early the invocation ends there.  The engine process is the abstract    *)
(* BoundedCall that runCheck is shown to implement (RunCheck); what the    *)
(* engine prints and how it exits are free, and independent of each other. *)
(*                                                                         *)
(* The runner may kill the Action between any two stages.                  *)
(***************************************************************************)
EXTENDS Naturals, FiniteSets

CONSTANTS
    Inputs,        \* the combinations of inputs considered (see InputSpace)
    Statuses       \* what a report's own status may be

(* junit-report, upload-report and generate-receipt *)
Switches == {"junit", "upload", "receipt"}

(* valid: getInputs accepts them; fixtures: fixtures-dir exists;            *)
(* baseline: no baseline-report, one that loads, or one that does not;      *)
(* gated: a scope input the resolved engine cannot honour                   *)
InputSpace == [valid : BOOLEAN, fixtures : BOOLEAN,
               baseline : {"none", "usable", "unusable"},
               gated : BOOLEAN, on : SUBSET Switches]

ASSUME ActionAssumption ==
    /\ Inputs \subseteq InputSpace
    /\ Statuses \cap {"none", "empty", "broken", "unset", "execution-failed"} = {}

VARIABLES
    stage,         \* the next stage of run()
    inputs,
    call, expired, overflowed,     \* the engine process: see BoundedCall
    exit,          \* its exit: "none", "signal", "zero", "nonzero"
    stdout,        \* what it printed: "none", "empty", "broken", or its status
    report,        \* the parsed report's status, "none" before
    files,         \* files of this invocation on the disk
    artifact,      \* the uploaded report artifact's files, {} if none
    failed,        \* core.setFailed was called
    summary,       \* the job summary: "none", "failure", "report", "lost"
    outputs        \* the step's outputs

engineVars == <<call, expired, overflowed>>
vars == <<stage, inputs, engineVars, exit, stdout, report, files, artifact,
          failed, summary, outputs>>

Engine == INSTANCE BoundedCall

(* "counts" stands for passed ... replayed-count, "pack" for the pack-*,    *)
(* "artifact" for artifact-name and artifact-id                             *)
OutputNames == {"status", "counts", "coverage-state", "engine-version", "observed-protocol",
                "pack", "report", "artifact", "receipt-path", "junit-report-path"}
OutputValues == Statuses \cup {"unset", "execution-failed", "zero", "none", "empty", "value"}

Init ==
    /\ stage = "inputs"
    /\ inputs \in Inputs
    /\ Engine!Init
    /\ exit = "none"
    /\ stdout = "none"
    /\ report = "none"
    /\ files = {}
    /\ artifact = {}
    /\ failed = FALSE
    /\ summary = "none"
    /\ outputs = [o \in OutputNames |-> "unset"]

-----------------------------------------------------------------------------
Goto(next) == stage' = next

SetFailed == failed' = TRUE

(* slip: the outputs beside the status are left unset *)
ExecutionFailureStatusOnly(version) ==
    /\ Goto("ended")
    /\ SetFailed
    /\ summary' \in {"failure", "lost"}
    /\ outputs' = [outputs EXCEPT !["status"] = "execution-failed"]

(* handleExecutionFailure: fails the step, says so in the summary, and sets *)
(* the outputs a consumer may read; a summary that cannot be written fails  *)
(* the step once more.                                                      *)
HandleExecutionFailure(version) ==
    /\ Goto("ended")
    /\ SetFailed
    /\ summary' \in {"failure", "lost"}
    /\ outputs' = [outputs EXCEPT !["status"] = "execution-failed", !["counts"] = "zero",
                                  !["coverage-state"] = "none", !["engine-version"] = version,
                                  !["observed-protocol"] = "empty", !["pack"] = "empty",
                                  !["artifact"] = "empty"]

(* a failure reported through setFailed alone, and a return *)
ReturnFailed ==
    /\ Goto("ended")
    /\ SetFailed
    /\ UNCHANGED <<summary, outputs>>

Proceed(next) ==
    /\ Goto(next)
    /\ UNCHANGED <<failed, summary, outputs>>

-----------------------------------------------------------------------------
(* Before the engine runs                                                   *)

ReadInputs ==
    /\ stage = "inputs"
    /\ IF inputs.valid THEN Proceed("fixtures") ELSE ReturnFailed
    /\ UNCHANGED <<inputs, engineVars, exit, stdout, report, files, artifact>>

ValidateFixturesDir ==
    /\ stage = "fixtures"
    /\ IF inputs.fixtures THEN Proceed("baseline") ELSE HandleExecutionFailure("empty")
    /\ UNCHANGED <<inputs, engineVars, exit, stdout, report, files, artifact>>

LoadBaseline ==
    /\ stage = "baseline"
    /\ IF inputs.baseline = "unusable" THEN ReturnFailed ELSE Proceed("gate")
    /\ UNCHANGED <<inputs, engineVars, exit, stdout, report, files, artifact>>

(* resolveVersion never fails; then the scope gate *)
ScopeGate ==
    /\ stage = "gate"
    /\ IF inputs.gated THEN ReturnFailed ELSE Proceed("install")
    /\ UNCHANGED <<inputs, engineVars, exit, stdout, report, files, artifact>>

(* ensureCanaryInstalled: see Install *)
InstallEngine ==
    /\ stage = "install"
    /\ HandleExecutionFailure("empty") \/ Proceed("check")
    /\ UNCHANGED <<inputs, engineVars, exit, stdout, report, files, artifact>>

-----------------------------------------------------------------------------
(* The engine runs                                                          *)

RunEngine ==
    /\ stage = "check"
    /\ Engine!Next
    /\ UNCHANGED <<stage, inputs, exit, stdout, report, files, artifact, failed, summary, outputs>>

(* slip: only a timeout is caught *)
EngineTimedOut ==
    /\ stage = "check"
    /\ call = "timeout"
    /\ HandleExecutionFailure("value")
    /\ UNCHANGED <<inputs, engineVars, exit, stdout, report, files, artifact>>

EngineRejected ==
    /\ stage = "check"
    /\ call \in Engine!Rejections
    /\ HandleExecutionFailure("value")
    /\ UNCHANGED <<inputs, engineVars, exit, stdout, report, files, artifact>>

(* the report file is written before anything is made of the result, and a  *)
(* file that could not be written whole is removed, if it can be            *)
EngineResolved ==
    /\ stage = "check"
    /\ call = "result"
    /\ exit' \in {"signal", "zero", "nonzero"}
    /\ stdout' \in {"empty", "broken"} \cup Statuses
    /\ files' \in IF stdout' = "empty" THEN {{}} ELSE {{"report"}, {}, {"part of a report"}}
    /\ Proceed("exit")
    /\ UNCHANGED <<inputs, engineVars, report, artifact>>

ReportWritten == "report" \in files

(* an engine ended by a signal has no result whatever it printed; otherwise *)
(* its output must parse                                                    *)
InterpretExit ==
    /\ stage = "exit"
    /\ IF exit # "signal" /\ stdout \in Statuses
       THEN /\ report' = stdout
            /\ Proceed("compare")
       ELSE HandleExecutionFailure("value") /\ UNCHANGED report
    /\ UNCHANGED <<inputs, engineVars, exit, stdout, files, artifact>>

(* slip: a baseline of another protocol is only annotated *)
CompareBaselineLeniently ==
    /\ stage = "compare"
    /\ \/ Proceed("junit")
       \/ inputs.baseline = "usable" /\ Goto("ended") /\ UNCHANGED <<failed, summary, outputs>>
    /\ UNCHANGED <<inputs, engineVars, exit, stdout, report, files, artifact>>

(* assertBaselineProtocol *)
CompareBaseline ==
    /\ stage = "compare"
    /\ Proceed("junit") \/ (inputs.baseline = "usable" /\ ReturnFailed)
    /\ UNCHANGED <<inputs, engineVars, exit, stdout, report, files, artifact>>

-----------------------------------------------------------------------------
(* What is made of the report                                               *)

(* renderJUnitReport: any failure is a warning *)
RenderJUnit ==
    /\ stage = "junit"
    /\ Goto("upload")
    /\ \/ /\ "junit" \in inputs.on /\ ReportWritten
          /\ files' = files \cup {"junit"}
          /\ outputs' = [outputs EXCEPT !["junit-report-path"] = "value"]
       \/ UNCHANGED <<files, outputs>>
    /\ UNCHANGED <<inputs, engineVars, exit, stdout, report, artifact, failed, summary>>

(* uploadReport: see ArtifactUpload; any failure is a warning *)
Upload ==
    /\ stage = "upload"
    /\ Proceed("summary")
    /\ artifact' \in IF "upload" \in inputs.on /\ ReportWritten THEN {files, {}} ELSE {{}}
    /\ UNCHANGED <<inputs, engineVars, exit, stdout, report, files>>

(* the summary and the pull request comment; only the summary can fail      *)
WriteSummary ==
    /\ stage = "summary"
    /\ Goto("outputs")
    /\ \/ summary' = "report" /\ UNCHANGED failed
       \/ summary' = "lost" /\ SetFailed
    /\ UNCHANGED <<inputs, engineVars, exit, stdout, report, files, artifact, outputs>>

(* slip: the path is set whether or not the file was written *)
SetOutputsAnyPath ==
    /\ stage = "outputs"
    /\ Goto("receipt")
    /\ outputs' = [outputs EXCEPT
          !["status"] = report, !["counts"] = "value", !["coverage-state"] = "value",
          !["engine-version"] = "value", !["observed-protocol"] = "value", !["pack"] = "value",
          !["report"] = "value",
          !["artifact"] = IF artifact # {} THEN "value" ELSE "empty"]
    /\ UNCHANGED <<inputs, engineVars, exit, stdout, report, files, artifact, failed, summary>>

SetOutputs ==
    /\ stage = "outputs"
    /\ Goto("receipt")
    /\ outputs' = [outputs EXCEPT
          !["status"] = report, !["counts"] = "value", !["coverage-state"] = "value",
          !["engine-version"] = "value", !["observed-protocol"] = "value", !["pack"] = "value",
          !["report"] = IF ReportWritten THEN "value" ELSE @,
          !["artifact"] = IF artifact # {} THEN "value" ELSE "empty"]
    /\ UNCHANGED <<inputs, engineVars, exit, stdout, report, files, artifact, failed, summary>>

(* the Execution Receipt: written or not, uploaded or not *)
WriteReceipt ==
    /\ stage = "receipt"
    /\ Goto("verdict")
    /\ \/ /\ "receipt" \in inputs.on
          /\ files' = files \cup {"receipt"}
          /\ outputs' = [outputs EXCEPT !["receipt-path"] = "value"]
       \/ UNCHANGED <<files, outputs>>
    /\ UNCHANGED <<inputs, engineVars, exit, stdout, report, artifact, failed, summary>>

(* slip: the report decides, not the engine's exit code *)
VerdictOfTheReport ==
    /\ stage = "verdict"
    /\ Goto("ended")
    /\ failed' = (failed \/ report \in {"fail", "error"})
    /\ UNCHANGED <<inputs, engineVars, exit, stdout, report, files, artifact, summary, outputs>>

Verdict ==
    /\ stage = "verdict"
    /\ Goto("ended")
    /\ failed' = (failed \/ exit # "zero")
    /\ UNCHANGED <<inputs, engineVars, exit, stdout, report, files, artifact, summary, outputs>>

(* the runner cancels the job: the process is gone, the outputs stay *)
Killed ==
    /\ stage \notin {"ended", "killed"}
    /\ stage' = "killed"
    /\ UNCHANGED <<inputs, engineVars, exit, stdout, report, files, artifact, failed,
                   summary, outputs>>

Stage ==
    \/ ReadInputs \/ ValidateFixturesDir \/ LoadBaseline \/ ScopeGate \/ InstallEngine
    \/ RunEngine \/ EngineRejected \/ EngineResolved \/ InterpretExit \/ CompareBaseline
    \/ RenderJUnit \/ Upload \/ WriteSummary \/ SetOutputs \/ WriteReceipt \/ Verdict

Next == Stage \/ Killed

Spec == Init /\ [][Next]_vars

(* every stage is carried out, and the engine call is settled (RunCheck:    *)
(* EveryUnheldCallSettles)                                                        *)
FairSpec == Spec /\ WF_vars(Stage)

-----------------------------------------------------------------------------
(* Properties                                                              *)

TypeOK ==
    /\ stage \in {"inputs", "fixtures", "baseline", "gate", "install", "check", "exit",
                  "compare", "junit", "upload", "summary", "outputs", "receipt", "verdict",
                  "ended", "killed"}
    /\ inputs \in Inputs
    /\ Engine!TypeOK
    /\ exit \in {"none", "signal", "zero", "nonzero"}
    /\ stdout \in {"none", "empty", "broken"} \cup Statuses
    /\ report \in Statuses \cup {"none"}
    /\ files \subseteq {"report", "part of a report", "junit", "receipt"}
    /\ artifact \subseteq {"report", "junit"}
    /\ failed \in BOOLEAN
    /\ summary \in {"none", "failure", "report", "lost"}
    /\ outputs \in [OutputNames -> OutputValues]

(* A step is green only if the engine ran to its end in time, exited with 0 *)
(* and printed a report, and then every output a consumer gates on is set:  *)
(* no early return, no auxiliary failure and no late one leads to green by  *)
(* another way.                                                             *)
GreenIsEarned ==
    stage = "ended" /\ ~failed =>
        /\ call = "result" /\ ~expired /\ exit = "zero" /\ report = stdout
        /\ summary = "report"
        /\ outputs["status"] = report
        /\ \A o \in OutputNames \ {"report", "receipt-path", "junit-report-path"} :
              outputs[o] # "unset"

(* "auxiliary ... can never change status or fail the job": when the       *)
(* engine exited with 0 and its report parsed, and neither a baseline nor   *)
(* the summary objects, the step is green and its status the report's,      *)
(* whatever became of the report file, the JUnit file, the artifact and the *)
(* receipt.                                                                 *)
AuxiliaryNeverDecides ==
    stage = "ended" /\ exit = "zero" /\ report # "none"
            /\ inputs.baseline # "usable" /\ summary # "lost" =>
        ~failed /\ outputs["status"] = report

(* "they indicate that Canary never produced a report at all": with         *)
(* execution-failed the step is red, every count is 0, coverage is none,    *)
(* and no output points at a report, an artifact or a receipt.              *)
ExecutionFailedIsUnmistakable ==
    outputs["status"] = "execution-failed" =>
        /\ failed
        /\ outputs["counts"] = "zero" /\ outputs["coverage-state"] = "none"
        /\ artifact = {} /\ outputs["artifact"] = "empty"
        /\ \A o \in {"report", "receipt-path", "junit-report-path"} : outputs[o] = "unset"
        /\ report = "none"

(* What an output points at exists: report and junit-report-path name whole *)
(* files, and a named artifact holds the whole report, and the JUnit file   *)
(* exactly if there is one.                                                 *)
OutputsPointAtWholeFiles ==
    /\ outputs["report"] = "value" => "report" \in files
    /\ outputs["junit-report-path"] = "value" => {"report", "junit"} \subseteq files
    /\ outputs["receipt-path"] = "value" => "receipt" \in files /\ report # "none"
    /\ outputs["artifact"] = "value" => artifact = files \ {"receipt"} /\ "report" \in artifact

(* "Canary's own exit code, not the parsed report, is authoritative": a      *)
(* status is published only for an engine that exited by itself, and then   *)
(* red and green follow its exit code, also where the report disagrees.     *)
ExitCodeIsAuthoritative ==
    outputs["status"] \in Statuses =>
        /\ exit \in {"zero", "nonzero"}
        /\ stage = "ended" /\ summary # "lost" => (failed <=> exit # "zero")

(* The engine's exit code decides, and nothing that comes after it does.     *)
ExitCodeDecides == ExitCodeIsAuthoritative /\ AuxiliaryNeverDecides

(* The invocation comes to an end by every way the engine call may settle.  *)
EveryRunEnds ==
    <>(stage \in {"ended", "killed"})
==============================================================================

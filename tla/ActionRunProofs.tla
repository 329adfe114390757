--------------------------- MODULE ActionRunProofs ---------------------------
(***************************************************************************)
(* Proofs about ActionRun: its safety properties for every set of inputs   *)
(* and every set of report statuses.  IInv says, stage by stage, what run()*)
(* has done so far and what it has not; the properties are its conjuncts.  *)
(* And about CheckInputs: that it refines ActionRun, what children see and *)
(* what the engine is asked, for every invocation and every list of names. *)
(***************************************************************************)
EXTENDS CheckInputs, TLAPS

BeforeEngine == {"inputs", "fixtures", "baseline", "gate", "install"}
BeforeReport == BeforeEngine \cup {"check", "exit"}
WithReport == {"compare", "junit", "upload", "summary", "outputs", "receipt", "verdict"}
BeforeSummary == BeforeReport \cup {"compare", "junit", "upload", "summary"}
AfterSummary == {"outputs", "receipt", "verdict"}

(* The engine: idle before its stage, in time if it has a result, and its   *)
(* result is what the later stages work with.                               *)
EngineInv ==
    /\ stage \in BeforeEngine => call = "idle"
    /\ call = "result" => ~expired
    /\ stage \in BeforeReport => report = "none"
    /\ stage \in {"exit"} \cup WithReport => call = "result"
    /\ stage = "exit" => exit # "none"
    /\ stage \in WithReport =>
          report \in Statuses /\ report = stdout /\ exit \in {"zero", "nonzero"}

(* The files and the artifact made of them.                                 *)
FilesInv ==
    /\ stage \in BeforeEngine \cup {"check"} => files = {}
    /\ stage \in {"exit", "compare", "junit"} => files \subseteq {"report", "part of a report"}
    /\ stage \in {"upload", "summary", "outputs", "receipt"} => "receipt" \notin files
    /\ "report" \in files => "part of a report" \notin files
    /\ stage \in BeforeReport \cup {"compare", "junit", "upload"} => artifact = {}
    /\ artifact # {} => "report" \in files /\ artifact = files \ {"receipt"}

(* Nothing is said of the run before there is something to say.             *)
OutputsInv ==
    /\ stage \in BeforeSummary => ~failed /\ summary = "none"
    /\ stage \in AfterSummary =>
          summary \in {"report", "lost"} /\ (failed <=> summary = "lost")
    /\ stage \in BeforeSummary \cup {"outputs"} =>
          \A o \in OutputNames \ {"junit-report-path"} : outputs[o] = "unset"
    /\ stage \in BeforeReport \cup {"compare", "junit"} =>
          outputs["junit-report-path"] = "unset"
    /\ stage \in {"receipt", "verdict"} =>
          /\ outputs["status"] = report
          /\ \A o \in OutputNames \ {"report", "receipt-path", "junit-report-path"} :
                outputs[o] # "unset"

Promises ==
    /\ GreenIsEarned
    /\ AuxiliaryNeverDecides
    /\ ExecutionFailedIsUnmistakable
    /\ OutputsPointAtWholeFiles
    /\ ExitCodeIsAuthoritative

IInv == TypeOK /\ EngineInv /\ FilesInv /\ OutputsInv /\ Promises

(* BoundedCall: a call is settled once, and with a result only in time.     *)
LEMMA EngineStep ==
    ASSUME Engine!TypeOK, call = "result" => ~expired, Engine!Next
    PROVE  Engine!TypeOK' /\ (call' = "result" => ~expired')
<1> USE DEF Engine!TypeOK, Engine!Rejections, Engine!Settlements
<1>1. CASE Engine!Begin
  BY <1>1 DEF Engine!Begin
<1>2. CASE Engine!Expire
  BY <1>2 DEF Engine!Expire
<1>3. CASE Engine!Overflow
  BY <1>3 DEF Engine!Overflow
<1>4. CASE Engine!FailToStart
  BY <1>4 DEF Engine!FailToStart
<1>5. CASE Engine!RejectOverflow
  BY <1>5 DEF Engine!RejectOverflow
<1>6. CASE Engine!RejectTimeout
  BY <1>6 DEF Engine!RejectTimeout
<1>7. CASE Engine!Resolve
  BY <1>7 DEF Engine!Resolve
<1> QED
  BY <1>1, <1>2, <1>3, <1>4, <1>5, <1>6, <1>7 DEF Engine!Next

(* SetOutputs, the one stage that sets eight outputs at once.               *)
LEMMA SetOutputsType ==
    ASSUME TypeOK, SetOutputs
    PROVE  outputs' \in [OutputNames -> OutputValues]
<1>1. \A a, b \in OutputValues :
        [outputs EXCEPT
          !["status"] = report, !["counts"] = "value", !["coverage-state"] = "value",
          !["engine-version"] = "value", !["observed-protocol"] = "value", !["pack"] = "value",
          !["report"] = a, !["artifact"] = b] \in [OutputNames -> OutputValues]
  BY DEF TypeOK, OutputValues
<1>2. (IF ReportWritten THEN "value" ELSE outputs["report"]) \in OutputValues
  BY DEF TypeOK, OutputValues, OutputNames
<1>3. (IF artifact # {} THEN "value" ELSE "empty") \in OutputValues
  BY DEF OutputValues
<1> QED
  BY <1>1, <1>2, <1>3 DEF SetOutputs

(* The artifact is made of the report and the JUnit file only.              *)
LEMMA UploadStep ==
    ASSUME TypeOK, FilesInv, Upload PROVE artifact' \subseteq {"report", "junit"}
<1>1. artifact' = {} \/ (artifact' = files /\ "report" \in files /\ stage = "upload")
  BY DEF Upload, ReportWritten
<1>2. "report" \in files /\ stage = "upload" => files \subseteq {"report", "junit"}
  BY DEF TypeOK, FilesInv
<1> QED
  BY <1>1, <1>2

(* Every stage keeps the types.                                             *)
LEMMA TypeStep == TypeOK /\ EngineInv /\ FilesInv /\ [Next]_vars => TypeOK'
<1> SUFFICES ASSUME TypeOK, EngineInv, FilesInv, [Next]_vars PROVE TypeOK'
  OBVIOUS
<1> USE DEF ReadInputs, ValidateFixturesDir, LoadBaseline, ScopeGate, InstallEngine, RunEngine,
        EngineRejected, EngineResolved, InterpretExit, CompareBaseline, RenderJUnit, Upload,
        WriteSummary, SetOutputs, WriteReceipt, Verdict, Killed, Next, Stage, vars,
        HandleExecutionFailure, Goto, Proceed, SetFailed, ReturnFailed, ReportWritten
<1>1. /\ stage' \in {"inputs", "fixtures", "baseline", "gate", "install", "check", "exit",
                      "compare", "junit", "upload", "summary", "outputs", "receipt",
                      "verdict", "ended", "killed"}
      /\ inputs' \in Inputs
      /\ exit' \in {"none", "signal", "zero", "nonzero"}
      /\ stdout' \in {"none", "empty", "broken"} \cup Statuses
      /\ report' \in Statuses \cup {"none"}
      /\ summary' \in {"none", "failure", "report", "lost"}
  BY DEF TypeOK
<1>2. failed' \in BOOLEAN
  BY DEF TypeOK
<1>3. files' \subseteq {"report", "part of a report", "junit", "receipt"}
  BY DEF TypeOK
<1>4. artifact' \subseteq {"report", "junit"}
  <2>1. Upload \/ UNCHANGED artifact
    OBVIOUS
  <2>2. UNCHANGED artifact => artifact' \subseteq {"report", "junit"}
    BY DEF TypeOK
  <2> QED
    BY <2>1, <2>2, UploadStep
<1>5. Engine!TypeOK'
  <2>1. RunEngine \/ UNCHANGED engineVars
    BY DEF engineVars
  <2>2. UNCHANGED engineVars => Engine!TypeOK'
    BY DEF TypeOK, Engine!TypeOK, engineVars
  <2>3. RunEngine => Engine!TypeOK'
    BY EngineStep DEF TypeOK, EngineInv
  <2> QED
    BY <2>1, <2>2, <2>3
<1>6. outputs' \in [OutputNames -> OutputValues]
  <2>1. CASE SetOutputs
    BY <2>1, SetOutputsType
  <2>2. CASE ~SetOutputs
    <3> HIDE DEF SetOutputs
    <3> QED
      BY <2>2 DEF TypeOK, OutputValues
  <2> QED
    BY <2>1, <2>2
<1> QED
  BY <1>1, <1>2, <1>3, <1>4, <1>5, <1>6, Zenon DEF TypeOK

(* What handleExecutionFailure leaves behind, whatever it was called for.   *)
LEMMA HandleStep ==
    ASSUME TypeOK, NEW version, HandleExecutionFailure(version)
    PROVE  /\ stage' = "ended" /\ failed' = TRUE /\ summary' \in {"failure", "lost"}
           /\ outputs'["status"] = "execution-failed" /\ outputs'["counts"] = "zero"
           /\ outputs'["coverage-state"] = "none" /\ outputs'["artifact"] = "empty"
           /\ \A o \in {"report", "receipt-path", "junit-report-path"} :
                 outputs'[o] = outputs[o]
BY DEF HandleExecutionFailure, TypeOK, OutputNames, Goto, SetFailed

(* The engine is run once, and its result is carried to the end.            *)
LEMMA EngineInvStep == TypeOK /\ EngineInv /\ [Next]_vars => EngineInv'
<1> SUFFICES ASSUME TypeOK, EngineInv, [Next]_vars PROVE EngineInv'
  OBVIOUS
<1> USE ActionAssumption
    DEF TypeOK, EngineInv, BeforeEngine, BeforeReport, WithReport, BeforeSummary,
        AfterSummary, Goto, Proceed, SetFailed, ReturnFailed, ReportWritten, engineVars
<1>1. CASE ReadInputs
  BY <1>1 DEF ReadInputs
<1>2. CASE ValidateFixturesDir
  BY <1>2, HandleStep DEF ValidateFixturesDir
<1>3. CASE LoadBaseline
  BY <1>3 DEF LoadBaseline
<1>4. CASE ScopeGate
  BY <1>4 DEF ScopeGate
<1>5. CASE InstallEngine
  BY <1>5, HandleStep DEF InstallEngine
<1>6. CASE RunEngine
  BY <1>6, EngineStep DEF RunEngine
<1>7. CASE EngineRejected
  BY <1>7, HandleStep DEF EngineRejected
<1>8. CASE EngineResolved
  BY <1>8 DEF EngineResolved
<1>9. CASE InterpretExit
  <2>1. stage' \in BeforeEngine => call' = "idle"
    BY <1>9, HandleStep DEF InterpretExit
  <2>2. call' = "result" => ~expired'
    BY <1>9, HandleStep DEF InterpretExit
  <2>3. stage' \in BeforeReport => report' = "none"
    BY <1>9, HandleStep DEF InterpretExit
  <2>4. stage' \in {"exit"} \cup WithReport => call' = "result"
    BY <1>9, HandleStep DEF InterpretExit
  <2>5. stage' = "exit" => exit' # "none"
    BY <1>9, HandleStep DEF InterpretExit
  <2>6. stage' \in WithReport =>
          report' \in Statuses /\ report' = stdout' /\ exit' \in {"zero", "nonzero"}
    BY <1>9, HandleStep DEF InterpretExit
  <2> QED
    BY <2>1, <2>2, <2>3, <2>4, <2>5, <2>6
<1>10. CASE CompareBaseline
  BY <1>10 DEF CompareBaseline
<1>11. CASE RenderJUnit
  BY <1>11 DEF RenderJUnit
<1>12. CASE Upload
  BY <1>12 DEF Upload
<1>13. CASE WriteSummary
  BY <1>13 DEF WriteSummary
<1>14. CASE SetOutputs
  BY <1>14 DEF SetOutputs
<1>15. CASE WriteReceipt
  BY <1>15 DEF WriteReceipt
<1>16. CASE Verdict
  BY <1>16 DEF Verdict
<1>17. CASE Killed
  BY <1>17 DEF Killed
<1>18. CASE UNCHANGED vars
  BY <1>18 DEF vars
<1> QED
  BY <1>1, <1>2, <1>3, <1>4, <1>5, <1>6, <1>7, <1>8, <1>9, <1>10, <1>11, <1>12, <1>13,
     <1>14, <1>15, <1>16, <1>17, <1>18 DEF Next, Stage

(* Files are added, never changed, once the artifact is made.               *)
LEMMA FilesStep == TypeOK /\ FilesInv /\ [Next]_vars => FilesInv'
<1> SUFFICES ASSUME TypeOK, FilesInv, [Next]_vars PROVE FilesInv'
  OBVIOUS
<1> USE ActionAssumption
    DEF FilesInv, BeforeEngine, BeforeReport, WithReport, BeforeSummary, AfterSummary, Goto,
        Proceed, SetFailed, ReturnFailed, ReportWritten, engineVars
<1>1. CASE ReadInputs
  BY <1>1 DEF ReadInputs
<1>2. CASE ValidateFixturesDir
  BY <1>2, HandleStep DEF ValidateFixturesDir
<1>3. CASE LoadBaseline
  BY <1>3 DEF LoadBaseline
<1>4. CASE ScopeGate
  BY <1>4 DEF ScopeGate
<1>5. CASE InstallEngine
  BY <1>5, HandleStep DEF InstallEngine
<1>6. CASE RunEngine
  BY <1>6 DEF RunEngine
<1>7. CASE EngineRejected
  BY <1>7, HandleStep DEF EngineRejected
<1>8. CASE EngineResolved
  BY <1>8 DEF EngineResolved
<1>9. CASE InterpretExit
  BY <1>9, HandleStep DEF InterpretExit
<1>10. CASE CompareBaseline
  BY <1>10 DEF CompareBaseline
<1>11. CASE RenderJUnit
  BY <1>11 DEF RenderJUnit
<1>12. CASE Upload
  BY <1>12 DEF Upload
<1>13. CASE WriteSummary
  BY <1>13 DEF WriteSummary
<1>14. CASE SetOutputs
  BY <1>14 DEF SetOutputs
<1>15. CASE WriteReceipt
  BY <1>15 DEF WriteReceipt
<1>16. CASE Verdict
  BY <1>16 DEF Verdict
<1>17. CASE Killed
  BY <1>17 DEF Killed
<1>18. CASE UNCHANGED vars
  BY <1>18 DEF vars
<1> QED
  BY <1>1, <1>2, <1>3, <1>4, <1>5, <1>6, <1>7, <1>8, <1>9, <1>10, <1>11, <1>12, <1>13,
     <1>14, <1>15, <1>16, <1>17, <1>18 DEF Next, Stage

(* Outputs are set in one place for each end of run().                      *)
LEMMA OutputsStep == TypeOK /\ EngineInv /\ OutputsInv /\ [Next]_vars => OutputsInv'
<1> SUFFICES ASSUME TypeOK, EngineInv, OutputsInv, [Next]_vars PROVE OutputsInv'
  OBVIOUS
<1> USE ActionAssumption
    DEF TypeOK, EngineInv, OutputsInv, OutputNames, BeforeEngine, BeforeReport, WithReport,
        BeforeSummary, AfterSummary, Goto, Proceed, SetFailed, ReturnFailed, ReportWritten,
        engineVars
<1>1. CASE ReadInputs
  BY <1>1 DEF ReadInputs
<1>2. CASE ValidateFixturesDir
  BY <1>2, HandleStep DEF ValidateFixturesDir
<1>3. CASE LoadBaseline
  BY <1>3 DEF LoadBaseline
<1>4. CASE ScopeGate
  BY <1>4 DEF ScopeGate
<1>5. CASE InstallEngine
  <2>1. stage' \in BeforeSummary => ~failed' /\ summary' = "none"
    BY <1>5, HandleStep DEF InstallEngine
  <2>2. stage' \in AfterSummary =>
          summary' \in {"report", "lost"} /\ (failed' <=> summary' = "lost")
    BY <1>5, HandleStep DEF InstallEngine
  <2>3. stage' \in BeforeSummary \cup {"outputs"} =>
          \A o \in OutputNames \ {"junit-report-path"} : outputs'[o] = "unset"
    BY <1>5, HandleStep DEF InstallEngine
  <2>4. stage' \in BeforeReport \cup {"compare", "junit"} =>
          outputs'["junit-report-path"] = "unset"
    BY <1>5, HandleStep DEF InstallEngine
  <2>5. stage' \in {"receipt", "verdict"} =>
          /\ outputs'["status"] = report'
          /\ \A o \in OutputNames \ {"report", "receipt-path", "junit-report-path"} :
                outputs'[o] # "unset"
    BY <1>5, HandleStep DEF InstallEngine
  <2> QED
    BY <2>1, <2>2, <2>3, <2>4, <2>5
<1>6. CASE RunEngine
  BY <1>6 DEF RunEngine
<1>7. CASE EngineRejected
  BY <1>7, HandleStep DEF EngineRejected
<1>8. CASE EngineResolved
  BY <1>8 DEF EngineResolved
<1>9. CASE InterpretExit
  BY <1>9, HandleStep DEF InterpretExit
<1>10. CASE CompareBaseline
  <2>1. stage' \in BeforeSummary => ~failed' /\ summary' = "none"
    BY <1>10 DEF CompareBaseline
  <2>2. stage' \in AfterSummary =>
          summary' \in {"report", "lost"} /\ (failed' <=> summary' = "lost")
    BY <1>10 DEF CompareBaseline
  <2>3. stage' \in BeforeSummary \cup {"outputs"} =>
          \A o \in OutputNames \ {"junit-report-path"} : outputs'[o] = "unset"
    BY <1>10 DEF CompareBaseline
  <2>4. stage' \in BeforeReport \cup {"compare", "junit"} =>
          outputs'["junit-report-path"] = "unset"
    BY <1>10 DEF CompareBaseline
  <2>5. stage' \in {"receipt", "verdict"} =>
          /\ outputs'["status"] = report'
          /\ \A o \in OutputNames \ {"report", "receipt-path", "junit-report-path"} :
                outputs'[o] # "unset"
    BY <1>10 DEF CompareBaseline
  <2> QED
    BY <2>1, <2>2, <2>3, <2>4, <2>5
<1>11. CASE RenderJUnit
  <2>1. stage' \in BeforeSummary => ~failed' /\ summary' = "none"
    BY <1>11 DEF RenderJUnit
  <2>2. stage' \in AfterSummary =>
          summary' \in {"report", "lost"} /\ (failed' <=> summary' = "lost")
    BY <1>11 DEF RenderJUnit
  <2>3. stage' \in BeforeSummary \cup {"outputs"} =>
          \A o \in OutputNames \ {"junit-report-path"} : outputs'[o] = "unset"
    BY <1>11 DEF RenderJUnit
  <2>4. stage' \in BeforeReport \cup {"compare", "junit"} =>
          outputs'["junit-report-path"] = "unset"
    BY <1>11 DEF RenderJUnit
  <2>5. stage' \in {"receipt", "verdict"} =>
          /\ outputs'["status"] = report'
          /\ \A o \in OutputNames \ {"report", "receipt-path", "junit-report-path"} :
                outputs'[o] # "unset"
    BY <1>11 DEF RenderJUnit
  <2> QED
    BY <2>1, <2>2, <2>3, <2>4, <2>5
<1>12. CASE Upload
  BY <1>12 DEF Upload
<1>13. CASE WriteSummary
  <2>1. stage' \in BeforeSummary => ~failed' /\ summary' = "none"
    BY <1>13 DEF WriteSummary
  <2>2. stage' \in AfterSummary =>
          summary' \in {"report", "lost"} /\ (failed' <=> summary' = "lost")
    BY <1>13 DEF WriteSummary
  <2>3. stage' \in BeforeSummary \cup {"outputs"} =>
          \A o \in OutputNames \ {"junit-report-path"} : outputs'[o] = "unset"
    BY <1>13 DEF WriteSummary
  <2>4. stage' \in BeforeReport \cup {"compare", "junit"} =>
          outputs'["junit-report-path"] = "unset"
    BY <1>13 DEF WriteSummary
  <2>5. stage' \in {"receipt", "verdict"} =>
          /\ outputs'["status"] = report'
          /\ \A o \in OutputNames \ {"report", "receipt-path", "junit-report-path"} :
                outputs'[o] # "unset"
    BY <1>13 DEF WriteSummary
  <2> QED
    BY <2>1, <2>2, <2>3, <2>4, <2>5
<1>14. CASE SetOutputs
  BY <1>14 DEF SetOutputs
<1>15. CASE WriteReceipt
  BY <1>15 DEF WriteReceipt
<1>16. CASE Verdict
  BY <1>16 DEF Verdict
<1>17. CASE Killed
  BY <1>17 DEF Killed
<1>18. CASE UNCHANGED vars
  BY <1>18 DEF vars
<1> QED
  BY <1>1, <1>2, <1>3, <1>4, <1>5, <1>6, <1>7, <1>8, <1>9, <1>10, <1>11, <1>12, <1>13,
     <1>14, <1>15, <1>16, <1>17, <1>18 DEF Next, Stage

(* No status is published before the outputs are set.                       *)
LEMMA NoStatusYet ==
    ASSUME OutputsInv, stage \in BeforeSummary PROVE outputs["status"] \notin Statuses
BY ActionAssumption DEF OutputsInv, OutputNames

(* The promises follow from the invariant before the step.                  *)
LEMMA PromisesStep == IInv /\ [Next]_vars => Promises'
<1> SUFFICES ASSUME IInv, [Next]_vars PROVE Promises'
  OBVIOUS
<1> USE ActionAssumption
    DEF IInv, TypeOK, EngineInv, FilesInv, OutputsInv, Promises, OutputNames, GreenIsEarned,
        AuxiliaryNeverDecides, ExecutionFailedIsUnmistakable, OutputsPointAtWholeFiles,
        ExitCodeIsAuthoritative, BeforeEngine, BeforeReport, WithReport, BeforeSummary,
        AfterSummary, Goto, Proceed, SetFailed, ReturnFailed, ReportWritten, engineVars
<1>1. CASE ReadInputs
  BY <1>1, NoStatusYet DEF ReadInputs
<1>2. CASE ValidateFixturesDir
  BY <1>2, HandleStep DEF ValidateFixturesDir
<1>3. CASE LoadBaseline
  BY <1>3, NoStatusYet DEF LoadBaseline
<1>4. CASE ScopeGate
  BY <1>4, NoStatusYet DEF ScopeGate
<1>5. CASE InstallEngine
  <2>1. GreenIsEarned'
    BY <1>5, HandleStep DEF InstallEngine
  <2>2. AuxiliaryNeverDecides'
    BY <1>5, HandleStep DEF InstallEngine
  <2>3. ExecutionFailedIsUnmistakable'
    BY <1>5, HandleStep DEF InstallEngine
  <2>4. OutputsPointAtWholeFiles'
    BY <1>5, HandleStep DEF InstallEngine
  <2>5. ExitCodeIsAuthoritative'
    BY <1>5, HandleStep DEF InstallEngine
  <2> QED
    BY <2>1, <2>2, <2>3, <2>4, <2>5
<1>6. CASE RunEngine
  BY <1>6 DEF RunEngine
<1>7. CASE EngineRejected
  BY <1>7, HandleStep DEF EngineRejected
<1>8. CASE EngineResolved
  BY <1>8 DEF EngineResolved
<1>9. CASE InterpretExit
  <2>1. GreenIsEarned'
    BY <1>9, HandleStep DEF InterpretExit
  <2>2. AuxiliaryNeverDecides'
    BY <1>9, HandleStep DEF InterpretExit
  <2>3. ExecutionFailedIsUnmistakable'
    BY <1>9, HandleStep DEF InterpretExit
  <2>4. OutputsPointAtWholeFiles'
    BY <1>9, HandleStep DEF InterpretExit
  <2>5. ExitCodeIsAuthoritative'
    BY <1>9, HandleStep DEF InterpretExit
  <2> QED
    BY <2>1, <2>2, <2>3, <2>4, <2>5
<1>10. CASE CompareBaseline
  <2>1. GreenIsEarned'
    BY <1>10 DEF CompareBaseline
  <2>2. AuxiliaryNeverDecides'
    BY <1>10 DEF CompareBaseline
  <2>3. ExecutionFailedIsUnmistakable'
    BY <1>10 DEF CompareBaseline
  <2>4. OutputsPointAtWholeFiles'
    BY <1>10 DEF CompareBaseline
  <2>5. ExitCodeIsAuthoritative'
    BY <1>10, NoStatusYet DEF CompareBaseline
  <2> QED
    BY <2>1, <2>2, <2>3, <2>4, <2>5
<1>11. CASE RenderJUnit
  BY <1>11 DEF RenderJUnit
<1>12. CASE Upload
  BY <1>12 DEF Upload
<1>13. CASE WriteSummary
  BY <1>13 DEF WriteSummary
<1>14. CASE SetOutputs
  BY <1>14 DEF SetOutputs
<1>15. CASE WriteReceipt
  BY <1>15 DEF WriteReceipt
<1>16. CASE Verdict
  BY <1>16 DEF Verdict
<1>17. CASE Killed
  BY <1>17 DEF Killed
<1>18. CASE UNCHANGED vars
  BY <1>18 DEF vars
<1> QED
  BY <1>1, <1>2, <1>3, <1>4, <1>5, <1>6, <1>7, <1>8, <1>9, <1>10, <1>11, <1>12, <1>13,
     <1>14, <1>15, <1>16, <1>17, <1>18 DEF Next, Stage

(* run() begins with nothing done and nothing said.                         *)
LEMMA InitIInv == Init => IInv
<1> SUFFICES ASSUME Init PROVE IInv
  OBVIOUS
<1> USE ActionAssumption DEF Init, Engine!Init, OutputNames, OutputValues, BeforeEngine, BeforeReport, WithReport, BeforeSummary, AfterSummary
<1>1. TypeOK
  BY DEF TypeOK, Engine!TypeOK
<1>2. EngineInv /\ FilesInv /\ OutputsInv
  BY DEF EngineInv, FilesInv, OutputsInv
<1>3. Promises
  BY DEF Promises, GreenIsEarned, AuxiliaryNeverDecides, ExecutionFailedIsUnmistakable, OutputsPointAtWholeFiles, ExitCodeIsAuthoritative
<1> QED
  BY <1>1, <1>2, <1>3 DEF IInv

(* Every step keeps every part.                                             *)
LEMMA StepIInv == IInv /\ [Next]_vars => IInv'
BY TypeStep, EngineInvStep, FilesStep, OutputsStep, PromisesStep DEF IInv

(* All of the above holds in every state of run().                          *)
THEOREM Invariance == Spec => []IInv
<1>1. Init => IInv
  BY InitIInv
<1>2. IInv /\ [Next]_vars => IInv'
  BY StepIInv
<1> QED
  BY <1>1, <1>2, PTL DEF Spec

(* Type correctness, for every set of inputs and statuses.                  *)
THEOREM TypeCorrect == Spec => []TypeOK
<1>1. IInv => TypeOK
  BY DEF IInv
<1> QED
  BY <1>1, Invariance, PTL

(* No path through run() reaches green without a report and exit code 0.    *)
THEOREM GreenIsEarnedHolds == Spec => []GreenIsEarned
<1>1. IInv => GreenIsEarned
  BY DEF IInv, Promises
<1> QED
  BY <1>1, Invariance, PTL

(* No failure of a file, artifact or receipt reaches the conclusion.        *)
THEOREM AuxiliaryNeverDecidesHolds == Spec => []AuxiliaryNeverDecides
<1>1. IInv => AuxiliaryNeverDecides
  BY DEF IInv, Promises
<1> QED
  BY <1>1, Invariance, PTL

(* execution-failed is never mixed with the outputs of a report.            *)
THEOREM ExecutionFailedIsUnmistakableHolds == Spec => []ExecutionFailedIsUnmistakable
<1>1. IInv => ExecutionFailedIsUnmistakable
  BY DEF IInv, Promises
<1> QED
  BY <1>1, Invariance, PTL

(* Every path and artifact output names something whole.                    *)
THEOREM OutputsPointAtWholeFilesHolds == Spec => []OutputsPointAtWholeFiles
<1>1. IInv => OutputsPointAtWholeFiles
  BY DEF IInv, Promises
<1> QED
  BY <1>1, Invariance, PTL

(* A published status comes with the conclusion of the exit code.           *)
THEOREM ExitCodeIsAuthoritativeHolds == Spec => []ExitCodeIsAuthoritative
<1>1. IInv => ExitCodeIsAuthoritative
  BY DEF IInv, Promises
<1> QED
  BY <1>1, Invariance, PTL

(* The conclusion is the engine's exit code's, whatever the report says and   *)
(* whatever befalls annotations, summary, baseline, comment and upload.     *)
THEOREM ExitCodeDecidesHolds == Spec => []ExitCodeDecides
<1> QED
  BY ExitCodeIsAuthoritativeHolds, AuxiliaryNeverDecidesHolds, PTL DEF ExitCodeDecides
-----------------------------------------------------------------------------
(* CheckInputs: what the inputs are and do                                  *)

(* CheckInputs only adds to two of the stages: all of the above holds of it. *)
THEOREM InputsRefineRun == InputsSpec => Spec
<1>1. InputsInit => Init
  BY DEF InputsInit
<1>2. [InputsNext]_allVars => [Next]_vars
  BY DEF InputsNext, GetsInputs, Installs, OtherStage, Next, Stage, allVars
<1> QED
  BY <1>1, <1>2, PTL DEF InputsSpec, Spec

(* What was read is what the later stages work with.                        *)
InputsInv ==
    /\ workflow \in Workflows
    /\ inputs.valid <=> GetInputs = "none"
    /\ inputs.gated <=> ScopeGateFails
    /\ stage \notin {"inputs", "ended", "killed"} => inputs.valid
    /\ stage \notin {"inputs", "fixtures", "baseline", "gate", "ended", "killed"} => ~inputs.gated

(* The environment and the masks are those of accepted inputs.              *)
EnvInv ==
    env # None =>
        GetInputs = "none" /\ env = [names |-> BuildChildEnvironment] /\ masked = Masks

(* The engine is started with the arguments of accepted inputs, and after   *)
(* the notes.                                                               *)
ArgvInv ==
    /\ argv # {} => argv = BuildCheckArgs /\ inputs.valid /\ ~inputs.gated
    /\ notes \cap Gated \subseteq SkipNotes
    /\ stage = "check" \/ call # "idle" =>
          argv = BuildCheckArgs /\ SkipNotes \subseteq notes

InputsIInv == IInv /\ InputsInv /\ EnvInv /\ ArgvInv

(* Accepted inputs were all accepted, and none undecodable.                 *)
LEMMA AllAccepted ==
    ASSUME GetInputs = "none"
    PROVE  /\ \A n \in InputNames : ReadUpTo(n) /\ Accepts(n)
           /\ ~Undecodable /\ ~Conflict
<1>1. ReadUpTo("pr-comment") /\ ~Conflict /\ ~(ReadUpTo("rpc-url") /\ Undecodable)
  BY DEF GetInputs
<1>2. DOMAIN ParseOrder = 1..34 /\ Len(ParseOrder) = 34 /\ ParseOrder[34] = "pr-comment"
  BY DEF ParseOrder
<1>3. \A i \in DOMAIN ParseOrder : Accepts(ParseOrder[i])
  BY <1>1, <1>2 DEF ReadUpTo
<1>4. \A n \in InputNames : ReadUpTo(n) /\ Accepts(n)
  BY <1>3 DEF ReadUpTo, InputNames
<1>5. ReadUpTo("rpc-url")
  BY <1>3 DEF ReadUpTo
<1> QED
  BY <1>1, <1>4, <1>5

(* Nothing is said or set before the inputs are read.                       *)
LEMMA InputsInitInv == InputsInit => InputsIInv
<1> SUFFICES ASSUME InputsInit PROVE InputsIInv
  OBVIOUS
<1>1. IInv /\ stage = "inputs" /\ call = "idle"
  BY InitIInv DEF InputsInit, Init, Engine!Init
<1>2. InputsInv
  BY <1>1 DEF InputsInit, InputsInv
<1>3. EnvInv /\ ArgvInv
  BY <1>1 DEF InputsInit, EnvInv, ArgvInv
<1> QED
  BY <1>1, <1>2, <1>3 DEF InputsIInv

(* What is asked and said depends on the workflow alone, which stays.       *)
LEMMA SameWorkflow ==
    ASSUME workflow' = workflow
    PROVE  /\ GetInputs' = GetInputs /\ (ScopeGateFails' <=> ScopeGateFails)
           /\ BuildChildEnvironment' = BuildChildEnvironment /\ Masks' = Masks
           /\ BuildCheckArgs' = BuildCheckArgs /\ SkipNotes' = SkipNotes
  BY DEF GetInputs, ScopeGateFails, BuildChildEnvironment, Masks, BuildCheckArgs, SkipNotes,
         ReadUpTo, Undecodable, Conflict, Accepts, Given, Set, ParseEngineEnvPassthrough, Same,
         IsDeniedEnvName, IsAllowedEnvName, AllowedNames, Found, GithubToken, EngineSupportsScope

(* The inputs stay what was read.                                           *)
LEMMA InputsStep == InputsInv /\ [InputsNext]_allVars => InputsInv'
<1> SUFFICES ASSUME InputsInv, [InputsNext]_allVars PROVE InputsInv'
  OBVIOUS
<1>1. workflow' = workflow
  BY DEF InputsNext, GetsInputs, Installs, OtherStage, inputVars, allVars
<1>2. [Next]_vars
  BY DEF InputsNext, GetsInputs, Installs, OtherStage, Next, Stage, allVars
<1>3. inputs' = inputs
  BY <1>2 DEF Next, Stage, vars, ReadInputs, ValidateFixturesDir, LoadBaseline, ScopeGate,
              InstallEngine, RunEngine, EngineRejected, EngineResolved, InterpretExit,
              CompareBaseline, RenderJUnit, Upload, WriteSummary, SetOutputs, WriteReceipt,
              Verdict, Killed
<1>4. /\ stage' \notin {"inputs", "ended", "killed"} => inputs.valid
      /\ stage' \notin {"inputs", "fixtures", "baseline", "gate", "ended", "killed"} => ~inputs.gated
  BY <1>2 DEF InputsInv, Next, Stage, vars, ReadInputs, ValidateFixturesDir, LoadBaseline,
              ScopeGate, InstallEngine, RunEngine, EngineRejected, EngineResolved, InterpretExit,
              CompareBaseline, RenderJUnit, Upload, WriteSummary, SetOutputs, WriteReceipt,
              Verdict, Killed, HandleExecutionFailure, Goto, Proceed, ReturnFailed
<1> QED
  BY <1>1, <1>3, <1>4, SameWorkflow DEF InputsInv
(* The environment is built from the inputs that were accepted.             *)
LEMMA EnvStep == EnvInv /\ [InputsNext]_allVars => EnvInv'
<1> SUFFICES ASSUME EnvInv, [InputsNext]_allVars PROVE EnvInv'
  OBVIOUS
<1>1. workflow' = workflow
  BY DEF InputsNext, GetsInputs, Installs, OtherStage, inputVars, allVars
<1>2. CASE GetsInputs
  BY <1>1, <1>2, SameWorkflow DEF EnvInv, GetsInputs
<1>3. CASE UNCHANGED <<env, masked>>
  BY <1>1, <1>3, SameWorkflow DEF EnvInv
<1> QED
  BY <1>2, <1>3 DEF InputsNext, Installs, OtherStage, inputVars, allVars

(* The notes on inputs that are not flags are about other inputs.           *)
LEMMA NotesApart == InputNotes \cap Gated = {} /\ "version" \notin Gated
  BY DEF InputNotes, Gated

(* The engine's arguments.                                                  *)
LEMMA ArgvStep == InputsIInv /\ [InputsNext]_allVars => ArgvInv'
<1> SUFFICES ASSUME InputsIInv, [InputsNext]_allVars PROVE ArgvInv'
  OBVIOUS
<1>1. workflow' = workflow
  BY DEF InputsNext, GetsInputs, Installs, OtherStage, inputVars, allVars
<1>2. /\ BuildCheckArgs' = BuildCheckArgs /\ SkipNotes' = SkipNotes
  BY <1>1, SameWorkflow
<1>3. CASE GetsInputs
  <2>1. /\ call = "idle" /\ call' = call /\ inputs' = inputs /\ argv' = argv
        /\ stage' \in {"fixtures", "ended"}
    BY <1>3 DEF GetsInputs, ReadInputs, InputsIInv, IInv, EngineInv, BeforeEngine, Proceed,
                ReturnFailed, Goto, engineVars
  <2>2. notes' \cap Gated = {}
    BY <1>3, NotesApart DEF GetsInputs
  <2> QED
    BY <1>2, <2>1, <2>2 DEF ArgvInv, InputsIInv
<1>4. CASE Installs
  <2>1. /\ stage = "install" /\ call = "idle" /\ call' = call /\ inputs' = inputs
        /\ inputs.valid /\ ~inputs.gated
    BY <1>4 DEF Installs, InstallEngine, InputsIInv, IInv, EngineInv, InputsInv, BeforeEngine,
                engineVars
  <2>2. /\ argv' = IF stage' = "check" THEN BuildCheckArgs ELSE {}
        /\ notes' \subseteq notes \cup {"version"} \cup SkipNotes
        /\ stage' = "check" => SkipNotes \subseteq notes'
    BY <1>4 DEF Installs
  <2>3. notes' \cap Gated \subseteq SkipNotes
    BY <2>2, NotesApart DEF InputsIInv, ArgvInv
  <2> QED
    BY <1>2, <2>1, <2>2, <2>3 DEF ArgvInv
<1>5. CASE OtherStage \/ (Killed /\ UNCHANGED inputVars) \/ UNCHANGED allVars
  <2>1. argv' = argv /\ notes' = notes
    BY <1>5 DEF OtherStage, inputVars, allVars
  <2>2. inputs' = inputs
    BY <1>5 DEF OtherStage, Stage, vars, allVars, ReadInputs, ValidateFixturesDir, LoadBaseline,
                ScopeGate, InstallEngine, RunEngine, EngineRejected, EngineResolved,
                InterpretExit, CompareBaseline, RenderJUnit, Upload, WriteSummary, SetOutputs,
                WriteReceipt, Verdict, Killed
  <2>3. stage' = "check" \/ call' # "idle" => stage = "check" \/ call # "idle"
    BY <1>5 DEF OtherStage, Stage, vars, allVars, engineVars, ReadInputs, ValidateFixturesDir,
                LoadBaseline, ScopeGate, InstallEngine, RunEngine, EngineRejected, EngineResolved,
                InterpretExit, CompareBaseline, RenderJUnit, Upload, WriteSummary, SetOutputs,
                WriteReceipt, Verdict, Killed, HandleExecutionFailure, Goto, Proceed, ReturnFailed
  <2> QED
    BY <1>2, <2>1, <2>2, <2>3 DEF ArgvInv, InputsIInv
<1> QED
  BY <1>3, <1>4, <1>5 DEF InputsNext

(* The inductive invariant of the inputs and all that follows from them.    *)
THEOREM InputsInvariance == InputsSpec => []InputsIInv
<1>1. InputsInit => InputsIInv
  BY InputsInitInv
<1>2. InputsIInv /\ [InputsNext]_allVars => InputsIInv'
  <2> SUFFICES ASSUME InputsIInv, [InputsNext]_allVars PROVE InputsIInv'
    OBVIOUS
  <2>1. [Next]_vars
    BY DEF InputsNext, GetsInputs, Installs, OtherStage, Next, Stage, allVars
  <2>2. IInv'
    BY <2>1, StepIInv DEF InputsIInv
  <2> QED
    BY <2>2, InputsStep, EnvStep, ArgvStep DEF InputsIInv
<1> QED
  BY <1>1, <1>2, PTL DEF InputsSpec

(* No denied name reaches a child in any spelling, what is asked for by name *)
(* does, and every secret is masked before: buildChildEnvironment and       *)
(* maskRpcUrlSecrets, for all lists of names and all environments.          *)
THEOREM SecretsStayInsideHolds == InputsSpec => []SecretsStayInside
<1>1. InputsIInv => SecretsStayInside
  <2> SUFFICES ASSUME InputsIInv, env # None PROVE SecretsStayInside
    BY DEF SecretsStayInside
  <2>1. GetInputs = "none" /\ env.names = BuildChildEnvironment /\ masked = Masks
    BY DEF InputsIInv, EnvInv
  <2>2. /\ \A n \in InputNames : ReadUpTo(n)
        /\ ~Undecodable
    BY <2>1, AllAccepted
  <2>3. ReadUpTo("rpc-url") /\ ReadUpTo("engine-env-passthrough")
    BY <2>2 DEF InputNames, ParseOrder
  <2>4. /\ Given("rpc-url") = "secret" => "rpc-url" \in masked
        /\ GithubToken # "none" => "token" \in masked
        /\ Set("network-passphrase") => "network-passphrase" \in masked
    BY <2>1, <2>2, <2>3 DEF Masks
  <2>5. /\ workflow \in Workflows /\ workflow \in WorkflowSpace
        /\ workflow.platform = "win32" =>
              \A n, m \in workflow.source : n.word = m.word => n = m
    BY InputsAssumption DEF InputsIInv, InputsInv
  <2>6. ASSUME NEW n \in workflow.source
        PROVE  n \in BuildChildEnvironment <=>
                  /\ n.word \notin DeniedWords
                  /\ \/ IsAllowedEnvName(n)
                     \/ \E i \in DOMAIN workflow.asked : Same(n, workflow.asked[i])
    <3>1. ASSUME NEW i \in DOMAIN workflow.asked
          PROVE  n \in Found(workflow.asked[i]) <=> Same(n, workflow.asked[i])
      BY <2>5 DEF Found, Same
    <3>2. ASSUME NEW i \in DOMAIN workflow.asked, Same(n, workflow.asked[i])
          PROVE  IsDeniedEnvName(workflow.asked[i]) <=> n.word \in DeniedWords
      BY <3>2 DEF Same, IsDeniedEnvName
    <3>3. n \in BuildChildEnvironment <=>
             \/ IsAllowedEnvName(n) /\ n.word \notin DeniedWords
             \/ \E i \in DOMAIN workflow.asked :
                   ~IsDeniedEnvName(workflow.asked[i]) /\ n \in Found(workflow.asked[i])
      BY DEF BuildChildEnvironment, AllowedNames, IsDeniedEnvName
    <3> QED
      BY <3>1, <3>2, <3>3
  <2>7. BuildChildEnvironment \subseteq workflow.source
    BY DEF BuildChildEnvironment, AllowedNames, Found
  <2> QED
    BY <2>1, <2>4, <2>6, <2>7 DEF SecretsStayInside
<1> QED
  BY <1>1, InputsInvariance, PTL

(* The gates let through what a release accepts, and nothing else.          *)
LEMMA GatesAreRight ==
    ASSUME NEW v \in Nat \X Nat \X Nat, v[1] < 999999999, NEW n \in Gated
    PROVE  EngineAtLeast(v, MinVersion(n)) <=> n \in AcceptedBy(v)
<1>1. v[1] \in Nat /\ v[2] \in Nat /\ v[3] \in Nat /\ v = <<v[1], v[2], v[3]>>
  OBVIOUS
<1>2. ASSUME NEW a \in Nat, NEW b \in Nat, NEW c \in Nat
      PROVE  EngineAtLeast(v, <<a, b, c>>) <=>
                \/ v[1] > a
                \/ v[1] = a /\ v[2] > b
                \/ v[1] = a /\ v[2] = b /\ v[3] >= c
  BY <1>1 DEF EngineAtLeast
<1>3. CASE n \in {"network-passphrase", "rpc-max-retries", "rpc-retry-delay-ms"}
  <2>1. MinVersion(n) = <<0, 3, 0>>
    BY <1>3 DEF MinVersion
  <2> QED
    BY <1>1, <1>2, <1>3, <2>1 DEF AcceptedBy
<1>4. CASE n \in {"fail-on-warning", "offline"}
  <2>1. MinVersion(n) = <<999999999, 0, 0>>
    BY <1>4 DEF MinVersion
  <2> QED
    BY <1>1, <1>2, <1>4, <2>1 DEF AcceptedBy
<1>5. CASE n \in {"allow-empty", "rpc-timeout-seconds", "max-concurrency", "no-cache",
                  "live-cache-ttl-seconds"}
  <2>1. MinVersion(n) = <<0, 2, 0>>
    BY <1>5 DEF MinVersion
  <2> QED
    BY <1>1, <1>2, <1>5, <2>1 DEF AcceptedBy
<1> QED
  BY <1>3, <1>4, <1>5 DEF Gated

(* An engine that is started gets the flags its release accepts, no two that *)
(* conflict, and every input meant for it or a note: buildCheckArgs and the  *)
(* gates, for every workflow and release.                                    *)
THEOREM EngineIsAskedAsMeantHolds == InputsSpec => []EngineIsAskedAsMeant
<1>1. InputsIInv => EngineIsAskedAsMeant
  <2> SUFFICES ASSUME InputsIInv PROVE EngineIsAskedAsMeant
    OBVIOUS
  <2>1. /\ workflow \in WorkflowSpace /\ workflow.release[1] < 999999999
    BY InputsAssumption DEF InputsIInv, InputsInv
  <2>2. workflow.release \in Nat \X Nat \X Nat
    BY <2>1 DEF WorkflowSpace
  <2>3. \A n \in Gated : EngineAtLeast(workflow.release, MinVersion(n)) <=>
                           n \in AcceptedBy(workflow.release)
    BY <2>1, <2>2, GatesAreRight
  <2>4. inputs.valid => GetInputs = "none"
    BY DEF InputsIInv, InputsInv
  <2>5. ~inputs.gated => \A n \in Scope : ~Set(n)
    BY DEF InputsIInv, InputsInv, ScopeGateFails, EngineSupportsScope
  <2>6. argv # {} => GetInputs = "none" /\ argv = BuildCheckArgs /\ \A n \in Scope : ~Set(n)
    BY <2>4, <2>5 DEF InputsIInv, ArgvInv
  <2>7. argv \subseteq AcceptedBy(workflow.release) \cup {"working-directory"}
    BY <2>3, <2>6 DEF BuildCheckArgs, Plain, AcceptedBy
  <2>8. ~({"no-cache", "live-cache-ttl-seconds"} \subseteq argv)
    <3> SUFFICES ASSUME "no-cache" \in argv, "live-cache-ttl-seconds" \in argv PROVE FALSE
      OBVIOUS
    <3>1. Set("no-cache") /\ Set("live-cache-ttl-seconds")
      BY <2>6 DEF BuildCheckArgs, Plain, Scope, Filters
    <3>2. ~Conflict /\ Accepts("no-cache")
      BY <2>6, AllAccepted DEF InputNames, ParseOrder
    <3>3. Given("no-cache") \in {"unset", "true", "false"}
      <4>1. "no-cache" \notin Integers /\ "no-cache" \in Booleans /\ "no-cache" \notin Filters
        BY DEF Integers, Booleans, Filters
      <4>2. Accepts("no-cache") <=> ParseBoolean(Given("no-cache"))
        BY <4>1 DEF Accepts
      <4> QED
        BY <3>2, <4>2 DEF ParseBoolean
    <3> QED
      BY <3>1, <3>2, <3>3 DEF Set, Conflict
  <2>9. \A n \in notes \cap Gated : n \notin AcceptedBy(workflow.release)
    BY <2>3 DEF InputsIInv, ArgvInv, SkipNotes
  <2>10. ASSUME call # "idle", NEW n \in Plain \cup Gated \cup Scope, Set(n)
         PROVE  n \in argv \/ n \in notes \ Scope
    <3>1. argv = BuildCheckArgs /\ SkipNotes \subseteq notes /\ Gated \cap Scope = {}
      BY <2>10 DEF InputsIInv, ArgvInv, Gated, Scope, Filters
    <3> QED
      BY <2>10, <3>1 DEF BuildCheckArgs, SkipNotes
  <2> QED
    BY <2>7, <2>8, <2>9, <2>10 DEF EngineIsAskedAsMeant
<1> QED
  BY <1>1, InputsInvariance, PTL
=============================================================================

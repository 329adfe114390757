----------------------------- MODULE CheckInputs ------------------------------
(***************************************************************************)
(* What one invocation (see ActionRun) makes of its inputs: getInputs and  *)
(* its parsers (src/inputs.ts), the environment its children are given     *)
(* (src/child-env.ts), the arguments the engine is run with, and the gates *)
(* by the engine's release (src/runner.ts, src/version.ts).                *)
(*                                                                         *)
(* A given value is the class its parser puts it in; an input that is not  *)
(* given, empty, or has its default is "unset".  The name of an input also *)
(* stands for the flag it becomes.                                         *)
(***************************************************************************)
EXTENDS ActionRun, Sequences

CONSTANTS
    Workflows,     \* the invocations considered: a subset of WorkflowSpace
    Words,         \* names of environment variables, whatever their case
    AllowedWords,  \* ALLOWED_ENV_NAMES and ALLOWED_ENV_PREFIXES
    DeniedWords,   \* DENIED_ENV_NAMES, _PREFIXES and _SUBSTRINGS
    MaxNames,      \* MAX_PASSTHROUGH_NAMES
    None

Integers == {"protocol", "rpc-max-retries", "rpc-retry-delay-ms", "timeout-minutes",
             "rpc-timeout-seconds", "max-concurrency", "live-cache-ttl-seconds",
             "fixtures-pack-protocol", "report-retention-days"}
Booleans == {"upload-report", "annotations", "diagnostics", "allow-empty", "no-cache",
             "fail-on-warning", "offline", "generate-receipt", "junit-report",
             "strict-integrity", "pr-comment"}
Filters == {"fixture", "cache-dir"}
Scope == Filters \cup {"surface"}

(* in the order getInputs reads them *)
ParseOrder ==
    <<"protocol", "config", "working-directory", "network", "network-passphrase", "rpc-url",
      "rpc-max-retries", "rpc-retry-delay-ms", "fixtures-dir", "fixture", "surface", "cache-dir",
      "version", "upload-report", "annotations", "diagnostics", "timeout-minutes", "allow-empty",
      "rpc-timeout-seconds", "max-concurrency", "no-cache", "live-cache-ttl-seconds",
      "fail-on-warning", "offline", "fixtures-pack-version", "fixtures-pack-protocol",
      "baseline-report", "github-token", "engine-env-passthrough", "generate-receipt",
      "report-retention-days", "junit-report", "strict-integrity", "pr-comment">>
InputNames == {ParseOrder[i] : i \in DOMAIN ParseOrder}

Values(n) ==
    CASE n \in Integers -> {"unset", "in range", "out of range", "not digits"}
      [] n \in Booleans -> {"unset", "true", "false", "other"}
      [] n = "config" -> {"unset", "file", "directory", "missing"}
      [] n = "baseline-report" -> {"unset", "report", "other file", "directory", "missing"}
      [] n = "working-directory" -> {"unset", "directory", "file", "missing"}
      [] n = "fixtures-dir" -> {"directory", "file", "missing"}
      [] n \in Filters -> {"unset", "text", "control characters"}
      [] n = "surface" -> {"unset", "surface", "other"}
      [] n = "network-passphrase" -> {"unset", "text", "empty", "control characters"}
      [] n = "rpc-url" -> {"unset", "plain", "secret", "percent", "http", "unparseable"}
      [] n = "version" -> {"release", "other"}
      [] n = "fixtures-pack-version" -> {"unset", "tag", "other"}
      [] n = "engine-env-passthrough" -> {"names", "malformed"}
      [] OTHER -> {"unset", "text"}

EnvNames == [word : Words, form : {"upper", "lower"}]

(* release: what "version" parses to, major, minor and patch; envToken:     *)
(* GITHUB_TOKEN; source: the environment of the Action; asked: the names in *)
(* engine-env-passthrough                                                   *)
WorkflowSpace ==
    [given : {g \in [InputNames -> UNION {Values(n) : n \in InputNames}] :
                 \A n \in InputNames : g[n] \in Values(n)},
     release : Nat \X Nat \X Nat, envToken : BOOLEAN,
     platform : {"linux", "win32"}, source : SUBSET EnvNames, asked : Seq(EnvNames)]

ASSUME InputsAssumption ==
    /\ AllowedWords \subseteq Words /\ DeniedWords \subseteq Words
    /\ MaxNames \in Nat
    /\ Inputs = InputSpace
    /\ Workflows \subseteq WorkflowSpace
    /\ \A w \in Workflows :
          /\ w.release[1] < 999999999   \* which stands for "no release yet"
          /\ w.platform = "win32" => \A n, m \in w.source : n.word = m.word => n = m

VARIABLES
    workflow,
    problem,       \* what getInputs throws: "none", "InvalidInputError", ...
    masked,        \* what is registered with core.setSecret
    env,           \* what children are given, None before it is built
    argv,          \* the inputs whose flags the engine is run with
    notes          \* the inputs the log says are not forwarded, or warns of

inputVars == <<workflow, problem, masked, env, argv, notes>>
allVars == <<vars, inputVars>>

Given(n) == workflow.given[n]
Set(n) == Given(n) \notin {"unset", "false"}

-----------------------------------------------------------------------------
(* The parsers of src/inputs.ts: which values they accept                   *)

ParseInteger(v) == v \in {"unset", "in range"}
ParseBoolean(v) == v \in {"unset", "true", "false"}
ParseConfig(v) == v \in {"unset", "file"}
ParseWorkingDirectory(v) == v \in {"unset", "directory"}
ParseBaselineReport(v) == v \in {"unset", "report", "other file"}
ParseScopedFilter(v) == v # "control characters"
ParseSurface(v) == v # "other"
ParseNetworkPassphrase(v) == v \in {"unset", "text"}
ParseRpcUrl(v) == v \in {"unset", "plain", "secret", "percent"}
ParseVersion(v) == v = "release"
ParseFixturesPackVersion(v) == v # "other"

(* On Windows the names of variables are the same whatever their case. *)
Same(n, m) == IF workflow.platform = "win32" THEN n.word = m.word ELSE n = m

(* slip: only a name in capitals is denied *)
IsDeniedAsWritten(n) == n.word \in DeniedWords /\ n.form = "upper"

IsDeniedEnvName(n) == n.word \in DeniedWords

(* the list's spelling is the one in capitals, but on Windows any will do *)
IsAllowedEnvName(n) == n.word \in AllowedWords /\ (n.form = "upper" \/ workflow.platform = "win32")

ParseEngineEnvPassthrough(v) ==
    /\ v = "names"
    /\ Len(workflow.asked) <= MaxNames
    /\ \A i, j \in DOMAIN workflow.asked : i # j => ~Same(workflow.asked[i], workflow.asked[j])
    /\ \A i \in DOMAIN workflow.asked : ~IsDeniedEnvName(workflow.asked[i])

Accepts(n) ==
    LET v == Given(n) IN
    CASE n \in Integers -> ParseInteger(v)
      [] n \in Booleans -> ParseBoolean(v)
      [] n = "config" -> ParseConfig(v)
      [] n = "working-directory" -> ParseWorkingDirectory(v)
      [] n = "baseline-report" -> ParseBaselineReport(v)
      [] n \in Filters -> ParseScopedFilter(v)
      [] n = "surface" -> ParseSurface(v)
      [] n = "network-passphrase" -> ParseNetworkPassphrase(v)
      [] n = "rpc-url" -> ParseRpcUrl(v)
      [] n = "version" -> ParseVersion(v)
      [] n = "fixtures-pack-version" -> ParseFixturesPackVersion(v)
      [] n = "engine-env-passthrough" -> ParseEngineEnvPassthrough(v)
      [] OTHER -> TRUE

(* no input up to this one was rejected *)
ReadUpTo(n) ==
    \A i \in DOMAIN ParseOrder :
        (\E k \in i..Len(ParseOrder) : ParseOrder[k] = n) => Accepts(ParseOrder[i])

(* maskRpcUrlSecrets decodes the values of the query a second time, and the  *)
(* "%" of one that had "%25" cannot be decoded (URIError)                   *)
Undecodable == Given("rpc-url") = "percent"

Conflict == Given("no-cache") = "true" /\ Given("live-cache-ttl-seconds") # "unset"

(* the first problem of getInputs; the conflict is looked at before pr-comment *)
GetInputs ==
    IF ReadUpTo("rpc-url") /\ Undecodable THEN "URIError"
    ELSE IF ReadUpTo("pr-comment") /\ ~Conflict THEN "none"
    ELSE IF ReadUpTo("protocol") /\ Given("config") = "missing" THEN "ConfigNotFoundError"
    ELSE "InvalidInputError"

(* resolveGithubToken: the input before the environment *)
GithubToken ==
    IF Given("github-token") # "unset" THEN "input"
    ELSE IF workflow.envToken THEN "environment" ELSE "none"

(* what getInputs has masked when it returns or throws *)
Masks ==
    (IF ReadUpTo("rpc-url") /\ Given("rpc-url") = "secret" THEN {"rpc-url"} ELSE {})
    \cup (IF ReadUpTo("engine-env-passthrough") /\ ~Undecodable
          THEN (IF GithubToken # "none" THEN {"token"} ELSE {})
               \cup (IF Set("network-passphrase") THEN {"network-passphrase"} ELSE {})
          ELSE {})

InputNotes == {n \in {"fixtures-pack-version", "fixtures-pack-protocol"} : Set(n)}

-----------------------------------------------------------------------------
(* buildChildEnvironment                                                    *)

AllowedNames == {n \in workflow.source : IsAllowedEnvName(n) /\ ~IsDeniedEnvName(n)}

(* findSourceName: as it is written, or on Windows in any case *)
Found(m) == {n \in workflow.source : n = m \/ (m \notin workflow.source /\ Same(n, m))}

BuildChildEnvironment ==
    AllowedNames \cup
        UNION {Found(workflow.asked[i]) : i \in {j \in DOMAIN workflow.asked :
                                                   ~IsDeniedEnvName(workflow.asked[j])}}

-----------------------------------------------------------------------------
(* The arguments of the engine, and the gates                               *)

(* first release whose check accepts the flag; None: no release yet *)
Gated == {"network-passphrase", "rpc-max-retries", "rpc-retry-delay-ms", "allow-empty",
          "fail-on-warning", "offline", "rpc-timeout-seconds", "max-concurrency", "no-cache",
          "live-cache-ttl-seconds"}
MinVersion(n) ==
    CASE n \in {"network-passphrase", "rpc-max-retries", "rpc-retry-delay-ms"} -> <<0, 3, 0>>
      [] n \in {"fail-on-warning", "offline"} -> <<999999999, 0, 0>>
      [] OTHER -> <<0, 2, 0>>

(* slip: every part is compared by itself *)
EngineAtLeastByParts(v, min) == \A i \in 1..3 : v[i] >= min[i]

EngineAtLeast(v, min) ==
    \/ v = min
    \/ \E i \in 1..3 : v[i] > min[i] /\ \A j \in 1..(i - 1) : v[j] = min[j]

(* FIXTURE_SURFACE_CACHE_DIR_MIN_VERSION is undefined: no release so far *)
EngineSupportsScope(v) == FALSE

ScopeGateFails == \E n \in Scope : Set(n) /\ ~EngineSupportsScope(workflow.release)

Plain == {"protocol", "network", "rpc-url", "config", "working-directory"}

BuildCheckArgs ==
    {"fixtures-dir"} \cup {n \in Plain \cup Scope : Set(n)}
    \cup {n \in Gated : Set(n) /\ EngineAtLeast(workflow.release, MinVersion(n))}

SkipNotes == {n \in Gated : Set(n) /\ ~EngineAtLeast(workflow.release, MinVersion(n))}

(* assessEngineVersion: older than 0.1.0, or of a major line not validated *)
AssessEngineVersion(v) == ~EngineAtLeast(v, <<0, 1, 0>>) \/ v[1] > 0

-----------------------------------------------------------------------------
(* The run                                                                  *)

(* what the stages of ActionRun look at *)
ValidateFixtures == Given("fixtures-dir") = "directory"
                    \/ (Given("fixtures-dir") = "missing" /\ Given("allow-empty") = "true")

LoadBaselineReport ==
    CASE Given("baseline-report") = "report" -> "usable"
      [] Given("baseline-report") = "other file" -> "unusable"
      [] OTHER -> "none"

Switched == {s \in Switches :
    CASE s = "junit" -> Given("junit-report") = "true"
      [] s = "receipt" -> Given("generate-receipt") = "true"
      [] OTHER -> Given("upload-report") # "false"}

InputsInit ==
    /\ Init
    /\ workflow \in Workflows
    /\ inputs = [valid |-> GetInputs = "none", fixtures |-> ValidateFixtures,
                 baseline |-> LoadBaselineReport, gated |-> ScopeGateFails, on |-> Switched]
    /\ problem = "none"
    /\ masked = {}
    /\ env = None
    /\ argv = {}
    /\ notes = {}

GetsInputs ==
    /\ ReadInputs
    /\ problem' = GetInputs
    /\ masked' = Masks
    /\ notes' = IF GetInputs = "none" THEN InputNotes ELSE {}
    /\ env' = IF GetInputs = "none" THEN [names |-> BuildChildEnvironment] ELSE None
    /\ UNCHANGED <<workflow, argv>>

(* ensureCanaryInstalled warns of the release first; then, if there is an   *)
(* engine, buildCheckArgs                                                   *)
Installs ==
    /\ InstallEngine
    /\ argv' = IF stage' = "check" THEN BuildCheckArgs ELSE {}
    /\ notes' = notes \cup (IF AssessEngineVersion(workflow.release) THEN {"version"} ELSE {})
                      \cup (IF stage' = "check" THEN SkipNotes ELSE {})
    /\ UNCHANGED <<workflow, problem, masked, env>>

OtherStage ==
    /\ stage \notin {"inputs", "install"}
    /\ Stage
    /\ UNCHANGED inputVars

InputsNext == GetsInputs \/ Installs \/ OtherStage \/ (Killed /\ UNCHANGED inputVars)

InputsSpec == InputsInit /\ [][InputsNext]_allVars

(* as in ActionRun *)
FairInputsSpec == InputsSpec /\ WF_allVars(GetsInputs \/ Installs \/ OtherStage)

-----------------------------------------------------------------------------
(* Properties                                                              *)

(* The flags `check` of a release accepts, as the releases have them.      *)
AcceptedBy(v) ==
    {"protocol", "network", "rpc-url", "config", "fixtures-dir"}
    \cup (IF v[1] > 0 \/ v[2] >= 2
          THEN {"allow-empty", "rpc-timeout-seconds", "max-concurrency", "no-cache",
                "live-cache-ttl-seconds"} ELSE {})
    \cup (IF v[1] > 0 \/ v[2] >= 3
          THEN {"network-passphrase", "rpc-max-retries", "rpc-retry-delay-ms"} ELSE {})

(* "never passed to an engine that would reject it ... and never dropped    *)
(* silently": an engine that is started gets only flags its release accepts *)
(* (but --project-root, which is to fail loudly) and no two that conflict;  *)
(* every input meant for it is among them, or in a note if the release does *)
(* not know it; and with a filter it cannot honour it is not started at all.*)
EngineIsAskedAsMeant ==
    /\ argv \subseteq AcceptedBy(workflow.release) \cup {"working-directory"}
    /\ ~({"no-cache", "live-cache-ttl-seconds"} \subseteq argv)
    /\ \A n \in notes \cap Gated : n \notin AcceptedBy(workflow.release)
    /\ call # "idle" =>
          \A n \in Plain \cup Gated \cup Scope : Set(n) => n \in argv \/ n \in notes \ Scope

(* Whatever runs as a child of the Action, cargo and the engine alike, sees *)
(* no denied name in any spelling, and beyond the allow-list exactly what   *)
(* was asked for by name; and every secret among the inputs is masked       *)
(* before the first of them starts.                                         *)
SecretsStayInside ==
    env # None =>
        /\ \A n \in workflow.source :
              n \in env.names <=>
                 /\ n.word \notin DeniedWords
                 /\ \/ IsAllowedEnvName(n)
                    \/ \E i \in DOMAIN workflow.asked : Same(n, workflow.asked[i])
        /\ env.names \subseteq workflow.source
        /\ Given("rpc-url") = "secret" => "rpc-url" \in masked
        /\ GithubToken # "none" => "token" \in masked
        /\ Set("network-passphrase") => "network-passphrase" \in masked

(* "Throws InvalidInputError or ConfigNotFoundError on the first problem    *)
(* found": what is wrong with the inputs is always said of one of them.     *)
ProblemsAreNamed ==
    problem \in {"none", "InvalidInputError", "ConfigNotFoundError"}
==============================================================================

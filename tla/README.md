# Verification of the Protocol Canary Action

TLA+ models of the Action in `src/`, their TLC runs, and TLAPS proofs about
them. The Action installs the Stellar Protocol Canary engine, runs it under a
time bound, and reports what it said. It is a Node program: one event loop, with
child processes, sockets, timers, files and GitHub's services around it. What is
hard about it is not computation but *when things happen*: a timer that fires
between a process's exit and the closing of its pipes, a kill between two writes
to the install root, a tag that moves between two runs, a step that fails after
others are done.

## Inventory

| Part | State it keeps | Operations | Talks to | Hard about it |
|---|---|---|---|---|
| `runCheck` (`runner.ts`) | one promise, two timers, output buffers, signal listeners | start, data, timeout, SIGKILL timer, signal, error, close | the child process; called by `main.ts` and `canary.ts` | event order, escalation, settling at all, clean-up |
| Installer (`canary.ts`) | `RUNNER_TEMP` install root: binary, digest and origin sidecars; Actions cache | find, verify, probe, restore, download release, `cargo install`, seal, save | `runCheck`, `httpsGetFile`, `githubFetch`, cache | kills between writes, earlier steps' leftovers, moved tags, fall-backs |
| `httpsGetFile`, `consumeResponse` | a response, a write stream, a timer | start, chunk, end, drain, finish, fail, remove | GitHub, the disk | back-pressure, partial files, limits |
| `githubFetch` (`github.ts`) | deadline, attempt, timers | request, retry, back-off | GitHub API | deadline against retries, endless bodies |
| `run` (`main.ts`) | the step's conclusion, outputs, summary, files | sixteen stages in order, early returns | everything | partial failure, agreement of outputs |
| Artifact upload (`artifact.ts`) | none of its own; the run's artifact store | upload, retry under another name | artifact service, other legs | competing legs, lost answers |
| Fixture packs (`canary.ts`) | staging directories, cache, provenance marker | download, verify, extract, restore, save | cache, GitHub | stale cache, order of verification |
| Version resolution (`version.ts`) | a cursor into the list of tags | resolve a tag through pages, fall back | `githubFetch` | pages that shift under the cursor |
| PR comment (`comment.ts`) | none; the pull request's comments | find page by page, create or update | GitHub API | legs, earlier runs and people in one thread, no timeout |
| Report and job summary (`output.ts`, `summary.ts`) | none that outlives a call; the renderer's lines, bytes and reservation | parse, count, classify, render, render truncated | the engine's output, GitHub's summary | reports of older engines, a byte limit met from sums |
| Inputs, arguments, environment (`inputs.ts`, `runner.ts`, `child-env.ts`, `version.ts`) | the masks registered, the environment of children, the argument vector | parse in order, mask, gate by release, filter names | `run`, every child | the order of problems, conflicts, releases, case-folding platforms |
| Compatibility matrix (`compat-matrix.yml`, three scripts) | the matrix, evidence of each cell, artifacts, the registry of expectations | prepare, run a cell, write facts, upload, collect, classify, conclude | GitHub's jobs and artifacts | cells and evidence lost in part, `always()` |
| Logs, redaction, escaping, URLs | none | functions of their arguments | | characters |

How they interact: `run` reads the inputs, resolves the version, asks the
installer for a binary, runs it with `runCheck`, parses its report, and then
carries out the auxiliary stages (JUnit, artifact, summary and comment, outputs,
receipt) before the engine's exit code decides. The installer runs `cargo` and
`stellar-canary version` through `runCheck`, looks up releases through
`githubFetch` and downloads assets through `httpsGetFile`. Two steps of a job
share the install root; two runs share the cache; the legs of a workflow run
share the artifact store and the comments of their pull request. The jobs of the
compatibility matrix share nothing but what they upload.

What makes each part correct is said by its properties, below.

## Modules

### `BoundedCall`: what `runCheck` promises

The abstract specification. One call is made; it may expire or overflow while
pending; it is settled once, and with what is decided by what was observed: an
overflow, else a missed deadline, else the child's own result. Processes, pipes
and timers do not occur in it.

### `RunCheck`: `runCheck` itself

State: the child (`proc`, `exitedBy`, `signalled`, whether it ignores SIGTERM,
whether a descendant holds its pipes), the open pipes, and the function's own
variables under their own names (`timedOut`, `stdoutExceeded`, `stderrTruncated`,
the timers and `sigkillHandle`). The SIGKILL timers are a set of their own beside
the handle that reaches only one of them, which is what the code has: an overflow
and a timeout each arm one, and the second assignment loses the first.
Every handler is one action. Time is not counted: an armed timer may fire at any
later moment, so every relation between a timer and another event occurs.

Output is counted in abstract units. A unit stands for one ASCII character: the
code trims a JavaScript string by its length and compares bytes, and the two
agree only there.

The retained stderr is the sequence of the units it holds, each known by its
position in what the child wrote, so that `NewestStderrIsKept` can say which of
them are reported: all, or exactly the newest that fit beside the notice. Two
cuts decide that, one while the child writes (from half as much again as the
limit) and one at the end.

`MCRunCheck` runs it with limits of two and four units against chunks of up to
three, so that a limit is met exactly and passed by one, and with up to eleven
units of stderr, so that the retained tail is trimmed more than once.

### `Install`: `ensureCanaryInstalled`

State: where the release tags point, the cache, the three files of the install
root, and one invocation at a time with its request (version, resolved commit or
none, strict or not). Executables are values: the published asset of a version,
the build of a commit, or something damaged; `Says` is what `version` would print.
Digests are injective, so a digest is the executable it was computed from.
Each statement that can fail, be killed after or be observed is an action:
search, verification, probe, restore, validation of what was restored, copy,
digest, verification and probe of a release asset, `cargo install`, and the
three steps of sealing. The world may kill the invocation anywhere (also between
the removals of a mismatching binary and its sidecars), begin a new job, move a
tag, and save to the cache from another leg.

`MCInstall`: two versions, three commits of which two say the same version, a
published asset that says the wrong version, two invocations and one move of a
tag. Two invocations are what a stale file needs; the cache and the moved tag
carry state from the first to the second.

### `Download`: `httpsGetFile` with `consumeResponse`

State: the promise, the total timer, the response (flowing, paused, ended,
destroyed), what it has carried, the write stream (live, ending, finished,
doomed, closed), whether its `open` has completed, what was written, flushed and
is on the disk. A body is announced by its length, chunked, or ended by the
connection. `faults` is chosen once: a world without faults in which the server
serves the body, one in which the network, the disk and the clock may fail, and
one in which removing the partial file fails too.

Bounds: a limit of three units and bodies of up to four, in chunks of any size,
so that the limit is met exactly and passed by the last unit.

### `AtomicFetch`: what `httpsGetFile` promises

The abstract specification: a fetch begins, whatever happens to the file while it
is pending happens, and it ends once, with the whole file or with none, after
which nobody touches the file. `Download` implements it (`KeepsFetchPromise`):
`FetchOutcome` is the promise (a failure that waits for the stream and for `fs.rm`
is pending still), `FileOnDisk` what a caller would find. The abstract file never
disappears but by the refusal itself, and never changes after it; that is where a
removal before the stream is closed would show.

### `GithubFetch`: the retry loop

Time is a counter here, because the loop compares times. A timer is run when due
or up to `Late` ticks later. The request's idle timeout and hard timer, the
back-off and the deadline are those of the code; the answer, its chunks and its
end come when the server likes. Constants keep the code's proportions (idle
timeout below the overall bound, two delays and three idle timeouts not fitting
into it), so that a retry is refused for lack of attempts in one behaviour and
for lack of time in another.

### `TagLookup`: `resolveVersion` and `resolveTagCommit`

EXTENDS `GithubFetch`: a lookup is a sequence of its calls, one per page, and the
list of tags may change between two of them (a tag published anywhere in the
list, removed, or pointed elsewhere). What a page holds is fixed when the server
answers; the answer may be no list, and its `Link` header may promise a page that
does not exist. `held` and `removed` record what the tag pointed to since the
lookup began.

`MCTagLookup`: pages of one tag, two of them read, lists of up to three tags, so
that the tag is on the first page, on the last, beyond it, or absent, and one
change of the list. `Overall` exceeds two idle timeouts and their delays, as 25 s
exceeds two of 10 s, and the third attempt is cut short by the deadline.

### `ActionRun`: `run`

One action per stage of `run()`, with every early return. The engine process is
`BoundedCall` (by INSTANCE), which is what `RunCheck` is shown to implement; how
the engine exits and what it prints are free and independent. The outputs that
are always set together are one (`counts`, `pack`, `artifact`). The runner may
kill the process between any two stages.

### `CheckInputs`: inputs, environment, arguments

EXTENDS `ActionRun`, whose record of inputs it computes. A given value is the
class its parser puts it in ("in range", "not digits", "secret"...); `GetInputs`
is the first problem in the order `getInputs` reads, `Masks` what is masked when
it returns or throws, `BuildChildEnvironment` the names a child gets on a platform
that does or does not fold case, `BuildCheckArgs` the inputs whose flags the
engine is run with, given its release. A name in the lists is a word and a
spelling; prefixes and substrings are words in the constants `AllowedWords` and
`DeniedWords`. The stages are those of `ActionRun`, joined by what the inputs add
to two of them.

`MCActionRun`: every value of every single input, the pairs of inputs that meet
in a check, every combination that reaches another stage of `run`, all gated
inputs under releases below, between and above the gates, and environments in
both spellings on both platforms.

### `CompatMatrix`: the compatibility matrix

The jobs of `.github/workflows/compat-matrix.yml` with the three scripts they
run. `Prepare` builds the matrix (`compat-matrix-inputs.mjs`); each cell is a job
of five steps whose outcomes decide which later ones are skipped, and which
leaves files that `WriteCellFacts` (`createCellFacts`) sums up and uploads; the
collector downloads, validates, classifies (`compat-matrix-results.mjs`,
`classify-compat.mjs`), publishes (`Publish`: the table and the upload of the
results) and concludes. A step may fail or be cancelled, a runner be lost, an
upload fail, a download arrive in part, the collecting script fail. The verdict is
the conclusion of the collector's job: its last step fails on what was classified,
but a failed classification, table or upload, or a lost runner, makes the job red
as well (`collectJob`), although no cell is to blame. `RedIsWarranted` therefore
speaks of a red collector none of whose other steps failed. Diagnostics are the
failure signatures they contain.

`MCCompatMatrix`: up to two cells, requests that are refused for a duplicate, a
malformed reference or their size, engines that end in every way the scripts tell
apart, three registries and four worlds of faults.

### `MatrixGate`: what the matrix promises

The abstract specification: the cells are planned once, each of them ends once,
and when all have ended there is one verdict, which is green only if there were
cells and each earned it. `CompatMatrix` implements it (`KeepsGatePromise`) with a
refinement mapping that does not look at what the collector downloads or
computes: a cell earned green if its job succeeded and its engine did what the
registry says of it (`ResultOf`). A verdict that comes while a cell still runs, or
a cell that changes after its end, would show there.

### `ArtifactUpload`: `uploadReport` and `uploadReceipt`

The legs of a workflow run compete for names in one store. A name is a record of
what it is made of. Unique suffixes are numbers, drawn fresh unless the world
lets two draws clash. The service may refuse a name (409), break an upload with
or without having kept the files, or lose its answer so that the client's own
repetition is refused.

### `PullRequestComment`: `postPullRequestComment` in the same legs

EXTENDS `ArtifactUpload`: between the upload of its report and that of its
receipt a leg looks for its job's comment page by page and updates it, or posts
one. Each page is the thread as it is when the server answers. The thread is
shared with the other legs, with earlier runs and with everyone: a person may
post meanwhile, also with a copied marker, and any comment may be deleted, so
that those after it move to an earlier page. The legs of a matrix have one
`GITHUB_JOB` and hence one identity. A comment's body is its marker with the
identity, and whose text it is.

`MCArtifactUpload`: two legs of a matrix and one of another job; pages of one
comment, two of them read, so that a leg's own comment is on the first page, on
the last, beyond the last, or absent; a bot's token and a person's; one edit by
others. A comment that a person's token posted is user-authored, and the code
never finds it again: it posts another one each time (`isOwn` requires a bot).
Two legs that both find no comment both post one; `OneCommentPerJob` does not
promise otherwise.

### `FixturePacks`: `ensureVerifiedPack` and what it is given to call

State: the directory (whose file lies at each path, and the provenance marker),
the cache, the release as it is published at the moment, and the call: its step,
the asset, checksum, archive and staged tree of `downloadVerifiedPack`. A pack is
known by its digest, so a tree is a function from paths to the packs its files
come from, and two trees have one digest only when they are equal. A restore
extracts over what the directory holds; that, and reading the marker only
afterwards, is where old files and old markers matter. `ensureVerifiedPack` is
given its downloader; it is played here by `downloadVerifiedPack` followed by
`verifyPackDigest` and a copy, as its documentation asks. No other source file
calls these functions yet: the composition is that of the documentation and the
tests. `downloadVerifiedPack` itself computes and logs the pack digest and
compares it with nothing, although its own documentation says it does; the
property needs the caller's comparison, because the asset is chosen by a name
that includes `protocol-N` and protocol 2 is found in protocol 28.

`MCFixturePacks`: protocols 2 and 28, two packs that share a path, a release that
is republished with the packs exchanged, a foreign cache entry without a marker,
and two calls, the first of which may leave anything for the second.

### `Reporting`: from the engine's output to the summary

State: the report as printed, the counts and skipped fixtures of the parsed one,
and the renderer's own variables: what it has pushed (in bytes), the section and
entries that remain, and `reserved`. The parser is one step with its two
outcomes. Rendering is a step per line of the preamble, per section and per
entry, first in full and then, when that is too long, once more truncated; the
loop is what the property is about, because it decides line by line from sums.
The text of a line is its bytes, an entry the bytes of its lines joined. The
number in a marker takes as many digits as powers of ten it reaches; these
powers are a constant (`Powers`), so that an instance of five entries meets a
marker that is shorter than the one that was reserved. What is validated without
being used here (versions, project, network) is one flag. The sort of the
skipped fixtures keeps its first key, the reason code.

`MCReporting`: all reports of up to two results with counts that are absent,
right, wrong or without `skipped`, and reports of four results and three skipped
fixtures with every mix of two lengths; a limit of 26 bytes, which the sums meet
exactly, pass by one and miss by one; preambles that fit, that leave no room for
a section, and that do not fit themselves. All three properties are proved for
all reports, lengths and limits.

Two things the model made plain. The documentation of `classifyCoverage` speaks
of older releases that report `counts.skipped` without a `skipped` array;
`parseReport` rejects such a report, because it compares the count with the
length of the array. And when the counts lack `skipped`, the others are taken as
they are (`Vouched` in `OneStory` says where the counts are those of the results).

## Runs

| Run | Question | States |
|---|---|---|
| `run_check` | Is a call ever settled with its child running, late, truncated, or with its timers and listeners left? Is what it reports of stderr the newest of it? Is every child over its bounds stopped, every call settled that no descendant holds open, and `BoundedCall` implemented? | 170189 |
| `run_check_hang` | Violated: does every call settle? | |
| `install` | What may be executed, returned, left in the root and in the cache? | 4.5 million |
| `install_other_step` | Violated: is an earlier step's engine of another version replaced? | |
| `download` | Is the limit kept, nothing stalled, and `AtomicFetch` implemented (a fulfilled download is whole, a rejected one gone); does it end, and does a served file arrive? | 2091 |
| `fixture_packs` | Is the pack that is handed out, and every pack that is cached, the one asked for? Is anything unverified extracted, or left staged? | 520290 |
| `reporting` | Is the summary below its limit, does it omit only what has no room, and do counts, coverage and summary agree? | 111174 |
| `tag_lookup` | Is each request over by its deadline and retried only in time? Is the commit the tag's, "not found" the truth while the list changes, and does every lookup end? | 833783 |
| `action_run` | Do conclusion, status, outputs and files agree with what happened? Is the engine asked what the inputs mean, do its children see only what they may? Does every run end? | 40321 |
| `inputs_url` | Violated: is every problem with the inputs said of an input? | |
| `artifact_upload` | Is a published name the leg's own? Does everything arrive once when nothing breaks? Is nobody's comment written over, and a job's own one found? | 304686 |
| `compat_matrix` | Is a green matrix earned, a red one warranted (unless the collector itself failed), `MatrixGate` implemented, and is there always a conclusion? | 725442 |

Deadlock checking is off throughout: every modelled activity ends.

### What the violated runs show

* `run_check_hang`: the child leaves a descendant with its stderr. The child is
  killed at the deadline, `close` does not come, and the promise stays pending.
  `EveryUnheldCallSettles` states what does hold.
* `install_other_step`: a step installed the release asset of version 1; the next
  step of the job asks for version 2 and compares the binary of version 1 with
  the checksum published for 2. `verifyInstalledBinary` throws before the branch
  that would install a fresh copy is reached.
* `inputs_url`: `URLSearchParams` has decoded the values of the query, and
  `maskRpcUrlSecrets` decodes them once more. A valid `rpc-url` with `%25` in its
  query (`?k=100%25`) leaves a lone `%`, `decodeURIComponent` throws a `URIError`,
  and the run fails with a message that names no input.

### Disagreements without a run

* A SIGKILL timer may outlive its call (`runner.ts:684`): stdout overflows, its
  handler arms a timer; the timeout fires and arms another into the same
  variable; the child exits, and `cleanup` clears only the second. The comment at
  680-683 says the handle is kept to avoid exactly this. `SettledForGood` states
  what does hold, `TimerInv` of the proofs says which timers are reachable, and
  `NothingActsAfterwards` that the forgotten one finds nobody to signal; it can
  delay the end of the process, not more.
* A source build that is reused after its tag moved is the build of the earlier
  commit (`canary.ts:1744`), although its version is the requested one; the cache
  key does distinguish the two (`CommitPinHonoured`).
* `action.yml` says of `coverage-state` that it is set on every path; an unusable
  baseline report, or a scope input the engine does not support, ends the run
  through `core.setFailed` alone, with no output set (`ActionRun` has these paths).
* `version.ts:160-161` says that only a missing tag leads to a warning of its own;
  a rate limit, a network failure, a timeout and a server error warn as well.
* The input `diagnostics` is documented (`action.yml:185-191`, `README.md:161`) and
  parsed, and nothing reads it.
* In the compatibility matrix a report of no checks is `skipped`, and green, also
  for a pair of which the registry expects a failure, and where
  `docs/compat-matrix.md:29` speaks of an unexpected pass (`AsRegistered` says so).

## Fairness

Liveness is checked under weak fairness of what Node and the operating system
do by themselves: due timers are run, the events of a stream or of a process
that has ended are delivered, a process that received a signal it cannot ignore
ends, a pipe without a writer is closed, the next stage of an `async` function
is carried out. Nothing obliges a child to exit, a server to answer or to send
anything (but in `Download`'s world without faults), the workflow to cancel, or a
descendant to close a pipe. `TagLookup` assumes that the code goes on from page to
page and that due timers run; it is the timers, not the server, that end a
request. `PullRequestComment` assumes that each request settles: `uploadArtifact`
bounds its own, those of the comment have no timeout but the library's, and
without one a leg would not end. `CompatMatrix` assumes that the service runs
every job that is due and ends it (`timeout-minutes`), not that any succeeds. `ActionRun` assumes that the engine call is settled;
`RunCheck` says when it is.

## Proofs

Eight modules prove, for every value of the constants, what the runs check on
small ones. Each states an inductive invariant that implies the properties,
proves that it holds initially and that each action preserves it, and concludes
with temporal logic.

* `RunCheckProofs`: `PhaseInv` ties the promise to the child and the pipes,
  `TimerInv` says which SIGKILL timers exist and which of them `sigkillHandle`
  reaches, `OutputInv` which units of the output are retained: a tail of what was
  written (`WrittenJoin`, `WrittenTail`) that is never shorter than what will be
  reported, so that cutting twice loses nothing that cutting once would keep. The
  timers need their invariant: that `cleanup` clears the right one is true only
  when at most one event armed one.
  `Refinement` proves that every step of `RunCheck` is a step of `BoundedCall` or
  leaves its variables alone. `NeverAbandoned` is the safety kernel of
  `ChildIsStopped`: a running child of a pending call always has a timer or a
  SIGKILL ahead of it. `NothingActsAfterwards`, an action property that is a theorem
  only, says that what a settled call leaves behind signals and settles nothing.
* `InstallProofs`: the invariant says what each step of the invocation has
  established about the files (`StepInv`), what the cache may hold (`CacheInv`),
  and what was probed (`ProbedInv`). Two invocations never overlap, and the
  sidecars are the only memory between them, so the argument is that no
  interrupted sequence of writes and removals leaves sidecars that vouch for
  another binary.
  The same module proves `Download`. `FlowInv` relates promise, timer and
  response, `FileInv` the write stream to both; a rejected promise needs the
  stream closed first. `FetchRefinement` maps every step to a step of
  `AtomicFetch` or to none: an open, a flush, or the end of the response may
  change what a caller would find, but only while the fetch is pending, and once
  whole or partial the file stays there until `fs.rm`. `WholeOrGone` is
  the same promise read of one state, and a theorem only. `NeverStalls` is the
  safety kernel of `EveryDownloadSettles`: a paused response has a flush ahead, an
  ended one a file that is ending, and the total timer is armed throughout.
* `GithubFetchProofs`: of `GithubFetch`, the time is never more than `Late` past the
  earliest due timer, and while a request runs its deadline is one of them. Of
  `TagLookup`, `PageInv`: the tag lies beyond the pages read so far
  (`Beyond`), as long as it was there throughout and nothing was removed.
  `SliceFacts` says what a page holds of the list, `InsertFacts` that publishing a
  tag moves no entry to the front, which is why an insertion between two pages
  hides nothing. Each page begins a `githubFetch` of its own, so the deadline and
  the retry rule are proved once more of the whole lookup.
* `FixturePacksProofs`: `DirInv` says what the directory holds at each step,
  `StagingInv` what has been verified of the staged archive and tree. From the
  emptying of the directory to the marker nobody else writes to it; that is all
  the saved entry rests on, and what a hit rests on in turn.
* `ReportingProofs`: `RoomInv` is the renderer's promise: whatever has been pushed,
  the reserved marker and trailer and the notice still fit strictly below the
  limit. It needs that a marker for fewer entries is not longer
  (`MarkerIsMonotone`), and that the reservation is gone outside a section.
  `ToldInv` says what became of each section that was passed and why; the room
  that was missing then is missing for good, since the text only grows
  (`StaysTold`). `StoryInv` keeps what the outputs were computed from, and that
  every result has one status (`Partition`) and is a fixture of its own
  (`OneFixtureEach`) makes the sums agree.
* `ActionRunProofs`: `EngineInv`, `FilesInv` and `OutputsInv` say what each stage
  may assume of the engine, the files and the outputs. `InputsRefineRun`: a run
  with its inputs, environment and arguments (`CheckInputs`) is a run of
  `ActionRun`, so all of that holds of it too; `EnvInv` and `ArgvInv` add what the
  lists and the gates leave of names and flags.
* `ArtifactUploadProofs`: `StoreInv` says whose files a name holds, `StableInv` who
  may hold the stable name, `SuffixInv` that the other names are apart, and
  `QuietInv` what is known of a leg in a world without faults: the store then
  holds exactly what it published. `CommentsLeaveUploadsAlone`: the comments'
  steps change nothing of the uploads. `IdInv` keeps comments apart by their ids
  while the thread shifts, `FoundInv` says what a leg knows of the comment it
  found, `ReadInv` that an own comment which was there when it began is still
  ahead of its cursor.
* `CompatMatrixProofs`: `MatrixInv` says that the matrix is the product of the
  accepted lists (`MatrixType`, `MatrixIsDistinct`: an index stands for one engine
  and one pack, so no pair is there twice). `CellInv` follows one cell: as long as
  its job is successful, every step behind it succeeded, its directory holds how
  the engine ended, its facts are those of that directory, and the artifact is
  the directory. Once the collector has begun nothing of a cell moves
  (`CollectInv`), and what it has downloaded of a cell are the facts that were
  uploaded, or none. `FactsDecide` is the heart: of the facts of such a cell,
  `classifyCell` fails the job exactly if the engine did not do what the registry
  says of it. One direction makes green earned; the other, with the facts
  passing their validation again (`ArrivedIsValid`), makes red warranted as long
  as the collector's own steps succeed.
  `GateRefinement` maps the jobs to `MatrixGate`: a step of a job ends its cell or
  changes nothing the gate shows (`CellStepAtGate`), and the conclusion is a
  judgement because green is earned (`ConcludeAtGate`).

The assumptions are the named ASSUMEs of the modules: ranges of the constants,
that digests tell executables apart, and `PowerAssumption` (powers of two are
natural numbers, of which the provers know nothing). Two are facts about the
world: `CommentAssumption`, that GitHub's comments have ids of their own, and
`InputsAssumption`, that Windows keeps one variable per name whatever its
spelling and that no engine release reaches `999999999.0.0`, the gate of the two
flags that no release knows yet (`runner.ts:184`). `UploadAssumption` asks for
three attempts at least, as `MAX_REPORT_UPLOAD_ATTEMPTS` has: the name of a
second attempt need not be unique. `NoneAssumption` keeps the absence of a report, of
facts or of evidence apart from each of these. TLC evaluates them in every run.

Each type invariant is proved rather than run. So is every safety property of
the runs that pass.

Only model-checked: all liveness, since fairness is out of the prover's reach
(`ChildIsStopped`, `EveryUnheldCallSettles`, `EveryLookupEnds`, `EveryRunEnds` and
their like). `NeverAbandoned` and `NeverStalls` prove of two of them that there is
always a step that leads on; that it is taken, and that the steps come to an end,
is left to TLC. `Reporting` and `Install` are checked for safety only: the one is a
synchronous computation, the other ends when the processes it waits for do.

## Not modelled

* The parts marked so in `PROJECT.json`, with their reasons: mostly functions
  from strings to strings, wording, and tools beside the Action.
* Strings. `safe-url.ts`, `redact.ts`, `markdown.ts`, `log-block.ts` and most of
  `receipt.ts` and `annotations.ts` keep no state and are about characters; the
  parsers of `inputs.ts` are the classes of values they tell apart, and a body of
  a comment that is too long is not cut.
* In `ActionRun`: annotations, the log, and a kill inside a sequence of
  `setOutput` calls.
* In `CheckInputs`: the value that follows a flag, and the order of the flags.
* In `Install`: errors of the removals themselves, two invocations at the same
  time in one install root (the steps of a job run in order), and the lookup of
  release assets, which is a choice of its outcomes.
* In `FixturePacks`: errors of the removals, invalid requests (`packCacheKey`
  throws at once), and two calls at the same time in one directory.
* In `GithubFetch`: what happens to a refused response after the settlement, and
  the parsing of the rate-limit headers.
* In `Reporting`: `resolvePackIdentity`, `countReplayed`, `describeExitCode`, the
  summary of an execution failure, the reproduction command, and the Markdown.
* In `ArtifactUpload`: retention and which characters a name may have.
* In `CompatMatrix`: the wording of its summary, and the scripts' own arguments.
* `dist/` is generated; the development scripts (`build`, `check-*`, `run-local`,
  `verify-*`) are single-step programs that are not part of a run of the Action.

## Plan

Done, in this order: `BoundedCall`, `RunCheck`, `Install`, `Download`,
`GithubFetch`, `ActionRun`, `FixturePacks`, `Reporting`, `ArtifactUpload`, then
`TagLookup`, `PullRequestComment`, `CheckInputs` and `CompatMatrix`, each composed
with the one it extends; the proofs of all of them, and of the refinements of
`BoundedCall`, `AtomicFetch` and `MatrixGate`.

Left, the most stateful first:

1. The lookup of release assets as a composition of `Install` with `GithubFetch`
   and `Download`, instead of a choice of its outcomes.
2. `restoreVerifiedPack` for two calls at the same time in one directory, when the
   Action begins to call it.
3. `truncateLogTail` and the cutting of a comment's body, over lines and bytes as
   `Reporting` does it.
4. `resolvePackIdentity` and `describeExitCode` as operators checked against
   reference definitions.

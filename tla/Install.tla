------------------------------- MODULE Install -------------------------------
(***************************************************************************)
(* ensureCanaryInstalled of src/canary.ts: where the engine binary a run   *)
(* executes comes from.  The Action may be invoked several times in one    *)
(* job; the invocations share the Action-owned install root (the binary,   *)
(* its digest sidecar and its origin sidecar under RUNNER_TEMP), and all   *)
(* jobs share the Actions cache.  Any invocation may be killed between two *)
(* steps and leaves the three files as they are.                           *)
(*                                                                         *)
(* A binary is its content: what it was made of, never its bytes.  Its     *)
(* SHA-256 is the content itself (no two contents have the same digest).   *)
(***************************************************************************)
EXTENDS Naturals

CONSTANTS
    Versions,      \* engine versions a workflow may request
    Commits,       \* commits of the engine repository
    CommitSays,    \* the version a build of each commit reports
    Published,     \* versions whose release has an asset and a manifest
    AssetSays,     \* the version the published executable of each reports
    FirstTags,     \* the commit each release tag points at to begin with
    None,          \* no file, no entry, undefined
    MaxRuns,       \* bound: how often the Action is invoked
    MaxMoves       \* bound: how often a release tag is moved

Built(c) == [kind |-> "commit", of |-> c]
Genuine(v) == [kind |-> "asset", of |-> v]
Damaged(v) == [kind |-> "damaged", of |-> v]    \* anything else that passes for version v

Contents ==
    [kind : {"commit"}, of : Commits] \cup [kind : {"asset"}, of : Published]
        \cup [kind : {"damaged"}, of : Versions]

Origins == {"source-build", "release-asset"}

ASSUME InstallAssumption ==
    /\ CommitSays \in [Commits -> Versions]
    /\ Published \subseteq Versions
    /\ AssetSays \in [Published -> Versions]
    /\ FirstTags \in [Versions -> Commits]
    /\ Versions \cap Commits = {}
    /\ None \notin Versions \cup Commits \cup Contents \cup Origins
    /\ MaxRuns \in Nat
    /\ MaxMoves \in Nat

VARIABLES
    tags,       \* the commit each version's release tag points at
    cache,      \* the Actions cache: the binary saved under each key
    bin,        \* the executable in the Action-owned root
    digest,     \* stellar-canary.sha256: the content it is the digest of
    origin,     \* stellar-canary.origin
    found,      \* the trusted executable on CARGO_HOME, tool cache or PATH
    pc,         \* the next step of ensureCanaryInstalled
    req,        \* the resolved version and the strict-integrity input
    probed,     \* what this invocation has executed (history)
    result,     \* what ensureCanaryInstalled returned, or why it threw
    runs, moves

worldVars == <<tags, cache, found, runs, moves>>
diskVars == <<bin, digest, origin>>
vars == <<tags, cache, bin, digest, origin, found, pc, req, probed, result, runs, moves>>

Says(b) ==
    IF b.kind = "commit" THEN CommitSays[b.of]
    ELSE IF b.kind = "asset" THEN AssetSays[b.of] ELSE b.of

Requests == [version : Versions, commit : Commits \cup {None}, strict : BOOLEAN]
Vias == {"found", "root", "own", "cache", "prebuilt", "cargo"}
Results == [via : Vias, binary : Contents \cup {None}, origin : Origins \cup {None}]

NoResult == [via |-> "found", binary |-> None, origin |-> None]

(* cacheKeyFor: the resolved commit, or the tag when it is not known *)
Keys == Commits \cup Versions

(* slip: the cache is keyed by the tag alone *)
CacheKeyByTag(r) == r.version

CacheKeyFor(r) == IF r.commit # None THEN r.commit ELSE r.version

Idle == pc \in {"idle", "done", "failed"}

Init ==
    /\ tags = FirstTags
    /\ cache = [k \in Keys |-> None]
    /\ bin = None
    /\ digest = None
    /\ origin = None
    /\ found \in Contents \cup {None}
    /\ pc = "idle"
    /\ req = None
    /\ probed = {}
    /\ result = NoResult
    /\ runs = 0
    /\ moves = 0

-----------------------------------------------------------------------------
(* How an invocation begins and ends.  resolveVersion never throws: it      *)
(* yields the tag's commit, or no commit when the lookup failed.            *)

Invoke(v, strict) ==
    /\ Idle
    /\ runs < MaxRuns
    /\ runs' = runs + 1
    /\ \E c \in {tags[v], None} : req' = [version |-> v, commit |-> c, strict |-> strict]
    /\ pc' = "find"
    /\ probed' = {}
    /\ result' = NoResult
    /\ UNCHANGED <<tags, cache, found, moves, diskVars>>

Return(via, b, o) ==
    /\ pc' = "done"
    /\ result' = [via |-> via, binary |-> b, origin |-> o]

Throw(via) ==
    /\ pc' = "failed"
    /\ result' = [via |-> via, binary |-> None, origin |-> None]

Continue(step) ==
    /\ pc' = step
    /\ UNCHANGED result

RemoveBinaryAndDigest == bin' = None /\ digest' = None
RemoveAll == RemoveBinaryAndDigest /\ origin' = None

(* getInstalledVersion runs the binary; a probe that fails or times out     *)
(* yields no version.                                                       *)
Probe(b, version) ==
    /\ probed' = probed \cup {b}
    /\ version \in {Says(b), None}

(* lookupPublishedChecksums: the manifest of the requested release, if it   *)
(* has one and the lookup succeeds.                                         *)
ManifestOutcomes == IF req.version \in Published THEN BOOLEAN ELSE {FALSE}

-----------------------------------------------------------------------------
(* findExisting: only a candidate whose digest is the published one is run. *)
(* slip: the candidate is probed before its digest is compared *)
FindExistingUnverified ==
    /\ pc = "find"
    /\ \E version \in Versions \cup {None} :
          IF found = None THEN Continue("own") /\ UNCHANGED probed
          ELSE /\ Probe(found, version)
               /\ IF version = req.version /\ found = Genuine(req.version)
                  THEN Return("found", found, "release-asset") ELSE Continue("own")
    /\ UNCHANGED <<worldVars, diskVars, req>>

FindExisting ==
    /\ pc = "find"
    /\ \E manifest \in ManifestOutcomes :
          IF ~manifest \/ found # Genuine(req.version)
          THEN Continue("own") /\ UNCHANGED probed
          ELSE \E version \in Versions \cup {None} :
                  /\ Probe(found, version)
                  /\ IF version = req.version
                     THEN Return("found", found, "release-asset")
                     ELSE Continue("own")
    /\ UNCHANGED <<worldVars, diskVars, req>>

(* The binary an earlier invocation of this job left in the Action's root:  *)
(* trusted by its digest and origin sidecars, then verified as its origin   *)
(* requires, else removed together with them.                               *)
HasValidInstallDigest == bin # None /\ digest = bin

(* ensureInstallRoot cannot create the directory *)
NoRoot ==
    /\ pc = "own"
    /\ Throw("root")
    /\ UNCHANGED <<worldVars, diskVars, req, probed>>

NothingInRoot ==
    /\ pc = "own"
    /\ bin = None
    /\ origin' = None
    /\ Continue("cache")
    /\ UNCHANGED <<worldVars, bin, digest, req, probed>>

DiscardUnsealed ==
    /\ pc = "own"
    /\ bin # None
    /\ ~HasValidInstallDigest \/ origin = None
    /\ RemoveAll
    /\ Continue("cache")
    /\ UNCHANGED <<worldVars, req, probed>>

(* slip: the recorded origin alone decides, strict or not *)
VerifyInstalledLenient(b, o, manifest) ==
    o = "release-asset" => manifest /\ b = Genuine(req.version)

(* verifyInstalledBinary: throws unless this holds *)
VerifyInstalled(b, o, manifest) ==
    IF o = "source-build" THEN ~req.strict
    ELSE manifest /\ b = Genuine(req.version)

VerifyOwn ==
    /\ pc = "own"
    /\ HasValidInstallDigest
    /\ origin # None
    /\ \E manifest \in ManifestOutcomes :
          IF VerifyInstalled(bin, origin, manifest) THEN Continue("ownProbe") ELSE Throw("own")
    /\ UNCHANGED <<worldVars, diskVars, req, probed>>

ProbeOwn ==
    /\ pc = "ownProbe"
    /\ \E version \in Versions \cup {None} :
          /\ Probe(bin, version)
          /\ IF version = req.version
             THEN Return("own", bin, origin) /\ UNCHANGED diskVars
             ELSE Continue("cache") /\ RemoveAll
    /\ UNCHANGED <<worldVars, req>>

-----------------------------------------------------------------------------
(* restoreFromCache: the restored pair is in the root before it is checked; *)
(* every failure falls through to the prebuilt release.                     *)
RestoreMiss ==
    /\ pc = "cache"
    /\ Continue("prebuilt")
    /\ UNCHANGED <<worldVars, diskVars, req, probed>>

RestoreHit ==
    LET entry == cache[CacheKeyFor(req)] IN
    /\ pc = "cache"
    /\ entry # None
    /\ bin' \in {entry, Damaged(req.version)}
    /\ digest' \in {entry, None}
    /\ Continue("restored")
    /\ UNCHANGED <<worldVars, origin, req, probed>>

(* a restore that fails halfway leaves what it had extracted *)
RestoreBreaks ==
    LET entry == cache[CacheKeyFor(req)] IN
    /\ pc = "cache"
    /\ entry # None
    /\ bin' \in {bin, entry, Damaged(req.version)}
    /\ digest' \in {digest, entry, None}
    /\ Continue("prebuilt")
    /\ UNCHANGED <<worldVars, origin, req, probed>>

CheckRestored ==
    /\ pc = "restored"
    /\ IF ~HasValidInstallDigest
       THEN Continue("prebuilt") /\ RemoveBinaryAndDigest /\ UNCHANGED <<origin, probed>>
       ELSE IF ~VerifyInstalled(bin, "source-build", FALSE)
       THEN Continue("prebuilt") /\ UNCHANGED <<diskVars, probed>>
       ELSE \E version \in Versions \cup {None} :
                  /\ Probe(bin, version)
                  /\ IF version = req.version
                     THEN Continue("keepCached") /\ UNCHANGED diskVars
                     ELSE Continue("prebuilt") /\ RemoveBinaryAndDigest /\ UNCHANGED origin
    /\ UNCHANGED <<worldVars, req>>

(* writeInstalledOrigin and the return; the write may fail *)
Keep(step, via, o) ==
    /\ pc = step
    /\ \/ Return(via, bin, o) /\ origin' = o
       \/ Throw(via) /\ UNCHANGED origin
    /\ UNCHANGED <<worldVars, bin, digest, req, probed>>

KeepCached == Keep("keepCached", "cache", "source-build")

-----------------------------------------------------------------------------
(* installPrebuiltRelease                                                   *)

(* no asset for this platform, no manifest, a failed lookup, download or    *)
(* extraction: fall back to a source build                                  *)
NoPrebuilt ==
    /\ pc = "prebuilt"
    /\ Continue("cargo")
    /\ UNCHANGED <<worldVars, diskVars, req, probed>>

CopyPrebuilt ==
    /\ pc = "prebuilt"
    /\ req.version \in Published
    /\ origin' = None
    /\ bin' \in {Genuine(req.version), Damaged(req.version)}
    /\ Continue("copied")
    /\ UNCHANGED <<worldVars, digest, req, probed>>

FailPrebuilt ==
    /\ pc = "copied"
    /\ RemoveAll
    /\ Throw("prebuilt")
    /\ UNCHANGED <<worldVars, req, probed>>

DigestPrebuilt ==
    /\ pc = "copied"
    /\ digest' = bin
    /\ Continue("digested")
    /\ UNCHANGED <<worldVars, bin, origin, req, probed>>

(* slip: a binary that fails verification stays where it is *)
VerifyPrebuiltKeepsFiles ==
    /\ pc = "digested"
    /\ \E manifest \in ManifestOutcomes :
          IF VerifyInstalled(bin, "release-asset", manifest) THEN Continue("verified")
          ELSE Throw("prebuilt")
    /\ UNCHANGED <<worldVars, diskVars, req, probed>>

VerifyPrebuilt ==
    /\ pc = "digested"
    /\ \E manifest \in ManifestOutcomes :
          IF VerifyInstalled(bin, "release-asset", manifest)
          THEN Continue("verified") /\ UNCHANGED <<bin, digest>>
          ELSE Throw("prebuilt") /\ RemoveBinaryAndDigest
    /\ UNCHANGED <<worldVars, origin, req, probed>>

ProbePrebuilt ==
    /\ pc = "verified"
    /\ \E version \in Versions \cup {None} :
          /\ Probe(bin, version)
          /\ IF version = req.version
             THEN Continue("keepPrebuilt") /\ UNCHANGED <<bin, digest>>
             ELSE Continue("cargo") /\ RemoveBinaryAndDigest
    /\ UNCHANGED <<worldVars, origin, req>>

KeepPrebuilt == Keep("keepPrebuilt", "prebuilt", "release-asset")

-----------------------------------------------------------------------------
(* ensureCargoAvailable and cargoInstall                                    *)

(* --rev with the resolved commit, --tag when there is none *)
CargoBuild == Built(IF req.commit # None THEN req.commit ELSE tags[req.version])

(* no cargo, a failed build, or one stopped at its timeout *)
CargoFails ==
    /\ pc = "cargo"
    /\ bin' \in {bin, CargoBuild}
    /\ Throw("cargo")
    /\ UNCHANGED <<worldVars, digest, origin, req, probed>>

CargoInstall ==
    /\ pc = "cargo"
    /\ bin' = CargoBuild
    /\ Continue("built")
    /\ UNCHANGED <<worldVars, digest, origin, req, probed>>

VerifyBuilt ==
    /\ pc = "built"
    /\ IF VerifyInstalled(bin, "source-build", FALSE) THEN Continue("builtProbe")
       ELSE Throw("cargo")
    /\ UNCHANGED <<worldVars, diskVars, req, probed>>

ProbeBuilt ==
    /\ pc = "builtProbe"
    /\ \E version \in Versions \cup {None} :
          /\ Probe(bin, version)
          /\ IF version = req.version THEN Continue("seal") ELSE Throw("cargo")
    /\ UNCHANGED <<worldVars, diskVars, req>>

(* the digest sidecar first, then the origin, then the cache *)
SealDigest ==
    /\ pc = "seal"
    /\ \/ digest' = bin /\ Continue("sealOrigin")
       \/ UNCHANGED digest /\ Throw("cargo")
    /\ UNCHANGED <<worldVars, bin, origin, req, probed>>

SealOrigin ==
    /\ pc = "sealOrigin"
    /\ \/ origin' = "source-build" /\ Continue("save")
       \/ UNCHANGED origin /\ Throw("cargo")
    /\ UNCHANGED <<worldVars, bin, digest, req, probed>>

(* saveToCache: an existing entry is never replaced, a failed save ignored *)
SaveToCache ==
    LET key == CacheKeyFor(req) IN
    /\ pc = "save"
    /\ cache' \in {cache, [cache EXCEPT ![key] = IF @ = None THEN bin ELSE @]}
    /\ Return("cargo", bin, "source-build")
    /\ UNCHANGED <<tags, found, runs, moves, diskVars, req, probed>>

-----------------------------------------------------------------------------
(* The world around an invocation                                           *)

Forget ==
    /\ pc' = "idle"
    /\ req' = None
    /\ probed' = {}
    /\ result' = NoResult

(* the job is cancelled or the runner is lost: the files stay *)
Killed ==
    /\ ~Idle
    /\ Forget
    /\ UNCHANGED <<worldVars, diskVars>>

(* ... or between the removals of a binary and of its sidecars *)
KilledWhileRemoving ==
    /\ pc \in {"own", "ownProbe", "restored", "copied", "digested", "verified"}
    /\ bin # None
    /\ bin' = None
    /\ digest' \in {digest, None}
    /\ Forget
    /\ UNCHANGED <<worldVars, origin>>

(* the next job starts with an empty RUNNER_TEMP *)
NewJob ==
    /\ Idle
    /\ Forget
    /\ RemoveAll
    /\ UNCHANGED worldVars

MoveTag(v) ==
    /\ moves < MaxMoves
    /\ moves' = moves + 1
    /\ \E c \in Commits : tags' = [tags EXCEPT ![v] = c]
    /\ UNCHANGED <<cache, found, runs, diskVars, pc, req, probed, result>>

(* another leg of the matrix saves its own build of the same pin first *)
OtherLegSaves(v) ==
    /\ \E k \in {tags[v], v} :
          /\ cache[k] = None
          /\ cache' = [cache EXCEPT ![k] = Built(tags[v])]
    /\ UNCHANGED <<tags, found, runs, moves, diskVars, pc, req, probed, result>>

Steps ==
    \/ FindExisting
    \/ NoRoot \/ NothingInRoot \/ DiscardUnsealed \/ VerifyOwn \/ ProbeOwn
    \/ RestoreMiss \/ RestoreHit \/ RestoreBreaks \/ CheckRestored \/ KeepCached
    \/ NoPrebuilt \/ CopyPrebuilt \/ FailPrebuilt \/ DigestPrebuilt
    \/ VerifyPrebuilt \/ ProbePrebuilt \/ KeepPrebuilt
    \/ CargoFails \/ CargoInstall \/ VerifyBuilt \/ ProbeBuilt
    \/ SealDigest \/ SealOrigin \/ SaveToCache

World ==
    \/ \E v \in Versions, strict \in BOOLEAN : Invoke(v, strict)
    \/ Killed \/ KilledWhileRemoving
    \/ NewJob
    \/ \E v \in Versions : MoveTag(v) \/ OtherLegSaves(v)

Next == Steps \/ World

Spec == Init /\ [][Next]_vars

-----------------------------------------------------------------------------
(* Properties                                                              *)

Active == {"find", "own", "ownProbe", "cache", "restored", "keepCached", "prebuilt",
           "copied", "digested", "verified", "keepPrebuilt", "cargo", "built",
           "builtProbe", "seal", "sealOrigin", "save"}

TypeOK ==
    /\ tags \in [Versions -> Commits]
    /\ cache \in [Keys -> Contents \cup {None}]
    /\ bin \in Contents \cup {None}
    /\ digest \in Contents \cup {None}
    /\ origin \in Origins \cup {None}
    /\ found \in Contents \cup {None}
    /\ pc \in Active \cup {"idle", "done", "failed"}
    /\ req \in Requests \cup {None}
    /\ probed \in SUBSET Contents
    /\ result \in Results
    /\ runs \in Nat
    /\ moves \in Nat

(* An executable is run, if only for `version`, after its digest matched    *)
(* the published one or after it was built from the repository: never one   *)
(* that was damaged or left over, whatever was interrupted before.          *)
OnlyVerifiedRuns ==
    \A b \in probed : b = Genuine(req.version) \/ b.kind = "commit"

(* What ensureCanaryInstalled returns reports the requested version, is     *)
(* still what is on the disk, and its recorded origin is the true one.      *)
ReturnsTheRequestedEngine ==
    pc = "done" =>
        /\ Says(result.binary) = req.version
        /\ result.origin = "release-asset" <=> result.binary = Genuine(req.version)
        /\ result.via # "found" => bin = result.binary

(* strict-integrity: only a binary proved against the published manifest.   *)
StrictMeansPublished ==
    pc = "done" /\ req.strict => result.binary = Genuine(req.version)

(* The digest and origin sidecars never vouch together for a binary they    *)
(* do not belong to, at any point an invocation may be killed at.           *)
SidecarsTellTheTruth ==
    HasValidInstallDigest =>
        /\ origin = "release-asset" => bin.kind = "asset"
        /\ origin = "source-build" => bin.kind = "commit"

(* "a re-pointed tag can never alias a cached build produced from a         *)
(* different commit" (cacheKeyFor): what is saved under a commit was built  *)
(* from it, and a run that resolved a commit and takes its binary from the  *)
(* cache or from cargo runs a build of that commit.                         *)
CommitPinHonoured ==
    /\ \A c \in Commits : cache[c] \in {None, Built(c)}
    /\ pc = "done" /\ req.commit # None /\ result.via \in {"cache", "cargo"} =>
          result.binary = Built(req.commit)

(* A prebuilt release that failed its verification leaves nothing behind.   *)
NoRejectedAssetStays ==
    pc = "failed" /\ result.via = "prebuilt" /\ HasValidInstallDigest =>
        bin = Genuine(req.version)

(* What is returned is what was asked for: the requested version, from the  *)
(* origin it is said to have, and published if it has to be.                *)
ReturnsAsRequested == ReturnsTheRequestedEngine /\ StrictMeansPublished

(* What lies in the install root vouches for nothing it should not: neither *)
(* after a kill between two writes nor after a rejected release asset.      *)
RootTellsTheTruth == SidecarsTellTheTruth /\ NoRejectedAssetStays

(* "its install-time digest or version does not match; installing a fresh   *)
(* copy": an engine of another version that an earlier step of the job      *)
(* installed is replaced, it does not make the run fail.                    *)
EarlierVersionIsReplaced ==
    pc = "failed" /\ result.via = "own" /\ ~req.strict => Says(bin) = req.version
==============================================================================

---------------------------- MODULE InstallProofs ----------------------------
(***************************************************************************)
(* Proofs about Install: the inductive invariant that says, for every step *)
(* of ensureCanaryInstalled, what the install root holds when the step is  *)
(* reached, and the safety properties it implies for any number of         *)
(* invocations, versions, commits and tag moves.  Then of Download, the    *)
(* fetch of the release asset it installs: its safety properties for every *)
(* limit, body and framing, and that it implements AtomicFetch.            *)
(***************************************************************************)
EXTENDS Install, Download, TLAPS

(* Nothing but a source build is ever saved, under a commit only its own.   *)
CacheInv ==
    /\ \A k \in Keys : cache[k] # None => cache[k].kind = "commit"
    /\ \A c \in Commits : cache[c] \in {None, Built(c)}

(* A build this run may return: of the commit it resolved, if it did.       *)
PinnedBuild(b) ==
    /\ b \in Contents
    /\ b.kind = "commit"
    /\ req.commit # None => b = Built(req.commit)

(* From the moment the root was found unusable until it is sealed again     *)
(* there is no origin sidecar in it.                                        *)
Unsealed == {"cache", "restored", "keepCached", "prebuilt", "copied", "digested",
             "verified", "keepPrebuilt", "cargo", "built", "builtProbe", "seal", "sealOrigin"}

StepInv ==
    /\ pc # "idle" => req \in Requests
    /\ pc \in Unsealed => origin = None
    /\ pc = "ownProbe" => HasValidInstallDigest /\ origin # None
          /\ (origin = "source-build" => ~req.strict)
          /\ (origin = "release-asset" => bin = Genuine(req.version))
    /\ pc = "restored" /\ HasValidInstallDigest => PinnedBuild(bin)
    /\ pc = "keepCached" =>
          PinnedBuild(bin) /\ ~req.strict /\ Says(bin) = req.version
    /\ pc \in {"verified", "keepPrebuilt"} =>
          req.version \in Published /\ bin = Genuine(req.version)
    /\ pc = "keepPrebuilt" => Says(bin) = req.version
    /\ pc \in {"built", "builtProbe", "seal", "sealOrigin", "save"} => PinnedBuild(bin)
    /\ pc \in {"builtProbe", "seal", "sealOrigin", "save"} => ~req.strict
    /\ pc \in {"seal", "sealOrigin", "save"} => Says(bin) = req.version

DoneInv ==
    /\ NoRejectedAssetStays
    /\ pc = "done" => ReturnsTheRequestedEngine /\ StrictMeansPublished
    /\ pc = "done" /\ req.commit # None /\ result.via \in {"cache", "cargo"} =>
          result.binary = Built(req.commit)

ProbedInv == (probed # {} => req \in Requests) /\ OnlyVerifiedRuns

IInv == TypeOK /\ CacheInv /\ StepInv /\ SidecarsTellTheTruth /\ DoneInv /\ ProbedInv

-----------------------------------------------------------------------------
(* The invariant holds in the empty world and every step preserves it.      *)
LEMMA InitIInv == Init => IInv
  BY InstallAssumption DEF Init, NoResult, IInv, TypeOK, CacheInv, StepInv, DoneInv, ProbedInv,
     SidecarsTellTheTruth, HasValidInstallDigest, OnlyVerifiedRuns, NoRejectedAssetStays, Results, Vias, Unsealed,
     Keys

(* Every step of an invocation, of a kill and of the world preserves it.    *)
LEMMA StepIInv == IInv /\ Next => IInv'
<1> USE InstallAssumption DEF IInv, TypeOK, CacheInv, StepInv, DoneInv, ProbedInv,
        SidecarsTellTheTruth, HasValidInstallDigest, OnlyVerifiedRuns, NoRejectedAssetStays,
        ReturnsTheRequestedEngine, StrictMeansPublished, PinnedBuild, Unsealed,
        Active, Contents, Requests, Results, Origins, Vias, Keys, Built, Genuine, Says,
        worldVars, diskVars
<1> SUFFICES ASSUME IInv, Next PROVE IInv'
  OBVIOUS
<1>1. CASE FindExisting
  <2>1. CASE UNCHANGED probed /\ Continue("own")
    BY <1>1, <2>1 DEF FindExisting, Continue
  <2>2. ASSUME NEW version \in Versions \cup {None},
               found = Genuine(req.version), req.version \in Published,
               Probe(found, version),
               IF version = req.version
               THEN Return("found", found, "release-asset") ELSE Continue("own")
        PROVE  IInv'
    <3>1. CASE version = req.version
      BY <1>1, <2>2, <3>1 DEF FindExisting, Return, Probe
    <3>2. CASE version # req.version
      BY <1>1, <2>2, <3>2 DEF FindExisting, Continue, Probe
    <3> QED
      BY <3>1, <3>2
  <2> QED
    BY <1>1, <2>1, <2>2 DEF FindExisting, ManifestOutcomes
<1>2. CASE NoRoot
  BY <1>2 DEF NoRoot, Throw
<1>3. CASE NothingInRoot
  BY <1>3 DEF NothingInRoot, Continue
<1>4. CASE DiscardUnsealed
  BY <1>4 DEF DiscardUnsealed, RemoveAll, RemoveBinaryAndDigest, Continue
<1>5. CASE VerifyOwn
  BY <1>5 DEF VerifyOwn, VerifyInstalled, ManifestOutcomes, Continue, Throw
<1>6. CASE ProbeOwn
  BY <1>6 DEF ProbeOwn, Probe, Return, Continue, RemoveAll, RemoveBinaryAndDigest
<1>7. CASE RestoreMiss
  BY <1>7 DEF RestoreMiss, Continue
<1>8. CASE RestoreHit
  BY <1>8 DEF RestoreHit, Continue, CacheKeyFor, Damaged
<1>9. CASE RestoreBreaks
  BY <1>9 DEF RestoreBreaks, Continue, CacheKeyFor, Damaged
<1>10. CASE CheckRestored
  BY <1>10 DEF CheckRestored, Continue, Probe, VerifyInstalled, RemoveBinaryAndDigest
<1>11. CASE KeepCached
  BY <1>11 DEF KeepCached, Keep, Return, Throw
<1>12. CASE NoPrebuilt
  BY <1>12 DEF NoPrebuilt, Continue
<1>13. CASE CopyPrebuilt
  BY <1>13 DEF CopyPrebuilt, Continue, Damaged
<1>14. CASE FailPrebuilt
  BY <1>14 DEF FailPrebuilt, RemoveAll, RemoveBinaryAndDigest, Throw
<1>15. CASE DigestPrebuilt
  BY <1>15 DEF DigestPrebuilt, Continue
<1>16. CASE VerifyPrebuilt
  <2>1. CASE pc' = "verified"
    <3>1. bin = Genuine(req.version) /\ req.version \in Published /\ UNCHANGED <<bin, digest>>
      BY <1>16, <2>1 DEF VerifyPrebuilt, VerifyInstalled, ManifestOutcomes, Continue, Throw
    <3> QED
      BY <1>16, <2>1, <3>1 DEF VerifyPrebuilt, Continue, Throw
  <2>2. CASE pc' # "verified"
    BY <1>16, <2>2 DEF VerifyPrebuilt, Continue, Throw, RemoveBinaryAndDigest
  <2> QED
    BY <2>1, <2>2
<1>17. CASE ProbePrebuilt
  <2>1. PICK version \in Versions \cup {None} :
           /\ Probe(bin, version)
           /\ IF version = req.version
              THEN Continue("keepPrebuilt") /\ UNCHANGED <<bin, digest>>
              ELSE Continue("cargo") /\ RemoveBinaryAndDigest
    BY <1>17 DEF ProbePrebuilt
  <2>2. CASE version = req.version
    BY <1>17, <2>1, <2>2 DEF ProbePrebuilt, Probe, Continue
  <2>3. CASE version # req.version
    BY <1>17, <2>1, <2>3 DEF ProbePrebuilt, Probe, Continue, RemoveBinaryAndDigest
  <2> QED
    BY <2>2, <2>3
<1>18. CASE KeepPrebuilt
  BY <1>18 DEF KeepPrebuilt, Keep, Return, Throw
<1>19. CASE CargoFails
  BY <1>19 DEF CargoFails, CargoBuild, Throw
<1>20. CASE CargoInstall
  BY <1>20 DEF CargoInstall, CargoBuild, Continue
<1>21. CASE VerifyBuilt
  BY <1>21 DEF VerifyBuilt, VerifyInstalled, Continue, Throw
<1>22. CASE ProbeBuilt
  BY <1>22 DEF ProbeBuilt, Probe, Continue, Throw
<1>23. CASE SealDigest
  BY <1>23 DEF SealDigest, Continue, Throw
<1>24. CASE SealOrigin
  BY <1>24 DEF SealOrigin, Continue, Throw
<1>25. CASE SaveToCache
  <2>1. CASE cache' = cache
    BY <1>25, <2>1 DEF SaveToCache, Return
  <2>2. CASE cache' # cache
    <3> DEFINE key == CacheKeyFor(req)
    <3>1. req \in Requests /\ pc = "save" /\ PinnedBuild(bin)
      BY <1>25 DEF SaveToCache
    <3>2. key \in Keys /\ (key \in Commits => bin = Built(key))
      BY <3>1 DEF CacheKeyFor
    <3>3. cache' = [cache EXCEPT ![key] = IF cache[key] = None THEN bin ELSE cache[key]]
      BY <1>25, <2>2 DEF SaveToCache
    <3> HIDE DEF key
    <3>4. cache' \in [Keys -> Contents \cup {None}]
      BY <3>1, <3>2, <3>3
    <3>5. CacheInv'
      BY <3>1, <3>2, <3>3
    <3> QED
      BY <1>25, <3>4, <3>5 DEF SaveToCache, Return
  <2> QED
    BY <2>1, <2>2
<1>26. CASE Killed
  BY <1>26 DEF Killed, Forget, NoResult
<1>27. CASE KilledWhileRemoving
  BY <1>27 DEF KilledWhileRemoving, Forget, NoResult
<1>28. CASE NewJob
  BY <1>28 DEF NewJob, Forget, NoResult, RemoveAll, RemoveBinaryAndDigest
<1>29. ASSUME NEW v \in Versions, NEW strict \in BOOLEAN, Invoke(v, strict) PROVE IInv'
  BY <1>29 DEF Invoke, NoResult, Idle
<1>30. ASSUME NEW v \in Versions, MoveTag(v) PROVE IInv'
  BY <1>30 DEF MoveTag
<1>31. ASSUME NEW v \in Versions, OtherLegSaves(v) PROVE IInv'
  BY <1>31 DEF OtherLegSaves
<1> HIDE InstallAssumption DEF IInv, TypeOK, CacheInv, StepInv, DoneInv, ProbedInv,
        SidecarsTellTheTruth, HasValidInstallDigest, OnlyVerifiedRuns, NoRejectedAssetStays,
        ReturnsTheRequestedEngine, StrictMeansPublished, PinnedBuild, Unsealed,
        Active, Contents, Requests, Results, Origins, Vias, Keys, Built, Genuine, Says,
        worldVars, diskVars
<1> QED
  BY <1>1, <1>2, <1>3, <1>4, <1>5, <1>6, <1>7, <1>8, <1>9, <1>10, <1>11, <1>12, <1>13, <1>14, <1>15, <1>16, <1>17, <1>18, <1>19, <1>20, <1>21, <1>22, <1>23, <1>24, <1>25, <1>26, <1>27, <1>28, <1>29, <1>30, <1>31 DEF Next, Steps, World

-----------------------------------------------------------------------------
(* What ensureCanaryInstalled promises, for any number of invocations.      *)

(* The inductive invariant holds of every behaviour.                        *)
THEOREM Invariance == Spec => []IInv
<1>1. Init => IInv
  BY InitIInv
<1>2. IInv /\ [Next]_vars => IInv'
  <2> SUFFICES ASSUME IInv, [Next]_vars PROVE IInv'
    OBVIOUS
  <2>1. CASE Next
    BY <2>1, StepIInv
  <2>2. CASE UNCHANGED vars
    BY <2>2 DEF vars, IInv, TypeOK, CacheInv, StepInv, DoneInv, ProbedInv, PinnedBuild,
       SidecarsTellTheTruth, HasValidInstallDigest, OnlyVerifiedRuns, NoRejectedAssetStays,
       ReturnsTheRequestedEngine, StrictMeansPublished
  <2> QED
    BY <2>1, <2>2
<1> QED
  BY <1>1, <1>2, PTL DEF Spec

(* The files, the cache and the step stay of their types. *)
THEOREM TypeCorrect == Spec => []TypeOK
<1>1. IInv => TypeOK
  BY DEF IInv
<1> QED
  BY <1>1, Invariance, PTL

(* findExisting, restoreFromCache, installPrebuiltRelease and cargoInstall  *)
(* run, if only for `version`, nothing that was not verified or built here. *)
THEOREM OnlyVerifiedRunsHolds == Spec => []OnlyVerifiedRuns
<1>1. IInv => OnlyVerifiedRuns
  BY DEF IInv, ProbedInv
<1> QED
  BY <1>1, Invariance, PTL

(* Every way out of ensureCanaryInstalled that does not throw returns an    *)
(* engine of the requested version, still on the disk, with its true origin.*)
THEOREM ReturnsTheRequestedEngineHolds == Spec => []ReturnsTheRequestedEngine
<1>1. IInv => ReturnsTheRequestedEngine
  BY DEF IInv, DoneInv, ReturnsTheRequestedEngine
<1> QED
  BY <1>1, Invariance, PTL

(* With strict-integrity only a binary proved by the manifest is returned.  *)
THEOREM StrictMeansPublishedHolds == Spec => []StrictMeansPublished
<1>1. IInv => StrictMeansPublished
  BY DEF IInv, DoneInv, StrictMeansPublished
<1> QED
  BY <1>1, Invariance, PTL

(* A kill between any two writes or removals never leaves a binary whose    *)
(* sidecars vouch for it with another one's origin.                         *)
THEOREM SidecarsTellTheTruthHolds == Spec => []SidecarsTellTheTruth
<1>1. IInv => SidecarsTellTheTruth
  BY DEF IInv
<1> QED
  BY <1>1, Invariance, PTL

(* cacheKeyFor pins what is restored to the resolved commit.                *)
THEOREM CommitPinHonouredHolds == Spec => []CommitPinHonoured
<1>1. IInv => CommitPinHonoured
  BY DEF IInv, CacheInv, DoneInv, CommitPinHonoured
<1> QED
  BY <1>1, Invariance, PTL

(* A prebuilt engine that failed verification is never left sealed.         *)
THEOREM NoRejectedAssetStaysHolds == Spec => []NoRejectedAssetStays
<1>1. IInv => NoRejectedAssetStays
  BY DEF IInv, DoneInv
<1> QED
  BY <1>1, Invariance, PTL

(* ensureCanaryInstalled returns the engine asked for, and under strict       *)
(* verification one that matches a published checksum.                      *)
THEOREM ReturnsAsRequestedHolds == Spec => []ReturnsAsRequested
<1> QED
  BY ReturnsTheRequestedEngineHolds, StrictMeansPublishedHolds, PTL DEF ReturnsAsRequested

(* Whatever step a kill interrupts, the install root never vouches for a     *)
(* binary by another's origin, nor for one whose verification failed.       *)
THEOREM RootTellsTheTruthHolds == Spec => []RootTellsTheTruth
<1> QED
  BY SidecarsTellTheTruthHolds, NoRejectedAssetStaysHolds, PTL DEF RootTellsTheTruth

-----------------------------------------------------------------------------
(* Download.  FetchIInv relates the three things that fail at different     *)
(* moments, the promise, the response and the write stream.                 *)

(* The budget is armed and the response alive only while the promise is     *)
(* pending; a response that delivers has a live file with all it delivered. *)
FlowInv ==
    /\ call = "idle" => response = "none" /\ timer = "none"
    /\ call \notin {"idle", "pending"} => timer = "off" /\ response \notin {"flowing", "paused"}
    /\ response \in {"flowing", "paused"} => file = "live"
    /\ response = "none" => file = "none" /\ received = 0
    /\ response \in {"none", "flowing", "paused", "ended"} => written = received
    /\ response \in {"flowing", "paused", "ended"} /\ framing = "length" => body <= Limit
    /\ response = "ended" /\ framing # "close" => received = body
    /\ call = "pending" => timer = "armed"
    /\ response = "paused" => flushed < written
    /\ call = "pending" /\ response = "ended" => file = "ending"
    /\ response = "destroyed" => call \notin {"idle", "pending"}

(* The stream: what is on the disk, and that it is closed in time.          *)
FileInv ==
    /\ written <= Limit
    /\ framing = "length" /\ body > Limit => written = 0
    /\ flushed <= written
    /\ file = "none" => ~opened
    /\ file = "ending" => response = "ended"
    /\ file = "live" => call = "pending"
    /\ exists => opened
    /\ opened /\ call # "rejected" => exists
    /\ call = "pending" => file \in {"none", "live", "ending"}
    /\ call = "closing" <=> file = "doomed"
    /\ file = "finished" => call = "resolved"
    /\ call \in {"removing", "rejected"} => file \in {"none", "closed"}
    /\ call = "rejected" /\ "rm" \notin faults => ~exists

FetchIInv == DownloadTypeOK /\ FlowInv /\ FileInv /\ OnlyWholeFiles
          /\ (call = "resolved" => response = "ended")

(* Every step preserves the invariant: one case for each handler of         *)
(* httpsGetFile and consumeResponse.                                        *)
LEMMA StepFetchIInv == FetchIInv /\ [DownloadNext]_downloadVars => FetchIInv'
<1> USE DownloadAssumption DEF FetchIInv, DownloadTypeOK, FlowInv, FileInv, OnlyWholeFiles, netVars, fileVars
<1> SUFFICES ASSUME FetchIInv, [DownloadNext]_downloadVars PROVE FetchIInv'
  OBVIOUS
<1>1. CASE RejectUrl
  BY <1>1 DEF RejectUrl, Fail
<1>2. CASE Start
  BY <1>2 DEF Start
<1>3. CASE NoBody
  BY <1>3 DEF NoBody, Fail
<1>4. CASE Respond
  BY <1>4 DEF Respond
<1>5. ASSUME NEW n \in 1..MaxBody, Data(n) PROVE FetchIInv'
  <2>1. CASE received + n > Limit
    BY <1>5, <2>1 DEF Data, Fail
  <2>2. CASE received + n <= Limit
    BY <1>5, <2>2 DEF Data
  <2> QED
    BY <2>1, <2>2
<1>6. CASE ResponseEnds
  BY <1>6 DEF ResponseEnds, End
<1>7. CASE ResponseBreaks
  BY <1>7 DEF ResponseBreaks, End, Fail
<1>8. CASE FileOpens
  BY <1>8 DEF FileOpens
<1>9. CASE FileFails
  BY <1>9 DEF FileFails
<1>10. CASE Flush
  BY <1>10 DEF Flush
<1>11. CASE Finish
  BY <1>11 DEF Finish
<1>12. CASE FileCloses
  BY <1>12 DEF FileCloses
<1>13. CASE TotalTimeout
  BY <1>13 DEF TotalTimeout, Fail
<1>14. CASE RemovePartial
  BY <1>14 DEF RemovePartial
<1>15. CASE UNCHANGED downloadVars
  BY <1>15 DEF downloadVars
<1> QED
  BY <1>1, <1>2, <1>3, <1>4, <1>5, <1>6, <1>7, <1>8, <1>9, <1>10, <1>11, <1>12, <1>13,
     <1>14, <1>15 DEF DownloadNext

(* The invariant the properties below rest on. *)
THEOREM FetchInvariance == DownloadSpec => []FetchIInv
<1>1. DownloadInit => FetchIInv
  <2> SUFFICES ASSUME DownloadInit PROVE FetchIInv
    OBVIOUS
  <2> USE DownloadAssumption DEF DownloadInit
  <2>1. DownloadTypeOK
    <3>1. body \in Nat
      OBVIOUS
    <3> QED
      BY <3>1, Zenon DEF DownloadTypeOK
  <2>2. FlowInv
    BY DEF FlowInv
  <2>3. FileInv
    BY DEF FileInv
  <2> QED
    BY <2>1, <2>2, <2>3 DEF FetchIInv, OnlyWholeFiles
<1> QED
  BY <1>1, StepFetchIInv, PTL DEF DownloadSpec

(* Every variable of httpsGetFile keeps its type. *)
THEOREM DownloadTypeCorrect == DownloadSpec => []DownloadTypeOK
<1>1. FetchIInv => DownloadTypeOK
  BY DEF FetchIInv
<1> QED
  BY <1>1, FetchInvariance, PTL

(* httpsGetFile resolves only with a whole, closed file within the limit,   *)
(* for every body, framing and order of chunks, flushes and failures.       *)
THEOREM OnlyWholeFilesHolds == DownloadSpec => []OnlyWholeFiles
<1>1. FetchIInv => OnlyWholeFiles
  BY DEF FetchIInv
<1> QED
  BY <1>1, FetchInvariance, PTL

(* httpsGetFile rejects only after the stream is closed and the file gone.  *)
THEOREM NothingLeftBehindHolds == DownloadSpec => []NothingLeftBehind
<1>1. FetchIInv => NothingLeftBehind
  BY DEF FetchIInv, FileInv, NothingLeftBehind
<1> QED
  BY <1>1, FetchInvariance, PTL

(* A paused response is resumed, an ended one finishes its file, a failure   *)
(* closes its stream, and all the while the total timeout is armed: no      *)
(* order of chunks, flushes and failures leaves the promise without what    *)
(* settles it.                                                              *)
THEOREM NeverStallsHolds == DownloadSpec => []NeverStalls
<1>1. FetchIInv => NeverStalls
  BY DEF FetchIInv, FlowInv, FileInv, NeverStalls
<1> QED
  BY <1>1, FetchInvariance, PTL

(* consumeResponse never lets a unit over the limit through.                *)
THEOREM WithinBudgetHolds == DownloadSpec => []WithinBudget
<1>1. FetchIInv /\ NeverStalls => WithinBudget
  BY DEF FetchIInv, FlowInv, FileInv, WithinBudget, Settled
<1> QED
  BY <1>1, FetchInvariance, NeverStallsHolds, PTL

(* httpsGetFile leaves a whole file or, once it has rejected, no file.        *)
THEOREM WholeOrGoneHolds == DownloadSpec => []WholeOrGone
<1> QED
  BY OnlyWholeFilesHolds, NothingLeftBehindHolds, PTL DEF WholeOrGone

(* While the promise is open a step may change what is on the disk, but a   *)
(* file that is there does not vanish.                                      *)
LEMMA OpenStepsWork ==
    ASSUME FetchOutcome = "pending", FetchOutcome' = "pending",
           exists => exists', UNCHANGED faults
    PROVE  Promised!Work \/ UNCHANGED <<FetchOutcome, FileOnDisk, "rm" \in faults>>
  BY DEF Promised!Work, FileOnDisk

(* Download implements AtomicFetch: initial states map to initial states and *)
(* every step to a step of the promise or to a stutter.  In particular no   *)
(* handler that runs late settles a fetch again or touches its file.        *)
THEOREM FetchRefinement == DownloadSpec => KeepsFetchPromise
<1>1. DownloadInit => Promised!Init
  BY DEF DownloadInit, FetchOutcome, FileOnDisk, Promised!Init
<1>2. FetchIInv /\ [DownloadNext]_downloadVars => [Promised!Next]_(Promised!vars)
  <2> SUFFICES ASSUME FetchIInv, [DownloadNext]_downloadVars PROVE [Promised!Next]_(Promised!vars)
    OBVIOUS
  <2> USE DEF Promised!vars, netVars, fileVars
  <2>1. CASE RejectUrl \/ Start
    <3>1. ~exists /\ ~exists' /\ UNCHANGED faults
      BY <2>1 DEF RejectUrl, Start, Fail, FetchIInv, FlowInv, FileInv
    <3>2. FetchOutcome = "idle" /\ FetchOutcome' = "pending"
      BY <2>1 DEF RejectUrl, Start, Fail, FetchOutcome, FetchIInv, FlowInv, FileInv
    <3> QED
      BY <3>1, <3>2 DEF FileOnDisk, Promised!Begin, Promised!Next
  <2>2. CASE Finish
    <3>1. FetchOutcome = "pending" /\ FetchOutcome' = "delivered"
      BY <2>2 DEF Finish, FetchOutcome
    <3>2. FileOnDisk = "whole" /\ UNCHANGED <<FileOnDisk, faults>>
      BY <2>2 DEF Finish, FileOnDisk, FetchIInv, FlowInv, FileInv
    <3> QED
      BY <3>1, <3>2 DEF Promised!Deliver, Promised!Next
  <2>3. CASE RemovePartial
    <3>1. FetchOutcome = "pending" /\ FetchOutcome' = "refused" /\ UNCHANGED faults
      BY <2>3 DEF RemovePartial, FetchOutcome
    <3>2. FileOnDisk' = "none" \/ ("rm" \in faults /\ UNCHANGED FileOnDisk)
      BY <2>3 DEF RemovePartial, FileOnDisk
    <3> QED
      BY <3>1, <3>2 DEF Promised!Refuse, Promised!Next
  <2>4. CASE FileCloses /\ call # "closing"
    BY <2>4 DEF FileCloses, FetchOutcome, FileOnDisk
  <2>5. CASE \/ NoBody \/ Respond \/ ResponseEnds \/ ResponseBreaks \/ FileOpens \/ FileFails
             \/ Flush \/ TotalTimeout \/ (FileCloses /\ call = "closing")
             \/ \E n \in 1..MaxBody : Data(n)
    <3>1. call \in {"pending", "closing"}
      BY <2>5 DEF NoBody, Respond, ResponseEnds, ResponseBreaks, FileOpens, FileFails, Flush,
         TotalTimeout, Data, FetchIInv, DownloadTypeOK, FlowInv, FileInv, OnlyWholeFiles
    <3>2. call' \in {"pending", "closing", "removing"}
      BY <2>5, <3>1 DEF NoBody, Respond, ResponseEnds, ResponseBreaks, End, Fail, FileOpens,
         FileFails, FileCloses, Flush, TotalTimeout, Data
    <3>3. (exists => exists') /\ UNCHANGED faults
      BY <2>5 DEF NoBody, Respond, ResponseEnds, ResponseBreaks, End, Fail, FileOpens,
         FileFails, FileCloses, Flush, TotalTimeout, Data
    <3>4. FetchOutcome = "pending" /\ FetchOutcome' = "pending"
      BY <3>1, <3>2 DEF FetchOutcome
    <3> QED
      BY <3>3, <3>4, OpenStepsWork DEF Promised!Next
  <2>6. CASE UNCHANGED downloadVars
    BY <2>6 DEF downloadVars, FetchOutcome, FileOnDisk
  <2> QED
    BY <2>1, <2>2, <2>3, <2>4, <2>5, <2>6 DEF DownloadNext
<1> QED
  BY <1>1, <1>2, FetchInvariance, PTL DEF DownloadSpec, KeepsFetchPromise, Promised!Spec
==============================================================================

---------------------------- MODULE FixturePacks -----------------------------
(***************************************************************************)
(* ensureVerifiedPack of src/canary.ts with its `download` callback played *)
(* by downloadVerifiedPack and verifyPackDigest, the downloader and the    *)
(* check its documentation asks of the caller.  Several calls, one after   *)
(* another, share one directory; all jobs share the Actions cache; the     *)
(* release that publishes the packs may be republished at any time, and a  *)
(* call may be killed between two steps and in the middle of a removal, a  *)
(* restore or a copy.                                                      *)
(*                                                                         *)
(* A pack is known by its digest, which is injective: computePackDigest of *)
(* a tree is d exactly when the tree is Tree(d).  The archive that packs a *)
(* tree is known by the same d, any other file by Damaged.                 *)
(***************************************************************************)
EXTENDS Naturals, Sequences, Functions

CONSTANTS
    Protocols,     \* protocol numbers that name archives
    Digests,       \* canonical pack digests
    PathsOf,       \* the relative paths of the files of each pack
    Damaged,       \* an archive that packs no pack
    None,          \* undefined, absent
    Releases,      \* what the release of a version may publish
    Foreign,       \* cache entries saved by something else than this code
    MaxCalls,      \* bound: how often ensureVerifiedPack is called
    MaxMoves       \* bound: how often the release is republished

Paths == UNION {PathsOf[d] : d \in Digests}
Archives == Digests \cup {Damaged}

(* what is asked for, what the cache key and the marker are made of *)
Requests == [protocol : Protocols, digest : Digests]

Tree(d) == [p \in PathsOf[d] |-> d]
Trees == UNION {[S -> Digests] : S \in SUBSET Paths}

(* the files of f and, at other paths, those of g *)
Over(f, g) ==
    [p \in DOMAIN f \cup DOMAIN g |-> IF p \in DOMAIN f THEN f[p] ELSE g[p]]

(* some of f's files are already, or still, there *)
Parts(f) == {Restrict(f, S) : S \in SUBSET DOMAIN f}

(* a directory: whose file lies at each path, and the provenance marker *)
Directories == [files : Trees, marker : Requests \cup {None}]
NoFiles == [p \in {} |-> None]
Nothing == [files |-> NoFiles, marker |-> None]

ASSUME PacksAssumption ==
    /\ Protocols \subseteq Nat \ {0}
    /\ DOMAIN PathsOf = Digests
    /\ Damaged \notin Digests
    /\ None \notin Digests \cup {Damaged} \cup Requests \cup Directories \cup Protocols
    /\ \A r \in Releases :
          /\ r.listed \in Seq(Protocols)
          /\ r.archive \in [Protocols -> Archives]
          /\ r.checksum \in [Protocols -> Archives \cup {None}]
    /\ Foreign \subseteq Directories
    /\ \A e \in Foreign : e.marker # None => e.files = Tree(e.marker.digest)
    /\ MaxCalls \in Nat
    /\ MaxMoves \in Nat

VARIABLES
    release,    \* the assets of the release as it is published now
    cache,      \* the Actions cache: the directory saved under each key
    dir,        \* request.directory
    pc,         \* the next step of the call
    req,        \* the request
    foundEmpty, \* whether the directory was empty when the call began (history)
    restored,   \* the cache entry this call has restored (history)
    asset,      \* downloadVerifiedPack: the asset it found
    expected,   \* the checksum the manifest publishes for it
    archive,    \* what lies in the archive's staging directory
    staging,    \* the tree in the pack's staging directory, None: no directory
    calls, moves

worldVars == <<release, cache, moves>>
callVars == <<req, foundEmpty, restored, calls>>
stagingVars == <<asset, expected, archive, staging>>
vars == <<worldVars, callVars, stagingVars, dir, pc>>

AtRest == {"idle", "cache-hit", "downloaded", "thrown", "killed"}
Steps == {"restore", "validate", "clean", "list", "manifest", "fetch", "verify",
          "extract", "check", "place", "mark", "save"}

Init ==
    /\ release \in Releases
    /\ cache \in [Requests -> Foreign \cup {None}]
    /\ dir = Nothing
    /\ pc = "idle"
    /\ req = None
    /\ foundEmpty = TRUE
    /\ restored = None
    /\ asset = None
    /\ expected = None
    /\ archive = None
    /\ staging = None
    /\ calls = 0
    /\ moves = 0

Ensure(r) ==
    /\ pc \in AtRest
    /\ calls < MaxCalls
    /\ calls' = calls + 1
    /\ req' = r
    /\ foundEmpty' = (dir = Nothing)
    /\ restored' = None
    /\ pc' = "restore"
    /\ asset' = None /\ expected' = None /\ archive' = None /\ staging' = None
    /\ UNCHANGED <<worldVars, dir>>

Step(from, to) == pc = from /\ pc' = to

-----------------------------------------------------------------------------
(* restoreVerifiedPack: the entry is extracted over what the directory      *)
(* holds, and only then its marker is compared with the request.            *)
RestoreMiss ==
    /\ Step("restore", "clean")
    /\ UNCHANGED <<worldVars, callVars, stagingVars, dir>>

Extracted(f, m) ==
    dir' = [files |-> Over(f, dir.files), marker |-> IF m = None THEN dir.marker ELSE m]

RestoreHit ==
    /\ Step("restore", "validate")
    /\ cache[req] # None
    /\ restored' = cache[req]
    /\ Extracted(cache[req].files, cache[req].marker)
    /\ UNCHANGED <<worldVars, req, foundEmpty, calls, stagingVars>>

RestoreBreaks ==
    /\ Step("restore", "clean")
    /\ cache[req] # None
    /\ \E f \in Parts(cache[req].files), m \in {cache[req].marker, None} : Extracted(f, m)
    /\ UNCHANGED <<worldVars, callVars, stagingVars>>

(* slip: a hit is taken as it is *)
ValidateNothing ==
    /\ Step("validate", "cache-hit")
    /\ UNCHANGED <<worldVars, callVars, stagingVars, dir>>

Validate ==
    /\ pc = "validate"
    /\ IF dir.marker # req
       THEN pc' = "clean" /\ dir' = Nothing
       ELSE pc' = "cache-hit" /\ UNCHANGED dir
    /\ UNCHANGED <<worldVars, callVars, stagingVars>>

-----------------------------------------------------------------------------
(* slip: the directory is created where it is missing, never emptied *)
CleanNothing ==
    /\ Step("clean", "list")
    /\ staging' = NoFiles
    /\ UNCHANGED <<worldVars, callVars, asset, expected, archive, dir>>

(* ensureVerifiedPack empties the directory and calls `download`, and       *)
(* downloadVerifiedPack makes its two staging directories                   *)
Clean ==
    /\ Step("clean", "list")
    /\ dir' = Nothing
    /\ staging' = NoFiles
    /\ UNCHANGED <<worldVars, callVars, asset, expected, archive>>

(* slip: `finally` removes the archive only *)
ThrowKeepsStaging ==
    /\ pc' = "thrown"
    /\ archive' = None
    /\ UNCHANGED <<worldVars, callVars, asset, expected, staging>>

(* downloadVerifiedPack's `finally` on every failure path *)
Throw ==
    /\ pc' = "thrown"
    /\ archive' = None
    /\ staging' = None
    /\ UNCHANGED <<worldVars, callVars, asset, expected>>

(* "protocol-N" occurs in the names of protocol N and of every protocol     *)
(* of up to four digits that begins with those of N                         *)
Mentions(q, p) == \E k \in 0..3 : q \div 10^k = p

(* fetchReleaseAssetsFor, and the first archive whose name fits; the lookup *)
(* may fail                                                                 *)
ListAssets ==
    /\ pc = "list"
    /\ \/ Throw
       \/ /\ \E i \in DOMAIN release.listed :
                /\ Mentions(release.listed[i], req.protocol)
                /\ \A j \in 1..(i - 1) : ~Mentions(release.listed[j], req.protocol)
                /\ asset' = release.listed[i]
          /\ pc' = "manifest"
          /\ UNCHANGED <<worldVars, callVars, expected, archive, staging>>
    /\ UNCHANGED dir

(* lookupPublishedChecksumsFor: no entry, or none that could be had, refuses *)
LookupChecksum ==
    /\ pc = "manifest"
    /\ \/ Throw
       \/ /\ release.checksum[asset] # None
          /\ expected' = release.checksum[asset]
          /\ pc' = "fetch"
          /\ UNCHANGED <<worldVars, callVars, asset, archive, staging>>
    /\ UNCHANGED dir

(* httpsGetFile leaves the archive or throws; what it leaves may be damaged *)
FetchArchive ==
    /\ pc = "fetch"
    /\ \/ Throw
       \/ /\ archive' \in {release.archive[asset], Damaged}
          /\ pc' = "verify"
          /\ UNCHANGED <<worldVars, callVars, asset, expected, staging>>
    /\ UNCHANGED dir

(* verifyDownloadedArchive *)
VerifyArchive ==
    /\ pc = "verify"
    /\ \/ archive # expected /\ Throw
       \/ /\ archive = expected
          /\ pc' = "extract"
          /\ UNCHANGED <<worldVars, callVars, stagingVars>>
    /\ UNCHANGED dir

(* extractPrebuiltArchive: tar may not start, fail or be stopped in time;   *)
(* what is no archive it refuses.  Then downloadVerifiedPack's `finally`.   *)
ExtractArchive ==
    /\ pc = "extract"
    /\ \/ Throw
       \/ /\ archive # Damaged
          /\ staging' = Tree(archive)
          /\ archive' = None
          /\ pc' = "check"
          /\ UNCHANGED <<worldVars, callVars, asset, expected>>
    /\ UNCHANGED dir

(* verifyPackDigest of the retained staging directory                       *)
CheckDigest ==
    /\ pc = "check"
    /\ IF staging = Tree(req.digest)
       THEN pc' = "place" /\ UNCHANGED <<worldVars, callVars, stagingVars>>
       ELSE Throw
    /\ UNCHANGED dir

(* the callback puts the verified tree where it was asked to, or fails      *)
Place ==
    /\ pc = "place"
    /\ \/ /\ dir' = [dir EXCEPT !.files = Over(staging, @)]
          /\ pc' = "mark"
          /\ staging' = None
          /\ UNCHANGED <<worldVars, callVars, asset, expected, archive>>
       \/ /\ \E f \in Parts(staging) : dir' = [dir EXCEPT !.files = Over(f, @)]
          /\ Throw

-----------------------------------------------------------------------------
(* saveVerifiedPack: no marker, no save; no failure of it is an error       *)
WriteMarker ==
    /\ pc = "mark"
    /\ \/ dir' = [dir EXCEPT !.marker = req] /\ pc' = "save"
       \/ pc' = "downloaded" /\ UNCHANGED dir
    /\ UNCHANGED <<worldVars, callVars, stagingVars>>

(* a key that exists is never overwritten; the service may refuse or fail   *)
SaveVerifiedPack ==
    /\ Step("save", "downloaded")
    /\ \/ cache[req] = None /\ cache' = [cache EXCEPT ![req] = dir]
       \/ UNCHANGED cache
    /\ UNCHANGED <<release, moves, callVars, stagingVars, dir>>

-----------------------------------------------------------------------------
(* The world: kills, evictions, other jobs that save what this code saves,  *)
(* and a release that is republished.                                       *)
Kill ==
    /\ pc' = "killed"
    /\ UNCHANGED <<worldVars, callVars, stagingVars>>

Killed == pc \in Steps /\ Kill /\ UNCHANGED dir

KilledWhileRestoring ==
    /\ pc = "restore"
    /\ cache[req] # None
    /\ \E f \in Parts(cache[req].files), m \in {cache[req].marker, None} : Extracted(f, m)
    /\ Kill

KilledWhileRemoving ==
    /\ pc = "clean" \/ (pc = "validate" /\ dir.marker # req)
    /\ \E f \in Parts(dir.files), m \in {dir.marker, None} :
          dir' = [files |-> f, marker |-> m]
    /\ Kill

KilledWhilePlacing ==
    /\ pc = "place"
    /\ \E f \in Parts(staging) : dir' = [dir EXCEPT !.files = Over(f, @)]
    /\ Kill

Evict(r) ==
    /\ cache[r] # None
    /\ cache' = [cache EXCEPT ![r] = None]
    /\ UNCHANGED <<release, moves, callVars, stagingVars, dir, pc>>

OtherJobSaves(r) ==
    /\ cache[r] = None
    /\ cache' = [cache EXCEPT ![r] = [files |-> Tree(r.digest), marker |-> r]]
    /\ UNCHANGED <<release, moves, callVars, stagingVars, dir, pc>>

Republish ==
    /\ moves < MaxMoves
    /\ moves' = moves + 1
    /\ release' \in Releases \ {release}
    /\ UNCHANGED <<cache, callVars, stagingVars, dir, pc>>

Next ==
    \/ \E r \in Requests : Ensure(r)
    \/ RestoreMiss \/ RestoreHit \/ RestoreBreaks \/ Validate \/ Clean
    \/ ListAssets \/ LookupChecksum \/ FetchArchive \/ VerifyArchive
    \/ ExtractArchive \/ CheckDigest \/ Place \/ WriteMarker \/ SaveVerifiedPack
    \/ Killed \/ KilledWhileRestoring \/ KilledWhileRemoving \/ KilledWhilePlacing
    \/ \E r \in Requests : Evict(r) \/ OtherJobSaves(r)
    \/ Republish

Spec == Init /\ [][Next]_vars

-----------------------------------------------------------------------------
(* The variables of ensureVerifiedPack and downloadVerifiedPack keep their  *)
(* types, the directory a marker that names a protocol and a digest.         *)
TypeOK ==
    /\ release \in Releases
    /\ cache \in [Requests -> Directories \cup {None}]
    /\ dir \in Directories
    /\ pc \in AtRest \cup Steps
    /\ req \in Requests \cup {None}
    /\ foundEmpty \in BOOLEAN
    /\ restored \in Directories \cup {None}
    /\ asset \in Protocols \cup {None}
    /\ expected \in Archives \cup {None}
    /\ archive \in Archives \cup {None}
    /\ staging \in Trees \cup {None}
    /\ calls \in 0..MaxCalls
    /\ moves \in 0..MaxMoves

(* What ensureVerifiedPack hands out is the pack that was asked for: exactly *)
(* its files after a download or a restore into an empty directory, and at   *)
(* least all of them after a restore, of an entry this code saved, over what *)
(* killed or failed calls and other packs left in the directory.             *)
HandedOutIsThePack ==
    pc \in {"cache-hit", "downloaded"} =>
        /\ pc = "downloaded" \/ foundEmpty => dir.files = Tree(req.digest)
        /\ pc = "downloaded" \/ restored.marker = req =>
              Tree(req.digest) \in Parts(dir.files)

(* The cache keeps its promise to every later job: under a key lies the      *)
(* whole pack of that key and nothing else, or an entry that was not saved   *)
(* by saveVerifiedPack and whose marker does not vouch for another pack.     *)
CacheHoldsWholePacks ==
    \A r \in Requests :
        cache[r] \in Foreign \cup {None, [files |-> Tree(r.digest), marker |-> r]}

(* The extractor sees only an archive whose checksum the release published   *)
(* under its name, and a call that is over leaves neither the archive nor    *)
(* the tree in the staging directories.                                      *)
OnlyVerifiedIsStaged ==
    /\ pc \in {"check", "place"} => expected \in Digests /\ staging = Tree(expected)
    /\ pc \in {"cache-hit", "downloaded", "thrown"} => archive = None /\ staging = None
==============================================================================

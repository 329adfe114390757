------------------------- MODULE FixturePacksProofs --------------------------
(* Proofs about FixturePacks: what ensureVerifiedPack hands out and saves,   *)
(* for any packs, releases, cache entries of others and number of calls.     *)
EXTENDS FixturePacks, TLAPS

(* What downloadVerifiedPack holds at each step: nothing before it is called *)
(* and after it is over, the pack once its checksum has been compared.       *)
StagingInv ==
    /\ pc \in {"restore", "validate", "cache-hit", "clean", "mark", "save", "downloaded", "thrown"} =>
          archive = None /\ staging = None
    /\ pc \in {"manifest", "fetch", "verify", "extract"} => asset \in Protocols
    /\ pc \in {"fetch", "verify", "extract"} => expected \in Archives
    /\ pc = "extract" => archive = expected
    /\ pc \in {"check", "place"} => expected \in Digests /\ staging = Tree(expected) /\ archive = None
    /\ pc = "place" => staging = Tree(req.digest)

(* What the directory holds at each step. *)
DirInv ==
    /\ pc = "restore" /\ foundEmpty => dir = Nothing
    /\ pc \in {"validate", "cache-hit"} =>
          /\ restored \in Foreign \cup {[files |-> Tree(req.digest), marker |-> req]}
          /\ restored.files \in Parts(dir.files)
          /\ foundEmpty => dir.files = restored.files /\ dir.marker = restored.marker
    /\ pc = "cache-hit" => dir.marker = req
    /\ pc \in {"list", "manifest", "fetch", "verify", "extract", "check", "place"} => dir = Nothing
    /\ pc \in {"mark", "save", "downloaded"} => dir.files = Tree(req.digest)
    /\ pc = "save" => dir.marker = req

IInv ==
    /\ TypeOK
    /\ pc \in Steps \cup {"cache-hit", "downloaded"} => req \in Requests
    /\ CacheHoldsWholePacks
    /\ StagingInv
    /\ DirInv

-----------------------------------------------------------------------------
(* Trees are the functions from paths to the digests of packs.               *)
LEMMA TreeIsATree == ASSUME NEW d \in Digests PROVE Tree(d) \in Trees
<1>1. PathsOf[d] \in SUBSET Paths
  BY DEF Paths
<1>2. Tree(d) \in [PathsOf[d] -> Digests]
  BY DEF Tree
<1> QED
  BY <1>1, <1>2 DEF Trees

LEMMA NoFilesIsATree == NoFiles \in Trees
<1>1. NoFiles \in [{} -> Digests]
  BY DEF NoFiles
<1> QED
  BY <1>1 DEF Trees

(* Extracting one tree over another leaves a tree that has all of the first. *)
LEMMA OverIsATree ==
    ASSUME NEW f \in Trees, NEW g \in Trees
    PROVE  Over(f, g) \in Trees /\ f \in Parts(Over(f, g))
<1>1. PICK S \in SUBSET Paths : f \in [S -> Digests]
  BY DEF Trees
<1>2. PICK T \in SUBSET Paths : g \in [T -> Digests]
  BY DEF Trees
<1>3. Over(f, g) \in [S \cup T -> Digests]
  BY <1>1, <1>2 DEF Over
<1>4. Restrict(Over(f, g), S) = f
  BY <1>1, <1>2 DEF Over, Restrict
<1> QED
  BY <1>1, <1>2, <1>3, <1>4 DEF Trees, Parts

(* Extracting into an empty directory leaves the tree itself.                *)
LEMMA OverNoFiles == ASSUME NEW f \in Trees PROVE Over(f, NoFiles) = f
<1>1. PICK S \in SUBSET Paths : f \in [S -> Digests]
  BY DEF Trees
<1> QED
  BY <1>1 DEF Over, NoFiles

(* What a removal or a copy that breaks off leaves of a tree is a tree.      *)
LEMMA PartIsATree == ASSUME NEW f \in Trees, NEW h \in Parts(f) PROVE h \in Trees
<1>1. PICK S \in SUBSET Paths : f \in [S -> Digests]
  BY DEF Trees
<1>2. PICK R \in SUBSET S : h = Restrict(f, R)
  BY <1>1 DEF Parts
<1>3. h \in [R -> Digests]
  BY <1>1, <1>2 DEF Restrict
<1> QED
  BY <1>1, <1>2, <1>3 DEF Trees

-----------------------------------------------------------------------------
(* The directory a restore, whole or in part, leaves.                        *)
LEMMA ExtractedIsADirectory ==
    ASSUME dir \in Directories, NEW f \in Trees, NEW m \in Requests \cup {None}, Extracted(f, m)
    PROVE  /\ dir' \in Directories
           /\ f \in Parts(dir'.files)
           /\ dir = Nothing => dir'.files = f /\ dir'.marker = m
<1>1. dir.files \in Trees /\ dir.marker \in Requests \cup {None}
  BY DEF Directories
<1>2. Over(f, dir.files) \in Trees /\ f \in Parts(Over(f, dir.files))
  BY <1>1, OverIsATree
<1>3. dir = Nothing => Over(f, dir.files) = f
  BY OverNoFiles DEF Nothing
<1> QED
  BY <1>1, <1>2, <1>3 DEF Extracted, Directories, Nothing

(* Before the first call there is nothing to say but the types.              *)
LEMMA InitIInv == Init => IInv
<1> SUFFICES ASSUME Init PROVE IInv
  OBVIOUS
<1>1. Nothing \in Directories
  BY NoFilesIsATree DEF Nothing, Directories
<1>2. TypeOK
  BY <1>1, PacksAssumption DEF Init, TypeOK, AtRest
<1> QED
  BY <1>2 DEF Init, IInv, CacheHoldsWholePacks, StagingInv, DirInv, Steps

(* Every step preserves the invariant.                                       *)
LEMMA StepIInv == IInv /\ [Next]_vars => IInv'
<1> SUFFICES ASSUME IInv, [Next]_vars PROVE IInv'
  OBVIOUS
<1> USE DEF IInv, TypeOK, CacheHoldsWholePacks, StagingInv, DirInv, Steps, AtRest
<1>0. Nothing \in Directories
  BY NoFilesIsATree DEF Nothing, Directories
<1>a. MaxCalls \in Nat /\ MaxMoves \in Nat
  BY PacksAssumption
<1>b. dir.files \in Trees /\ dir.marker \in Requests \cup {None}
  BY DEF Directories
<1>1. ASSUME NEW r \in Requests, Ensure(r) PROVE IInv'
  <2>1. pc' = "restore" /\ req' = r /\ (foundEmpty' <=> dir = Nothing) /\ foundEmpty' \in BOOLEAN
    BY <1>1 DEF Ensure
  <2>2. calls' \in 0..MaxCalls
    BY <1>a, <1>1 DEF Ensure
  <2> QED
    BY <1>1, <2>1, <2>2 DEF Ensure, worldVars
<1>2. CASE RestoreMiss
  BY <1>2 DEF RestoreMiss, Step, worldVars, callVars, stagingVars
<1>3. CASE RestoreHit
  <2>1. req \in Requests /\ cache[req] \in Directories
    BY <1>3 DEF RestoreHit, Step
  <2>2. cache[req].files \in Trees /\ cache[req].marker \in Requests \cup {None}
    BY <2>1 DEF Directories
  <2>3. cache[req] \in Foreign \cup {[files |-> Tree(req.digest), marker |-> req]}
    BY <1>3, <2>1 DEF RestoreHit
  <2>4. /\ dir' \in Directories
        /\ cache[req].files \in Parts(dir'.files)
        /\ dir = Nothing => dir'.files = cache[req].files /\ dir'.marker = cache[req].marker
    BY <1>3, <2>2, ExtractedIsADirectory DEF RestoreHit
  <2> QED
    BY <1>3, <2>1, <2>3, <2>4 DEF RestoreHit, Step, worldVars, stagingVars, Parts
<1>4. CASE RestoreBreaks
  <2>1. req \in Requests /\ cache[req] \in Directories
    BY <1>4 DEF RestoreBreaks, Step
  <2>2. cache[req].files \in Trees /\ cache[req].marker \in Requests \cup {None}
    BY <2>1 DEF Directories
  <2>3. dir' \in Directories
    BY <1>4, <2>2, PartIsATree, ExtractedIsADirectory DEF RestoreBreaks
  <2> QED
    BY <1>4, <2>1, <2>3 DEF RestoreBreaks, Step, worldVars, callVars, stagingVars
<1>5. CASE Validate
  BY <1>0, <1>5 DEF Validate, worldVars, callVars, stagingVars
<1>6. CASE Clean
  BY <1>0, <1>6, NoFilesIsATree DEF Clean, Step, worldVars, callVars
<1>7. CASE ListAssets
  BY <1>7, PacksAssumption DEF ListAssets, Throw, worldVars, callVars
<1>8. CASE LookupChecksum
  BY <1>8, PacksAssumption DEF LookupChecksum, Throw, worldVars, callVars
<1>9. CASE FetchArchive
  BY <1>9, PacksAssumption DEF FetchArchive, Throw, worldVars, callVars, Archives
<1>10. CASE VerifyArchive
  BY <1>10 DEF VerifyArchive, Throw, worldVars, callVars, stagingVars
<1>11. CASE ExtractArchive
  BY <1>11, TreeIsATree DEF ExtractArchive, Throw, worldVars, callVars, Archives
<1>12. CASE CheckDigest
  BY <1>12 DEF CheckDigest, Throw, worldVars, callVars, stagingVars
<1>13. CASE Place
  <2>1. req \in Requests /\ req.digest \in Digests /\ staging = Tree(req.digest) /\ dir = Nothing
    BY <1>13 DEF Place, Requests
  <2>2. CASE dir' = [dir EXCEPT !.files = Over(staging, @)] /\ pc' = "mark"
    <3>1. dir'.files = Tree(req.digest) /\ dir' \in Directories
      BY <2>1, <2>2, TreeIsATree, OverNoFiles DEF Directories, Nothing
    <3> QED
      BY <1>13, <2>1, <2>2, <3>1 DEF Place, Throw, worldVars, callVars
  <2>3. CASE Throw
    <3>1. PICK f \in Parts(staging) : dir' = [dir EXCEPT !.files = Over(f, @)]
      BY <1>13, <2>3 DEF Place, Throw
    <3>2. f \in Trees
      BY <2>1, TreeIsATree, PartIsATree
    <3>3. dir' \in Directories
      BY <1>b, <3>1, <3>2, OverIsATree DEF Directories
    <3> QED
      BY <1>13, <2>3, <3>3 DEF Place, Throw, worldVars, callVars
  <2> QED
    BY <1>13, <2>2, <2>3 DEF Place
<1>14. CASE WriteMarker
  BY <1>14 DEF WriteMarker, worldVars, callVars, stagingVars, Directories
<1>15. CASE SaveVerifiedPack
  BY <1>15 DEF SaveVerifiedPack, Step, callVars, stagingVars, Directories
<1>16. CASE Killed
  BY <1>16 DEF Killed, Kill, worldVars, callVars, stagingVars
<1>17. CASE KilledWhileRestoring
  <2>1. cache[req] \in Directories
    BY <1>17 DEF KilledWhileRestoring
  <2>2. cache[req].files \in Trees /\ cache[req].marker \in Requests \cup {None}
    BY <2>1 DEF Directories
  <2>3. dir' \in Directories
    BY <1>17, <2>2, PartIsATree, ExtractedIsADirectory DEF KilledWhileRestoring
  <2> QED
    BY <1>17, <2>3 DEF KilledWhileRestoring, Kill, worldVars, callVars, stagingVars
<1>18. CASE KilledWhileRemoving
  <2>1. PICK f \in Parts(dir.files), m \in {dir.marker, None} : dir' = [files |-> f, marker |-> m]
    BY <1>18 DEF KilledWhileRemoving
  <2>2. dir' \in Directories
    BY <1>b, <2>1, PartIsATree DEF Directories
  <2> QED
    BY <1>18, <2>2 DEF KilledWhileRemoving, Kill, worldVars, callVars, stagingVars
<1>19. CASE KilledWhilePlacing
  <2>1. PICK f \in Parts(staging) : dir' = [dir EXCEPT !.files = Over(f, @)]
    BY <1>19 DEF KilledWhilePlacing
  <2>2. f \in Trees
    BY <1>19, <2>1, TreeIsATree, PartIsATree DEF KilledWhilePlacing
  <2>3. dir' \in Directories
    BY <1>b, <2>1, <2>2, OverIsATree DEF Directories
  <2> QED
    BY <1>19, <2>3 DEF KilledWhilePlacing, Kill, worldVars, callVars, stagingVars
<1>20. ASSUME NEW r \in Requests, Evict(r) PROVE IInv'
  BY <1>20 DEF Evict, callVars, stagingVars
<1>21. ASSUME NEW r \in Requests, OtherJobSaves(r) PROVE IInv'
  <2> DEFINE saved == [files |-> Tree(r.digest), marker |-> r]
  <2>1. saved \in Directories
    BY TreeIsATree DEF Directories, Requests
  <2>2. cache' \in [Requests -> Directories \cup {None}]
    BY <1>21, <2>1 DEF OtherJobSaves
  <2>3. CacheHoldsWholePacks'
    BY <1>21 DEF OtherJobSaves
  <2> QED
    BY <1>21, <2>2, <2>3 DEF OtherJobSaves, callVars, stagingVars
<1>22. CASE Republish
  BY <1>22, <1>a DEF Republish, callVars, stagingVars
<1>23. CASE UNCHANGED vars
  BY <1>23 DEF vars, worldVars, callVars, stagingVars
<1> QED
  BY <1>1, <1>2, <1>3, <1>4, <1>5, <1>6, <1>7, <1>8, <1>9, <1>10, <1>11, <1>12, <1>13,
     <1>14, <1>15, <1>16, <1>17, <1>18, <1>19, <1>20, <1>21, <1>22, <1>23 DEF Next

-----------------------------------------------------------------------------
(* The invariant the theorems below rest on.                                 *)
THEOREM Invariance == Spec => []IInv
<1> QED
  BY InitIInv, StepIInv, PTL DEF Spec

(* The variables of ensureVerifiedPack keep their types.                     *)
THEOREM TypeCorrect == Spec => []TypeOK
<1>1. IInv => TypeOK
  BY DEF IInv
<1> QED
  BY <1>1, Invariance, PTL

(* ensureVerifiedPack hands out the pack that was asked for, whatever killed *)
(* calls left in the directory and others in the cache: a marker that came   *)
(* out of the cache is one that saveVerifiedPack wrote over a whole pack.    *)
THEOREM HandedOutIsThePackHolds == Spec => []HandedOutIsThePack
<1>1. IInv => HandedOutIsThePack
  <2> SUFFICES ASSUME IInv PROVE HandedOutIsThePack
    OBVIOUS
  <2> USE DEF IInv
  <2>1. ASSUME pc = "downloaded"
        PROVE  dir.files = Tree(req.digest) /\ Tree(req.digest) \in Parts(dir.files)
    <3>1. dir.files = Tree(req.digest) /\ req.digest \in Digests
      BY <2>1 DEF DirInv, Requests
    <3>2. Restrict(Tree(req.digest), DOMAIN Tree(req.digest)) = Tree(req.digest)
      BY DEF Tree, Restrict
    <3> QED
      BY <3>1, <3>2 DEF Parts
  <2>2. ASSUME pc = "cache-hit", restored.marker = req
        PROVE  restored.files = Tree(req.digest)
    <3>1. req # None
      BY <2>2, PacksAssumption
    <3> QED
      BY <2>2, <3>1, PacksAssumption DEF DirInv
  <2>3. pc = "cache-hit" /\ foundEmpty => restored.marker = req /\ dir.files = restored.files
    BY DEF DirInv
  <2>4. pc = "cache-hit" => restored.files \in Parts(dir.files)
    BY DEF DirInv
  <2> QED
    BY <2>1, <2>2, <2>3, <2>4 DEF HandedOutIsThePack
<1> QED
  BY <1>1, Invariance, PTL

(* Under its key the cache holds the whole pack and nothing else, also when  *)
(* calls are killed and the release is republished.                          *)
THEOREM CacheHoldsWholePacksHolds == Spec => []CacheHoldsWholePacks
<1>1. IInv => CacheHoldsWholePacks
  BY DEF IInv
<1> QED
  BY <1>1, Invariance, PTL

(* Only an archive whose published checksum was compared is ever extracted,  *)
(* and a call that is over has removed its staging directories.              *)
THEOREM OnlyVerifiedIsStagedHolds == Spec => []OnlyVerifiedIsStaged
<1>1. IInv => OnlyVerifiedIsStaged
  BY DEF IInv, StagingInv, OnlyVerifiedIsStaged
<1> QED
  BY <1>1, Invariance, PTL
==============================================================================

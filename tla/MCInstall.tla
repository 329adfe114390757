----------------------------- MODULE MCInstall -------------------------------
(* Two versions; v1 has two commits its tag may point at, v2 one, and both   *)
(* are published, the executable of v2 by mistake under the wrong version.   *)
EXTENDS Install, TLC

CONSTANTS v1, v2, c1, c2, c3

MCCommitSays == (c1 :> v1) @@ (c2 :> v1) @@ (c3 :> v2)
MCFirstTags == (v1 :> c1) @@ (v2 :> c3)
MCAssetSays == (v1 :> v1) @@ (v2 :> v1)
TrueAssetSays == (v1 :> v1) @@ (v2 :> v2)
==============================================================================

--------------------------- MODULE MCFixturePacks ----------------------------
(* Two packs that share a path, protocols of which one's name occurs in the  *)
(* other's, and a release that is republished with the packs exchanged, the  *)
(* archives listed in another order and an entry missing in the manifest.    *)
EXTENDS FixturePacks, TLC

CONSTANTS d1, d2, a, b, c

MCPathsOf == (d1 :> {a, b}) @@ (d2 :> {b, c})

FirstRelease ==
    [listed |-> <<2, 28>>, archive |-> (2 :> d1) @@ (28 :> d2), checksum |-> (2 :> d1) @@ (28 :> d2)]

SecondRelease ==
    [listed |-> <<28, 2>>, archive |-> (2 :> d2) @@ (28 :> d1), checksum |-> (2 :> None) @@ (28 :> d1)]

MCReleases == {FirstRelease, SecondRelease}
MCForeign == {[files |-> Tree(d2), marker |-> None]}
==============================================================================

---------------------------- MODULE MCCrashMerge ----------------------------
(* Instances of CrashMerge for TLC. *)
EXTENDS CrashMerge

CONSTANTS u, v, w

MCContents == {u, v, w}
MCSize == u :> 1 @@ v :> 2 @@ w :> 2
MCRank == [f \in {"old", "out", "new"} \X MCContents |->
             (CASE f[1] = "old" -> 0 [] f[1] = "out" -> 3 [] f[1] = "new" -> 6)
             + (CASE f[2] = u -> 1 [] f[2] = v -> 2 [] f[2] = w -> 3)]
MCFeatures == 1..3
MCFeatureSets == {{1}, {1, 2}, {2, 3}}
MCOldCorpora == {{u}}
MCNewCorpora == {{v}, {v, w}}
=============================================================================

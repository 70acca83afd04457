------------------------------ MODULE MCCorpus ------------------------------
(* Instances of Corpus for TLC. *)
EXTENDS Corpus, TLC

CONSTANTS a, b, c, d

MCUnits == {a, b, c, d}
MCSize == a :> 1 @@ b :> 2 @@ c :> 3 @@ d :> 3
MCFeatures == 0..3
MCWorlds == {a :> {0} @@ b :> {0, 1} @@ c :> {0, 2} @@ d :> {2, 3},
             a :> {1} @@ b :> {0, 1} @@ c :> {1} @@ d :> {2}}
Setting(shrink, reduce, keep, uniform, entr) ==
  [Shrink |-> shrink, ReduceInputs |-> reduce, KeepSeed |-> keep, UniformDist |-> uniform, Entropic |-> entr]
MCOptions == {Setting(FALSE, TRUE, FALSE, FALSE, TRUE), Setting(TRUE, TRUE, FALSE, TRUE, TRUE),
              Setting(TRUE, FALSE, TRUE, FALSE, FALSE)}
=============================================================================

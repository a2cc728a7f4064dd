---------------------------- MODULE MCEvasLayers ----------------------------
(* Bounds of the model of the canvas' objects. *)
EXTENDS EvasLayers, TLC
CONSTANTS s1, s2, r1
MCObjects == {s1, s2, r1}
MCSmarts == {s1, s2}
\* The two smart objects are alike: no operator of EvasLayers chooses between them.
MCAlike == Permutations(MCSmarts)
MCHeld == {r1}
MCNumbers == {0, 1}
=============================================================================

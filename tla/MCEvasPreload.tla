--------------------------- MODULE MCEvasPreload ---------------------------
(***************************************************************************)
(* Instances of EvasPreload for TLC.                                       *)
(***************************************************************************)
EXTENDS EvasPreload

\* Work blocks and thread slots are interchangeable (safety runs only).
Symmetry == Permutations(Jobs) \union Permutations(Threads)
=============================================================================

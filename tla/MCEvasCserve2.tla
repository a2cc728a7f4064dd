--------------------------- MODULE MCEvasCserve2 ---------------------------
\* The constants of the configurations EvasCserve2*.cfg.
EXTENDS EvasCserve2, TLC

CONSTANTS c1, c2, h1, h2, h3

TwoClients == (h1 :> c1) @@ (h2 :> c2)
\* Paths and options are compared only: nothing tells one from another.
Alike == Permutations(Paths) \cup Permutations(Opts)

ThreeHandles == (h1 :> c1) @@ (h2 :> c1) @@ (h3 :> c2)
=============================================================================

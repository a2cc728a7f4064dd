-------------------------- MODULE MCEvasImageCache --------------------------
(***************************************************************************)
(* Instances of EvasImageCache for TLC.                                    *)
(***************************************************************************)
EXTENDS EvasImageCache

CONSTANT o1

\* Blocks, objects, file names and time stamps are interchangeable (safety runs
\* in which every object may be used).
Symmetry ==
  Permutations(Entries) \union Permutations(Objects)
    \union Permutations(Keys) \union Permutations(Stamps)

SafePrograms ==
  {[does |-> {"dirty", "change", "fail"}, uses |-> Objects],
   [does |-> {"preload"}, uses |-> Objects],
   [does |-> {"preload", "unload", "fail"}, uses |-> Objects]}
AnswerPrograms  ==
  {[does |-> {"preload"}, uses |-> Objects],
   [does |-> {"preload", "dirty", "reenter"}, uses |-> {o1}]}
=============================================================================

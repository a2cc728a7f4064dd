---------------------------- MODULE MCEvasEvents ----------------------------
(***************************************************************************)
(* Instances of EvasEvents for TLC.                                        *)
(***************************************************************************)
EXTENDS EvasEvents

CONSTANTS o1, o2, p1, p2

\* o1 covers both points and o2 the first of them; what each of them repeats
\* and how it grabs the pointer.
Pair(mode1, repeat2, mode2) ==
  [o \in {o1, o2} |->
     IF o = o1 THEN [covers |-> {p1, p2}, repeat |-> TRUE, mode |-> mode1]
     ELSE [covers |-> {p1}, repeat |-> repeat2, mode |-> mode2]]

Pairs ==
  {Pair("autograb", FALSE, "autograb"), Pair("autograb", TRUE, "autograb"),
   Pair("autograb", TRUE, "nograb"), Pair("nograb", FALSE, "autograb"),
   Pair("norepeat", TRUE, "autograb"), Pair("autograb", TRUE, "norepeat")}
=============================================================================

---------------------------- MODULE MCEvasTiler ----------------------------
(***************************************************************************)
(* Instances of EvasTiler for TLC.                                         *)
(***************************************************************************)
EXTENDS EvasTiler

R(x, y, w, h) == [x |-> x, y |-> y, w |-> w, h |-> h]

\* Rectangles that contain, touch and overlap each other, and one that sticks out.
Some == {R(0, 0, 2, 2), R(1, 1, 2, 2), R(0, 1, 4, 1), R(2, 0, 1, 3), R(3, 2, 1, 1), R(-1, 2, 3, 4)}
Few  == {R(0, 0, 2, 2), R(1, 1, 3, 1), R(3, 2, 1, 1)}

MCEnvironments ==
  {[error |-> e, maxReg |-> 24, buffered |-> FALSE, inputs |-> Some, calls |-> 4] : e \in 0 .. 2}
    \union {[error |-> e, maxReg |-> IF e = 0 THEN 1 ELSE 24, buffered |-> TRUE, inputs |-> Few,
             calls |-> 3] : e \in 0 .. 1}
=============================================================================

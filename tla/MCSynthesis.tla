------------------------------ MODULE MCSynthesis ------------------------------
(* Instances of Synthesis for TLC. *)
EXTENDS Synthesis, TLC

CONSTANTS a, b, ui, o1, o2, o3, e1, e2

AllInOne == [o \in Observations |-> e1]

OneLater == [o \in Observations |-> IF o = o1 THEN e1 ELSE e2]

\* The observations of one episode are interchangeable.
Symmetry == Permutations(Observations)
LateSymmetry == Permutations(Observations \ {o1})
=============================================================================

----------------------------- MODULE MCAgentCore -----------------------------
(* Instances of AgentCoreMigration for TLC. *)
EXTENDS AgentCoreMigration, TLC

\* Nothing tells rows apart.
Symmetry == Permutations(Rows)
=============================================================================

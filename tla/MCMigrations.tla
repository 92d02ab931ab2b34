----------------------------- MODULE MCMigrations -----------------------------
(* Instances of Migrations for TLC. *)
EXTENDS Migrations, TLC

CONSTANTS p1, p2, p3

\* Two statements, then one; the first statement of each cannot be rerun
\* (CREATE TABLE, ALTER TABLE), the second can (CREATE INDEX IF NOT EXISTS).
TwoThenOne == (1 :> 2) @@ (2 :> 1)
CreateOnce == {<<1, 1>>, <<2, 1>>}

\* Every statement can be rerun.
Rerunnable == {}

LateOnce == {<<1, 2>>, <<2, 1>>}

Symmetry == Permutations(Starters)
=============================================================================

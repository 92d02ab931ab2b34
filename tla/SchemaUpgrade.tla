---------------------------- MODULE SchemaUpgrade ----------------------------
(* What apply_migrations promises of the shared database (module docstring  *)
(* of db/schema.py): however many processes start, the files take effect as *)
(* if a single one ran them: in order, statement by statement, each version *)
(* complete before the next one is begun, and none undone.                  *)
EXTENDS Integers

CONSTANTS NumVersions, Statements

Versions == 1..NumVersions

VARIABLES
    complete,   \* the versions recorded as applied
    effects     \* how many statements of each file have taken effect

Init ==
    /\ complete = {}
    /\ effects = [v \in Versions |-> 0]

\* v is the first version that is not complete.
Due(v) == v \notin complete /\ \A u \in Versions : u < v => u \in complete

Run(v) ==
    /\ Due(v)
    /\ effects[v] < Statements[v]
    /\ effects' = [effects EXCEPT ![v] = @ + 1]
    /\ UNCHANGED complete

Finish(v) ==
    /\ Due(v)
    /\ effects[v] = Statements[v]
    /\ complete' = complete \cup {v}
    /\ UNCHANGED effects

Next == \E v \in Versions : Run(v) \/ Finish(v)

Spec == Init /\ [][Next]_<<complete, effects>>
=============================================================================

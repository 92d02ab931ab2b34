------------------------------ MODULE MCBackend ------------------------------
(* The agentcore backend for TLC: what the servers and the UI do with the     *)
(* records (data plane), and how the memories that hold them come to be       *)
(* (control plane).  The two share no state, so a behaviour is one of either. *)
EXTENDS AgentCoreBackend, Provisioning, FiniteSetsExt, TLC

CONSTANTS a, b, ui, mig, ext, pref, t1, t2

VARIABLE plane

\* The plane that rests has one initial state.
PlanesInit ==
    /\ plane \in {"data", "control"}
    /\ BackendInit /\ ProvisioningInit
    /\ plane = "data" => ~activated
    /\ plane = "control" => Status(store[mig]) = "active"

DataMoves    == plane = "data" /\ BackendNext /\ UNCHANGED <<plane, toolVars>>
ControlMoves == plane = "control" /\ ProvisioningNext /\ UNCHANGED <<plane, backendVars>>

PlanesSpec ==
    PlanesInit /\ [][DataMoves \/ ControlMoves]_<<plane, backendVars, toolVars>>

\* Two counts are enough for a credit beside a sweep and for two entries of one;
\* one stale record, for what becomes of the other.
FewWrites ==
    MapThenSumSet(LAMBDA r : credits[r], Records) <= 2 /\ Cardinality(stale) <= 1

Symmetry == Permutations(Tools)
=============================================================================

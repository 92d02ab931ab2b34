------------------------- MODULE ObservationLifecycle -------------------------
(* What the repository promises of an observation's status (the state       *)
(* diagram of README.md, "Observation lifecycle"): written active, consumed *)
(* at most once, archived, then possibly pruned; no step leads back.        *)
CONSTANTS Observations

VARIABLES status

Statuses == {"absent", "active", "consumed_into_reflection",
             "consumed_without_reflection", "archived", "pruned"}

After == [absent |-> {"active"},
          active |-> {"consumed_into_reflection",
                      "consumed_without_reflection", "archived"},
          consumed_into_reflection    |-> {"archived"},
          consumed_without_reflection |-> {"archived"},
          archived |-> {"pruned"},
          pruned   |-> {}]

Init == status = [o \in Observations |-> "absent"]

\* One transaction may move several observations, each along one arrow.
Next ==
    /\ status' \in [Observations -> Statuses]
    /\ \A o \in Observations :
          status'[o] = status[o] \/ status'[o] \in After[status[o]]

Spec == Init /\ [][Next]_status
=============================================================================

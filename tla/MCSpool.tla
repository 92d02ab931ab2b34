------------------------------- MODULE MCSpool -------------------------------
(* Instances of Spool for TLC. *)
EXTENDS Spool, TLC

CONSTANTS srv1, srv2

NoFault == [k \in Faults |-> 0]

Markers == (1 :> "commit_close") @@ (2 :> "session_end")

\* A batch around a bad file.
Events == (1 :> "tool_use") @@ (2 :> "malformed") @@ (3 :> "commit_close")

\* A server dies, a commit fails, a file is unusable or cannot be unlinked.
Troubled == [NoFault EXCEPT !["crash"] = 1, !["commit"] = 1,
                            !["unusable"] = 1, !["unlink"] = 1]

DiskFull == [NoFault EXCEPT !["full"] = 1]
=============================================================================

------------------------------ MODULE MCSession ------------------------------
(* What goes on around the sessions of a machine: the setup engine's repairs  *)
(* (Setup) and what they write (Wiring), the reindexing of the knowledge base  *)
(* (KnowledgeIndex), the starting of the management UI (UILauncher), the       *)
(* claims of the injection hooks (ContextSeen), the ranking functions          *)
(* (RankingCases) and the retrievals of a session after session (Serving).     *)
(* The parts share no state, so a behaviour is one of a single part while the  *)
(* others stay as they are; the pure functions have inputs and no steps.       *)
EXTENDS Setup, KnowledgeIndex, UILauncher, ContextSeen, RankingCases, Serving, Wiring, TLC

CONSTANTS p1, p2, k1, k2, f1, f2, c1, c2, u1, u2, s1, m1, m2, m3, m4, h1, h2

Parts == {"setup", "index", "launch", "seen", "cases", "serving", "wiring"}

\* By name.
Orders == {m1 :> 4 @@ m2 :> 3 @@ m3 :> 2 @@ m4 :> 1}

\* As much as has failed ten times and more.
Many == {-11, -10, -1, 0, 1}

\* The hooks that are managed.
Managing == ("pre" :> <<"inject", "checkpoint">>)

VARIABLE part

others(p) ==
    /\ p # "setup" => UNCHANGED setupVars
    /\ p # "index" => UNCHANGED indexVars
    /\ p # "launch" => UNCHANGED launchVars
    /\ p # "seen" => UNCHANGED seenVars
    /\ p # "serving" => UNCHANGED servingVars
    /\ UNCHANGED <<part, input, wiring>>

SessionInit ==
    /\ part \in Parts
    /\ SetupInit /\ IndexInit /\ LaunchInit /\ SeenInit /\ ServingInit
    /\ IF part = "cases" THEN CasesInit ELSE input = [of |-> "none"]
    /\ IF part = "wiring" THEN WiringInit ELSE wiring = [of |-> "none"]

Within(p, A) == part = p /\ A /\ others(p)

SetupMoves == Within("setup", SetupNext)
IndexMoves == Within("index", IndexNext)
LaunchMoves == Within("launch", LaunchNext)
SeenMoves == Within("seen", SeenNext)
ServingMoves == Within("serving", ServingNext)

SessionNext ==
    \/ SetupMoves \/ IndexMoves
    \/ LaunchMoves \/ SeenMoves \/ ServingMoves

sessionVars == <<part, setupVars, indexVars, launchVars, seenVars, servingVars,
                  input, wiring>>

\* The fairness of the modules, for the part that moves.
SessionFairness ==
    /\ \A p \in Runs : WF_sessionVars(Within("setup", SetupStep(p)))
    /\ WF_sessionVars(Within("setup", LockAges))
    /\ \A s \in Callers : /\ WF_sessionVars(Within("launch", Call(s)))
                           /\ WF_sessionVars(Within("launch", CallStep(s)))
    /\ \A k \in Processes :
          /\ WF_sessionVars(Within("launch", UIStep(k)))
          /\ WF_sessionVars(Within("launch", Leave(k) /\ url # k))
    /\ \A s \in Readers :
          /\ []<>(part = "serving" => s \in asked)
          /\ WF_sessionVars(Within("serving", Rate(s)))
          /\ WF_sessionVars(Within("serving", EndSession(s)))

SessionSpec == SessionInit /\ [][SessionNext]_sessionVars /\ SessionFairness

\* Liveness: what each part promises in the end, again and again: the files are
\* repaired (Repaired), the UI is found when calls do not overlap (FoundAgain), and
\* every memory has been tried (EveryoneTried).
InTheEnd ==
    []<>(/\ part = "setup" => AllRepaired
         /\ part = "launch" => (OneAtATime => Findable)
         /\ part = "serving" => AllTried)

=============================================================================

---------------------------- MODULE EpisodeStages ----------------------------
(* What EpisodeService promises of an episode, as if every call were one    *)
(* transaction: a session that has none opens it, in the background or with *)
(* a goal; a background episode may be hardened with a goal, once; it is    *)
(* closed once, by anybody or by the next goal of its session, and nobody   *)
(* reaches it afterwards.                                                   *)
CONSTANTS Sessions, EpisodeIds, Goals, NoGoal

\* of: the session that opened it; active: the session that can still reach it.
VARIABLE episode

OpenFor(S, g) == [state |-> "open", goal |-> g, of |-> S, active |-> S]
Ended(e) ==
    [state |-> "closed", goal |-> episode[e].goal, of |-> episode[e].of, active |-> {}]

Init == episode = [e \in EpisodeIds |->
                      [state |-> "absent", goal |-> NoGoal, of |-> {}, active |-> {}]]

Open(e) ==
    /\ episode[e].state = "absent"
    /\ \E s \in Sessions, g \in Goals \cup {NoGoal} :
          /\ \A o \in EpisodeIds : s \notin episode[o].active
          /\ episode' = [episode EXCEPT ![e] = OpenFor({s}, g)]

Harden(e) ==
    /\ episode[e].state = "open" /\ episode[e].goal = NoGoal
    /\ \E g \in Goals : episode' = [episode EXCEPT ![e].goal = g]

Supersede(e, n) ==
    /\ episode[e].state = "open" /\ episode[e].goal # NoGoal
    /\ episode[n].state = "absent"
    /\ \E g \in Goals :
          episode' = [episode EXCEPT ![e] = Ended(e), ![n] = OpenFor(episode[e].of, g)]

Close(e) ==
    /\ episode[e].state = "open"
    /\ episode' = [episode EXCEPT ![e] = Ended(e)]

Next == \E e \in EpisodeIds :
    Open(e) \/ Harden(e) \/ Close(e) \/ \E n \in EpisodeIds : Supersede(e, n)

Spec == Init /\ [][Next]_episode
=============================================================================

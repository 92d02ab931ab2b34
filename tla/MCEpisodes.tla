----------------------------- MODULE MCEpisodes -----------------------------
(* Instances of EpisodeLifecycle for TLC. *)
EXTENDS EpisodeLifecycle, TLC

CONSTANTS s1, s2, srv1, srv2, hook1

\* One server per session, no hook running beside it.
OneServerEach == (srv1 :> s1) @@ (srv2 :> s2)

\* The SessionStart hook of s1 runs beside the server of s1.
HookBesideServer == (srv1 :> s1) @@ (hook1 :> s1)

\* Nothing in the model orders or names episode ids and goals.
Symmetry == Permutations(EpisodeIds) \cup Permutations(Goals)
=============================================================================

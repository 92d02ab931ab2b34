\* One session served by a server and a SessionStart hook, plus the UI.
SPECIFICATION Spec
CONSTANTS
    s1 = s1  s2 = s2  srv1 = srv1  srv2 = srv2  hook1 = hook1
    Sessions = {s1}
    Servers = {srv1}
    Hooks = {hook1}
    UIs = {ui}
    SessionOf <- HookBesideServer
    EpisodeIds = {e1, e2, e3}
    Goals = {g1, g2}
    NoGoal = NoGoal
    CloseOutcomes = {"success", "abandoned", "no_outcome"}
SYMMETRY Symmetry
INVARIANTS BindingsFollowEpisode

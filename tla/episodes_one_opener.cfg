\* Two sessions, one server each: drains and the UI close across sessions.
SPECIFICATION Spec
CONSTANTS
    s1 = s1  s2 = s2  srv1 = srv1  srv2 = srv2  hook1 = hook1
    Sessions = {s1, s2}
    Servers = {srv1, srv2}
    Hooks = {}
    UIs = {ui}
    SessionOf <- OneServerEach
    EpisodeIds = {e1, e2, e3}
    Goals = {g1, g2}
    NoGoal = NoGoal
    CloseOutcomes = {"success"}
SYMMETRY Symmetry
INVARIANTS ObservationInOwnEpisode
PROPERTIES FollowsStages

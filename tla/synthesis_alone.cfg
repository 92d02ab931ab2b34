\* Nobody overlaps: two decisions, reviews, ratings and retention.
SPECIFICATION Spec
CONSTANTS
    a = a  b = b  ui = ui
    o1 = o1  o2 = o2  o3 = o3
    e1 = e1  e2 = e2
    Servers = {a}
    UIs = {a}
    Observations = {o1, o2, o3}
    Reflections = {1, 2, 3}
    Episodes = {e1, e2}
    EpisodeOf <- OneLater
    MaxCredits = 1
SYMMETRY LateSymmetry
INVARIANTS EvidenceCounted RatingsKept NoneStranded AppliedOnce
PROPERTIES FollowsLifecycle
\* A decision is drawn from bounded ids, which run out.
CHECK_DEADLOCK FALSE

\* Two servers and the UI overlap in every way.
SPECIFICATION Spec
CONSTANTS
    a = a  b = b  ui = ui
    o1 = o1  o2 = o2  o3 = o3
    e1 = e1  e2 = e2
    Servers = {a, b}
    UIs = {ui}
    Observations = {o1, o2, o3}
    Reflections = {1, 2}
    Episodes = {e1}
    EpisodeOf <- AllInOne
    MaxCredits = 1
SYMMETRY Symmetry
INVARIANTS ConsumedIsCited SupersedingEnds PromotedOnce
\* A decision is drawn from bounded ids, which run out.
CHECK_DEADLOCK FALSE

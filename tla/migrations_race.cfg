\* Three starters, everything can go wrong, nobody has to call again.
SPECIFICATION FairSpec
CONSTANTS
    p1 = p1  p2 = p2  p3 = p3
    Starters = {p1, p2, p3}
    NumVersions = 2
    Statements <- TwoThenOne
    Once <- LateOnce
    Faults = {"read", "script", "mark", "release", "crash", "slow"}
    MaxStarts = 2
INVARIANTS NoBrokenSchema
PROPERTIES ClaimsGivenBack FollowsUpgrade CallsEnd
\* Every process has made its calls.
CHECK_DEADLOCK FALSE

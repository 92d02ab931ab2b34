SPECIFICATION SessionSpec
CONSTANTS
    p1 = p1  p2 = p2  k1 = k1  k2 = k2  f1 = f1  f2 = f2  c1 = c1  c2 = c2
    u1 = u1  u2 = u2  s1 = s1  m1 = m1  m2 = m2  m3 = m3  m4 = m4  h1 = h1  h2 = h2
    Checkers = {p1}
    Fixers = {p2}
    Files = {"claude", "skills"}
    MaxEdits = 1
    MaxCrashes = 1
    Slow = TRUE
    Indexers = {k1, k2}
    Paths = {f1, f2}
    MaxChanges = 3
    MaxReindexes = 3
    Callers = {c1, c2}
    Processes = {u1, u2}
    MaxTroubles = 1
    Hooks = {h1, h2}
    Memories = {m1}
    ReinjectTurns = 1
    MaxTurn = 4
    Unreliable = TRUE
    ItemCount = 4
    Words = {"w1", "w2"}
    Reinforcements <- Many
    Ages = {0, 1}
    Readers = {s1}
    Dos = {m1, m2, m3}
    Donts = {m4}
    Standings <- Orders
    Classes = {"positive", "ignored"}
    Floor = 2
    MaxCount = 2
    Cap = 2
    TopN = 2
    MaxFound = 1
    MaxLines = 5
    ManagedHooks <- Managing
INVARIANTS ApplySerialised   IndexSettles OneUI ServingsSpaced  OneSlotEach WiringSettles
 
CHECK_DEADLOCK FALSE

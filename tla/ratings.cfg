\* Two sessions of one project directory, one of them without its id in the
\* environment; everything can fail.
SPECIFICATION FairSpec
CONSTANTS
    s1 = s1  s2 = s2
    m1 = m1  m2 = m2
    Sessions = {s1, s2}
    WithEnv = {s2}
    Memories = {m1}
    Classes = {"shaped", "misled", "ignored"}
    Faults = {"marker", "record", "query", "publish"}
    MaxTurns = 2
INVARIANTS CountersMatchLedger
PROPERTIES EndsAfterRatings TurnsEnd
\* The turns of every session are over.
CHECK_DEADLOCK FALSE

\* One session's server and the management UI; everything can fail once;
\* two invocations of the command line.
SPECIFICATION PlanesSpec
CONSTANTS
    a = a  b = b  ui = ui
    mig = mig  ext = ext  pref = pref
    Servers = {a}
    UIs = {ui}
    Migrated = {mig}
    Extracted = {ext}
    Preferences = {pref}
    Faults = {"throttle", "lost", "resend", "reject", "lag", "ledger", "rollback", "crash"}
    MaxFaults = 1
    MaxCredits = 1
    MaxRecords = 2
    t1 = t1  t2 = t2
    Tools = {t1, t2}
    MaxMemories = 4
    Mishaps = {"error", "lost", "failed", "slow", "ignored", "crash"}
    MaxMishaps = 1
CONSTRAINT FewWrites
SYMMETRY Symmetry
INVARIANTS CreditsShow Reachable RatingsBacked SweptOnce Provisioned
CHECK_DEADLOCK FALSE

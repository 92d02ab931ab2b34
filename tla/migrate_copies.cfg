\* One run at a time; it dies, answers and ledgers are lost.
SPECIFICATION FairSpec
CONSTANTS
    Runs = {p1}
    Rows = {r1, r2}
    BatchSize = 2
    MaxVersion = 2
    Faults = {"list", "create", "retire", "crash", "ledger"}
    MaxFaults = 2
INVARIANTS NoDuplicates SkipIsSafe
PROPERTIES CleanMeansConverged EventuallyConverged

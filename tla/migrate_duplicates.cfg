\* One run at a time, no run dies; an update fails once.
SPECIFICATION Spec
CONSTANTS
    Runs = {p1}
    Rows = {r1}
    BatchSize = 1
    MaxVersion = 2
    Faults = {"update"}
    MaxFaults = 1
INVARIANTS NoDuplicates

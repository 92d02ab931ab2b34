\* The disk fills up in the middle of a batch.
SPECIFICATION Spec
CONSTANTS
    srv1 = srv1  srv2 = srv2
    Servers = {srv1}
    Files = {1, 2, 3}
    Kind <- Events
    MaxEpisodes = 1
    MaxFaults <- DiskFull
INVARIANTS NothingLost

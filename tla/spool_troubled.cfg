\* Two servers drain the same files; one of every fault but a full disk.
SPECIFICATION FairSpec
CONSTANTS
    srv1 = srv1  srv2 = srv2
    Servers = {srv1, srv2}
    Files = {1, 2}
    Kind <- Markers
    MaxEpisodes = 2
    MaxFaults <- Troubled
INVARIANTS NothingLost NoMoreThanDrained
PROPERTIES SpoolEmpties

SPECIFICATION FairSpec
CONSTANTS
    Procs = {p1, p2}
    NoCall = NoCall
    Steps = 4
    MaxVersions = 3
    MaxFaults = 1
INVARIANTS TypeOK ServesRegistered
PROPERTIES NoBlindOverwrite Convergence
CHECK_DEADLOCK FALSE

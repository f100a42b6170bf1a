SPECIFICATION FairSpec
CONSTANTS
    Procs = {p1}
    NoCall = NoCall
    Steps = 4
    MaxVersions = 3
    MaxFaults = 0
PROPERTIES EventuallyVerified
CHECK_DEADLOCK FALSE

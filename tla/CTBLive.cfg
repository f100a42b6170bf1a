CONSTANTS
    b1 = b1  b2 = b2  n1 = n1  n2 = n2
    s1 = s1  s2 = s2  p1 = p1  p2 = p2
    Procs = {p1}
    Namespaces = {n1, n2}
    Slots = {s1, s2}
    Workload <- WithUndeletablePod
    OptedInNs = {n2}
    Permitted = {n1, n2}
    FailurePolicy = "Ignore"
    Bundles = {b1, b2}
    Gone = Gone
    NoHash = NoHash
    NoPod = NoPod
    NoPass = NoPass
    MaxVersions = 3
    MaxFaults = 2
SPECIFICATION FairSpec
PROPERTIES Convergence
CHECK_DEADLOCK FALSE

CONSTANTS
    b1 = b1  b2 = b2  n1 = n1  n2 = n2
    s1 = s1  s2 = s2  p1 = p1  p2 = p2
    Procs = {p1, p2}
    Namespaces = {n1, n2}
    Slots = {s1, s2}
    Workload <- DeploymentAndStatefulSet
    OptedInNs = {n2}
    Permitted = {n1}
    FailurePolicy = "Fail"
    Bundles = {b1, b2}
    Gone = Gone
    NoHash = NoHash
    NoPod = NoPod
    NoPass = NoPass
    MaxVersions = 2
    MaxFaults = 1
SPECIFICATION Spec
SYMMETRY Symmetry
INVARIANTS TypeOK PassMatchesHolder NeverUnattended HolderTracksCache HashesPublished VictimsStale
PROPERTIES HolderNeverEmptied FreshPodsSpared NoHerd ImplementsRotation
CHECK_DEADLOCK FALSE

SPECIFICATION Spec
CONSTANTS
    Procs = {p1, p2}
    p1 = p1  p2 = p2
    Namespaces = {kyma, n1}
    MasterNs = kyma
    FirstNamespaces = {{kyma}, {kyma, n1}}
    NoSecret = NoSecret
    Foreign = Foreign
    NoWork = NoWork
    ConfigStates = {"on", "off", "broken"}
    MaxVersions = 2
    MaxFaults = 3
    OverlapCost = 3
SYMMETRY Symmetry
INVARIANTS
    TypeOK
    CopiesPublished
    MasterAttended
    SyncCurrent
    QuietIsCurrent
PROPERTIES
    MasterNeverSetBack
CHECK_DEADLOCK FALSE

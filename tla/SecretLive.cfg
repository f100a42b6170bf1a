SPECIFICATION FairSpec
CONSTANTS
    Procs = {p1}
    Namespaces = {kyma, n1, n2}
    MasterNs = kyma
    FirstNamespaces = {{kyma, n1}, {kyma, n1, n2}}
    NoSecret = NoSecret
    Foreign = Foreign
    NoWork = NoWork
    ConfigStates = {"on", "off", "broken"}
    MaxVersions = 2
    MaxFaults = 1
    OverlapCost = 3
PROPERTIES Convergence
CHECK_DEADLOCK FALSE

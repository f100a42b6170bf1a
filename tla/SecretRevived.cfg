SPECIFICATION Spec
CONSTANTS
    Procs = {p1}
    Namespaces = {kyma, n1}
    MasterNs = kyma
    FirstNamespaces = {{kyma}, {kyma, n1}}
    NoSecret = NoSecret
    Foreign = Foreign
    NoWork = NoWork
    ConfigStates = {"on"}
    MaxVersions = 2
    MaxFaults = 1
    OverlapCost = 3
PROPERTIES MasterNotRevived
CHECK_DEADLOCK FALSE

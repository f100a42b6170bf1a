SPECIFICATION FairSpec
CONSTANTS
    Procs = {p1}
    Namespaces = {kyma, n1}
    MasterNs = kyma
    FirstNamespaces = {{kyma, n1}}
    NoSecret = NoSecret
    Foreign = Foreign
    NoWork = NoWork
    ConfigStates = {"on"}
    MaxVersions = 1
    MaxFaults = 2
    OverlapCost = 3
PROPERTIES DriftCorrected
CHECK_DEADLOCK FALSE

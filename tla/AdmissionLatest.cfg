SPECIFICATION Spec
CONSTANTS
    Namespaces = {n1, n2}
    n1 = n1
    n2 = n2
    vol = vol
    own = own
    path = path
    NS2 = NS2
    Text <- TextSet
    NoRegistry = NoRegistry
    NoMapping = NoMapping
    NoHash = NoHash
    PullSecretName = "registry-credentials"
    NoLandscape = NoLandscape
    Configs <- ConfigSet
    Unreadable = Unreadable
    NsLayers <- Layers1
    NotCached = NotCached
    Templates <- TemplateSet
    Contents = {h1, h2}
    Landscapes = {NS2, NoLandscape}
    Down = Down
    Nothing = Nothing
    Denied = Denied
    MaxEdits = 2
INVARIANT LatestConfigUsed
CHECK_DEADLOCK FALSE

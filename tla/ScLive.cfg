CONSTANTS
    ns1 = ns1
    pod = pod
    k1 = k1
    k2 = k2
    k3 = k3
    Nil = Nil
    AllNamespaces = AllNamespaces
    SI = {s1, s2}
    Inf = {i1, i2}
    UID = {d1}
    Slots <- NamespaceAndCluster
    Shared = {}
    Forced = {}
    Ops = {"WaitForCacheSync"}
SPECIFICATION FairSpec
PROPERTY WaitReturns
PROPERTY RefusedInformersLeave

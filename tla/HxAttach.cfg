CONSTANTS
    ns1 = ns1
    pod = pod
    k1 = k1
    k2 = k2
    k3 = k3
    h1 = h1
    h2 = h2
    a = a
    Nil = Nil
    AllNamespaces = AllNamespaces
    SI = {s1, s2}
    Inf = {i1, i2}
    UID = {d1}
    Slots <- TwoKeysAndCluster
    Shared = {}
    Forced = {}
    Ops = {"IndexField"}
    Handlers = {h1}
    Hashes = {a}
    HashObject <- OneHandler
    Callers = {c1, c2}
SYMMETRY Symmetry
SPECIFICATION HSpec
INVARIANT HandlersTypeOK
INVARIANT HandlersHear
INVARIANT RegisteredOncePerKey
INVARIANT IndexedMeansIndexed

CONSTANTS
    ns1 = ns1
    pod = pod
    cm = cm
    k1 = k1
    k2 = k2
    Nil = Nil
    SI = {s1, s2}
    Inf = {i1, i2}
    UID = {d1, d2}
    Slots <- OneSlot
    Shared = {}
    Forced = {}
SYMMETRY Symmetry
SPECIFICATION Spec
PROPERTY RefusalRemovesOwnInformer

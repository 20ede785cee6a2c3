CONSTANTS
    ns1 = ns1
    ns2 = ns2
    pod = pod
    node = node
    a = a
    k1 = k1
    k2 = k2
    u1 = u1
    u2 = u2
    u3 = u3
    u4 = u4
    None = None
    AllNamespaces = AllNamespaces
    Names = {a}
    Slots <- NodeSlots
    Objects <- Nodes
SPECIFICATION Spec
INVARIANT GetsWhatIsThere

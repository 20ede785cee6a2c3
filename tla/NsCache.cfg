CONSTANTS
    ns1 = ns1
    pod = pod
    cm = cm
    k1 = k1
    k2 = k2
    Nil = Nil
    SI = {s1, s2}
    Inf = {i1, i2}
    UID = {d1, d2}
    Slots <- ManySlots
    Shared = {i2}
    Forced <- OneSlot
SYMMETRY Symmetry
SPECIFICATION Spec
INVARIANT TypeOK
INVARIANT NoEmptyMaps
INVARIANT EveryInformerIsHeld
INVARIANT NoOrphanWatch
INVARIANT IInv
INVARIANT CachedInformersWatch
INVARIANT HandlerGuardsItsSlot
PROPERTY LeaseSpec

CONSTANTS
    pod = pod
    cm = cm
    k1 = k1
    k2 = k2
    Nil = Nil
    SI = {s1, s2}
    Inf = {i1, i2}
    UID = {d1, d2}
    Slots <- ManySlots
    Shared = {}
    Forced = {}
SPECIFICATION FairSpec
PROPERTY CacheSyncs
INVARIANT TypeOK
INVARIANT NoEmptyMaps
INVARIANT NoOrphanWatch
INVARIANT CachedInformersWatch
PROPERTY LeaseSpec
PROPERTY TerminatedWatchesStop

------------------------- MODULE ClusterScopedCache -------------------------
(***************************************************************************)
(* The ClusterScopedCache of pkg/cache/cluster: GVK --> informer key -->   *)
(* ScopeInformer, for informers that watch all namespaces.                 *)
(*                                                                         *)
(* Its operations hold its mutex throughout, and are actions here for that *)
(* reason.  It differs from the NamespaceScopedCache by more than a level  *)
(* of the map: it sets no watch error handler (the code is commented out), *)
(* so that no informer calls back into it, and it has no Terminate.  Only  *)
(* callers change what it holds.                                           *)
(***************************************************************************)
EXTENDS ScopeInformer

CONSTANTS
    Shared,     \* the informers that callers may hand over twice
    Forced      \* the slots from which callers may remove by force

ASSUME SlotsAssumption == \A s \in Slots : {"Gvk", "Key"} \subseteq DOMAIN s

VARIABLES
    gvks,       \* the keys of GvkInformers
    infAt,      \* GvkInformers[gvk][key], Nil where there is no such key
    started

cacheVars == <<gvks, infAt, started>>
vars == <<cacheVars, informerVars>>

Cached == {infAt[s] : s \in Slots} \ {Nil}

Init ==
    /\ InformerInit
    /\ gvks = {}
    /\ infAt = [s \in Slots |-> Nil]
    /\ started = FALSE

\* The informers a caller may pass to AddInformer.
Offered == {i \in Inf : i \in Shared \/ \A x \in SI : informer[x] # i}

\* The force arguments a caller may use.
ForceArgs(s) == IF s \in Forced THEN BOOLEAN ELSE {FALSE}

-----------------------------------------------------------------------------

MutantAddInformerAnew(s, d, i) ==
    \E x \in SI :
        /\ i \in Offered
        /\ NewScopeInformer(x, i)
        /\ infAt' = [infAt EXCEPT ![s] = x]
        /\ gvks' = gvks \cup {s.Gvk}
        /\ AddDependent(x, d)
        /\ goRun' = IF started THEN goRun \cup {x} ELSE goRun
        /\ UNCHANGED <<started, cancelled, infVars, forbidden>>

\* AddInformer registers d with the informer at s, which is a new one around
\* i if there is none; i is dropped otherwise.
AddInformer(s, d, i) ==
    \E x \in SI :
        /\ \/ /\ infAt[s] = Nil
              /\ i \in Offered
              /\ NewScopeInformer(x, i)
              /\ infAt' = [infAt EXCEPT ![s] = x]
           \/ /\ infAt[s] = x
              /\ UNCHANGED <<informer, infAt>>
        /\ gvks' = gvks \cup {s.Gvk}
        /\ AddDependent(x, d)
        /\ goRun' = IF started THEN goRun \cup {x} ELSE goRun
        /\ UNCHANGED <<started, cancelled, infVars, forbidden>>

MutantDeletesForAnyDependent(x, d, force) == d \in dependents[x] \/ force

\* Whether RemoveInformer deletes the informer or only takes d off it.
Deletes(x, d, force) == Without(x, d) = {} \/ force

MutantKeepGvk(s, m) == UNCHANGED gvks

\* The level of the map above the informers, after a deletion at s has left
\* the informers to be m.
DeleteEmptyMap(s, m) ==
    gvks' = IF \A t \in Slots : t.Gvk = s.Gvk => m[t] = Nil
            THEN gvks \ {s.Gvk} ELSE gvks

RemoveInformer(s, d, force) ==
    /\ \/ /\ infAt[s] = Nil
          /\ UNCHANGED <<gvks, infAt, dependents, cancelled>>
       \/ LET x == infAt[s] IN
          /\ x # Nil
          /\ dependents' = [dependents EXCEPT ![x] = Without(x, d)]
          /\ \/ /\ Deletes(x, d, force)
                /\ infAt' = [infAt EXCEPT ![s] = Nil]
                /\ Terminate({x})
             \/ /\ ~Deletes(x, d, force)
                /\ UNCHANGED <<infAt, cancelled>>
          /\ DeleteEmptyMap(s, infAt')
    /\ UNCHANGED <<started, informer, goRun, infVars, forbidden>>

MutantStartNothing ==
    /\ started' = TRUE
    /\ UNCHANGED <<gvks, infAt, informerVars>>

MutantStartAbsent ==
    /\ goRun' = goRun \cup {infAt[s] : s \in Slots}
    /\ started' = TRUE
    /\ UNCHANGED <<gvks, infAt, siVars, infVars, forbidden>>

Start ==
    /\ goRun' = goRun \cup Cached
    /\ started' = TRUE
    /\ UNCHANGED <<gvks, infAt, siVars, infVars, forbidden>>

\* client-go's default handler logs the error; the cache never hears of it.
IgnoreWatchError(i) ==
    /\ phase[i] \in {"forbidden", "failed"}
    /\ UNCHANGED cancelled
    /\ HandlerReturns(i)
    /\ UNCHANGED <<informer, dependents, goRun, stopCh, watchErrorHandler,
                   synced, forbidden>>

HasInformer(s) == s.Gvk \in gvks /\ infAt[s] # Nil

Synced == \A x \in Cached : HasSynced(x)

-----------------------------------------------------------------------------

CallerNext ==
    \/ \E s \in Slots, d \in UID, i \in Inf : AddInformer(s, d, i)
    \/ \E s \in Slots, d \in UID : \E force \in ForceArgs(s) :
          RemoveInformer(s, d, force)
    \/ Start

Next ==
    \/ CallerNext
    \/ \E i \in Inf : IgnoreWatchError(i) /\ UNCHANGED cacheVars
    \/ InformerNext /\ UNCHANGED cacheVars

Spec == Init /\ [][Next]_vars

\* The Go scheduler runs every goroutine, a cancelled context is noticed, and a
\* reflector retries for ever, so that a request which could succeed, or be
\* refused, again and again once is.  Nobody else is under an obligation.
Fairness ==
    /\ \A x \in SI : WF_vars(Run(x) /\ UNCHANGED cacheVars)
    /\ \A i \in Inf :
          /\ WF_vars(Stop(i) /\ UNCHANGED cacheVars)
          /\ WF_vars(IgnoreWatchError(i) /\ UNCHANGED cacheVars)
          /\ SF_vars(Sync(i) /\ UNCHANGED cacheVars)
          /\ SF_vars(WatchFails(i, "forbidden") /\ UNCHANGED cacheVars)

FairSpec == Spec /\ Fairness

-----------------------------------------------------------------------------
(* Safety.                                                                 *)

\* Every variable has its type, and no ScopeInformer is in the cache twice or
\* without having been created.
TypeOK ==
    /\ InformerTypeOK
    /\ gvks \subseteq {s.Gvk : s \in Slots}
    /\ infAt \in [Slots -> SI \cup {Nil}]
    /\ started \in BOOLEAN
    /\ \A s \in Slots : infAt[s] # Nil => informer[infAt[s]] # Nil
    /\ \A s, t \in Slots : infAt[s] = infAt[t] /\ infAt[s] # Nil => s = t

\* A GVK is a key exactly as long as there is an informer behind it.  The
\* ScopedCache serves a Get or List from this cache, and from this cache
\* only, if its GVK is such a key: one left behind would hide every
\* namespace-scoped informer of the GVK.
NoEmptyMaps == gvks = {s.Gvk : s \in {t \in Slots : infAt[t] # Nil}}

\* No watch outlives its place in the cache.
NoOrphanWatch ==
    \A x \in SI :
        x \in goRun \/ (\E i \in Inf : Live(i) /\ stopCh[i] = x)
            => x \in Cached \/ cancelled[x]

\* In a started cache every informer is watching, or about to, and nothing but
\* its removal has stopped or will stop it, if callers do not share it; if they
\* do, the removal of the one that ran it first has.  This cache has no way to
\* kill an informer and keep it.
CachedInformersWatch ==
    \A x \in Cached :
        /\ ~cancelled[x]
        /\ started => \/ x \in goRun
                      \/ LET i == informer[x] IN
                         /\ stopCh[i] = x \/ i \in Shared
                         /\ Live(i) \/ (phase[i] = "stopped" /\ cancelled[stopCh[i]])

-----------------------------------------------------------------------------
(* Liveness.                                                               *)

\* WaitForCacheSync gets out once nobody adds an informer any more, provided
\* that every informer the cache is left with is permitted from then on and
\* not shared.
CacheSyncs ==
    /\ <>[](started /\ \A x \in Cached : informer[x] \notin forbidden \cup Shared)
    /\ <>[][\A s \in Slots : infAt'[s] \in {infAt[s], Nil}]_vars
    => <>[]Synced

\* A ScopeInformer that has been terminated stops watching for good, even if
\* it was terminated before its goroutine ran or while its watch had failed.
TerminatedWatchesStop ==
    \A x \in SI :
        cancelled[x] ~> (x \notin goRun /\ \A i \in Inf : Live(i) => stopCh[i] # x)

-----------------------------------------------------------------------------
(* What the cache promises its dependents.                                 *)

\* By force an informer goes only when a caller says so.
Lease == INSTANCE InformerLease WITH
    registered <- {s \in Slots : HasInformer(s)},
    holders    <- [s \in Slots |-> IF HasInformer(s) THEN dependents[infAt[s]]
                                                     ELSE {}],
    evictable  <- Slots \cap Forced

\* Where callers force nothing, an informer leaves with its last dependent and
\* never before, whatever happens to its watch or its permissions.
LeaseSpec == Lease!Spec
=============================================================================

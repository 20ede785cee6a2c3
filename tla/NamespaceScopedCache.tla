------------------------ MODULE NamespaceScopedCache ------------------------
(***************************************************************************)
(* The NamespaceScopedCache of pkg/cache/namespace: a map of maps of maps, *)
(* Namespace --> GVK --> informer key --> ScopeInformer, that callers add  *)
(* informers to and remove them from while the informers run.              *)
(*                                                                         *)
(* Every operation holds the cache's mutex from its first to its last      *)
(* statement, and nothing it calls waits for another goroutine, so an      *)
(* operation is one action.  What does run between operations is the       *)
(* informers: the "go si.Run()" goroutines an operation leaves behind, the *)
(* watches, and the watch error handlers, which call back into the cache   *)
(* when they get the mutex and by then find whatever is there.             *)
(***************************************************************************)
EXTENDS ScopeInformer

CONSTANTS
    Shared,     \* the informers that callers may hand over although some
                \* ScopeInformer wraps them already, as the informers of a
                \* SharedInformerFactory are
    Forced      \* the slots from which callers may remove by force

\* A slot is the part of InformerOptions that says where an informer goes.
ASSUME SlotsAssumption == \A s \in Slots : DOMAIN s = {"Namespace", "Gvk", "Key"}

VARIABLES
    \* NamespaceScopedCache.Namespaces, one variable per level of the map:
    \* a key can be present with an empty map behind it.
    namespaces,   \* the keys of Namespaces
    gvks,         \* the <<ns, gvk>> such that gvk is a key of Namespaces[ns]
    infAt,        \* Namespaces[ns][gvk][key], Nil where there is no such key
    started

cacheVars == <<namespaces, gvks, infAt, started>>
vars == <<cacheVars, informerVars>>

NsGvk(s) == <<s.Namespace, s.Gvk>>

Cached == {infAt[s] : s \in Slots} \ {Nil}

Init ==
    /\ InformerInit
    /\ namespaces = {}
    /\ gvks = {}
    /\ infAt = [s \in Slots |-> Nil]
    /\ started = FALSE

\* The informers a caller may pass to AddInformer.
Offered == {i \in Inf : i \in Shared \/ \A x \in SI : informer[x] # i}

\* The force arguments a caller may use.
ForceArgs(s) == IF s \in Forced THEN BOOLEAN ELSE {FALSE}

-----------------------------------------------------------------------------

MutantRunLater(x) == UNCHANGED goRun

\* if nsc.IsStarted() { go si.Run() }, also for an informer that runs already.
RunIfStarted(x) == goRun' = IF started THEN goRun \cup {x} ELSE goRun

\* AddInformer registers d with the informer at s, which is a new one around
\* i if there is none; i is dropped otherwise.
AddInformer(s, d, i) ==
    \E x \in SI :
        /\ \/ /\ infAt[s] = Nil
              /\ i \in Offered
              /\ NewScopeInformer(x, i)
              /\ infAt' = [infAt EXCEPT ![s] = x]
           \/ /\ infAt[s] = x
              /\ UNCHANGED <<informer, infAt>>
        /\ namespaces' = namespaces \cup {s.Namespace}
        /\ gvks' = gvks \cup {NsGvk(s)}
        /\ AddDependent(x, d)
        /\ SetWatchErrorHandler(informer'[x], s)
        /\ RunIfStarted(x)
        /\ UNCHANGED <<started, cancelled, phase, stopCh, synced, forbidden>>

MutantDeletesByForceOnly(x, d, force) == force

\* Whether RemoveInformer deletes the informer or only takes d off it.
Deletes(x, d, force) == Without(x, d) = {} \/ force

MutantDeleteEmptyGvkOnly(s, m) ==
    /\ gvks' = IF \A t \in Slots : NsGvk(t) = NsGvk(s) => m[t] = Nil
               THEN gvks \ {NsGvk(s)} ELSE gvks
    /\ UNCHANGED namespaces

\* The two levels of the map above the informers, after a deletion at s has
\* left the informers to be m.
DeleteEmptyMaps(s, m) ==
    LET gvkEmpty == \A t \in Slots : NsGvk(t) = NsGvk(s) => m[t] = Nil
    IN  /\ gvks' = IF gvkEmpty THEN gvks \ {NsGvk(s)} ELSE gvks
        /\ namespaces' = IF \E g \in gvks' : g[1] = s.Namespace
                         THEN namespaces ELSE namespaces \ {s.Namespace}

\* What RemoveInformer does to the maps and the ScopeInformer.
Removal(s, d, force) ==
    \/ /\ infAt[s] = Nil
       /\ UNCHANGED <<namespaces, gvks, infAt, dependents, cancelled>>
    \/ LET x == infAt[s] IN
       /\ x # Nil
       /\ dependents' = [dependents EXCEPT ![x] = Without(x, d)]
       /\ \/ /\ Deletes(x, d, force)
             /\ infAt' = [infAt EXCEPT ![s] = Nil]
             /\ Terminate({x})
          \/ /\ ~Deletes(x, d, force)
             /\ UNCHANGED <<infAt, cancelled>>
       /\ DeleteEmptyMaps(s, infAt')

RemoveInformer(s, d, force) ==
    /\ Removal(s, d, force)
    /\ UNCHANGED <<started, informer, goRun, infVars, forbidden>>

MutantStartNothing ==
    /\ started' = TRUE
    /\ UNCHANGED <<namespaces, gvks, infAt, informerVars>>

MutantStartAbsent ==
    /\ goRun' = goRun \cup {infAt[s] : s \in Slots}
    /\ started' = TRUE
    /\ UNCHANGED <<namespaces, gvks, infAt, siVars, infVars, forbidden>>

\* Starts a goroutine for every informer in the cache, however often it is
\* called.
Start ==
    /\ goRun' = goRun \cup Cached
    /\ started' = TRUE
    /\ UNCHANGED <<namespaces, gvks, infAt, siVars, infVars, forbidden>>

\* Kills the informers and leaves them in the cache.
TerminateCache ==
    /\ Terminate(Cached)
    /\ started' = FALSE
    /\ UNCHANGED <<namespaces, gvks, infAt, informer, dependents, goRun,
                   infVars, forbidden>>

MutantHandleAnyError(i) ==
    /\ phase[i] \in {"forbidden", "failed"}
    /\ watchErrorHandler[i] # Nil
    /\ \E d \in UID : Removal(watchErrorHandler[i], d, TRUE)
    /\ HandlerReturns(i)
    /\ UNCHANGED <<started, informer, goRun, stopCh, watchErrorHandler, synced,
                   forbidden>>

\* The watch error handler of i, called by i's own goroutine.  If the error
\* is Forbidden it forces the removal of the slot it was created for, whatever
\* informer is there by now; other errors are swallowed.  The dependent in the
\* handler's copy of the InformerOptions makes no difference to a forced removal.
HandleWatchError(i) ==
    /\ phase[i] \in {"forbidden", "failed"}
    /\ \/ /\ phase[i] = "forbidden"
          /\ watchErrorHandler[i] # Nil
          /\ \E d \in UID : Removal(watchErrorHandler[i], d, TRUE)
       \/ /\ phase[i] = "failed" \/ watchErrorHandler[i] = Nil
          /\ UNCHANGED <<namespaces, gvks, infAt, dependents, cancelled>>
    /\ HandlerReturns(i)
    /\ UNCHANGED <<started, informer, goRun, stopCh, watchErrorHandler, synced,
                   forbidden>>

HasInformer(s) == s.Namespace \in namespaces /\ NsGvk(s) \in gvks /\ infAt[s] # Nil

Synced == \A x \in Cached : HasSynced(x)

-----------------------------------------------------------------------------

CallerNext ==
    \/ \E s \in Slots, d \in UID, i \in Inf : AddInformer(s, d, i)
    \/ \E s \in Slots, d \in UID : \E force \in ForceArgs(s) :
          RemoveInformer(s, d, force)
    \/ Start
    \/ TerminateCache

Next ==
    \/ CallerNext
    \/ \E i \in Inf : HandleWatchError(i)
    \/ InformerNext /\ UNCHANGED cacheVars

Spec == Init /\ [][Next]_vars

-----------------------------------------------------------------------------
(* Safety.                                                                 *)

\* Every variable has its type, and no ScopeInformer is in the cache twice or
\* without having been created.
TypeOK ==
    /\ InformerTypeOK
    /\ namespaces \subseteq {s.Namespace : s \in Slots}
    /\ gvks \subseteq {NsGvk(s) : s \in Slots}
    /\ infAt \in [Slots -> SI \cup {Nil}]
    /\ started \in BOOLEAN
    /\ \A s \in Slots : infAt[s] # Nil => informer[infAt[s]] # Nil
    /\ \A s, t \in Slots : infAt[s] = infAt[t] /\ infAt[s] # Nil => s = t

\* The levels of the map agree: a namespace or a GVK is a key exactly as long
\* as there is an informer behind it.  Get and List answer InformerNotFoundErr
\* for a key that is absent and an empty result for a map that is empty, so
\* an empty map left behind turns "nobody watches this" into "there is none".
NoEmptyMaps ==
    /\ gvks = {NsGvk(s) : s \in {t \in Slots : infAt[t] # Nil}}
    /\ namespaces = {g[1] : g \in gvks}

\* An informer is in the cache only as long as some dependent wants it; without
\* one no later RemoveInformer of a dependent would ever take it out.
EveryInformerIsHeld == \A x \in Cached : dependents[x] # {}

\* No watch outlives its place in the cache: whatever runs, or is about to
\* run, either can still be found in the cache, and hence be removed, or has
\* been told to stop.  Otherwise the connection to the API server leaks.
NoOrphanWatch ==
    \A x \in SI :
        x \in goRun \/ (\E i \in Inf : Live(i) /\ stopCh[i] = x)
            => x \in Cached \/ cancelled[x]

\* A ScopeInformer is created in the cache and cancelled no later than it
\* leaves; nothing else can make it watch.
CreatedAreAccountedFor ==
    \A x \in SI : informer[x] # Nil => x \in Cached \/ cancelled[x]

\* The context that stops an informer is one of a ScopeInformer that wraps it.
StoppedByItsWrapper ==
    \A i \in Inf : stopCh[i] # Nil => informer[stopCh[i]] = i

\* The inductive invariant: with it NoOrphanWatch holds although neither a
\* pending "go si.Run()" nor a watch says anything of the cache.
IInv ==
    /\ TypeOK
    /\ EveryInformerIsHeld
    /\ CreatedAreAccountedFor
    /\ StoppedByItsWrapper

\* In a started cache every informer that has not been killed is watching, or
\* is about to, unless the context it runs with has been cancelled.  That
\* context is its own, so that nothing else stops it, provided that callers
\* share it with no other slot and hand it over only once; if they do share it,
\* it is the context of the ScopeInformer that ran it first.
CachedInformersWatch ==
    started => \A x \in Cached :
        \/ cancelled[x]
        \/ x \in goRun
        \/ LET i == informer[x] IN
           /\ stopCh[i] = x \/ i \in Shared
           /\ Live(i) \/ (phase[i] = "stopped" /\ cancelled[stopCh[i]])

\* The watch error handler of an informer in the cache removes that informer's
\* own slot, and is in place before the informer runs, if it is not shared.
HandlerGuardsItsSlot ==
    \A s \in Slots :
        infAt[s] # Nil => LET i == informer[infAt[s]]
                          IN  i \in Shared \/ watchErrorHandler[i] = s

-----------------------------------------------------------------------------
(* What a step may not do.                                                 *)

\* What the comments on the watch error handler say: it removes the informer
\* it was created for, so an informer with dependents goes only when its own
\* watch is refused.  ("If permissions at any point don't allow this informer
\* to run remove it from the cache", namespace_cache.go.)
RefusalRemovesOwnInformer ==
    [][\A s \in Slots :
          LET x == infAt[s] IN
          x # Nil /\ infAt'[s] # x /\ dependents'[x] # {}
            => phase[informer[x]] = "forbidden"]_vars

-----------------------------------------------------------------------------
(* What the cache promises its dependents.                                 *)

\* By force an informer goes when the caller says so, or when a watch that was
\* set up for its slot is refused.
Lease == INSTANCE InformerLease WITH
    registered <- {s \in Slots : HasInformer(s)},
    holders    <- [s \in Slots |-> IF HasInformer(s) THEN dependents[infAt[s]]
                                                     ELSE {}],
    evictable  <- {s \in Slots :
                      \/ s \in Forced
                      \/ \E i \in Inf : /\ phase[i] = "forbidden"
                                        /\ watchErrorHandler[i] = s}

\* Where callers never force a removal, an informer leaves the cache only with
\* its last dependent or because a watch set up for its slot was refused; and each
\* RemoveInformer takes one dependent off one informer, AddInformer adds one.
LeaseSpec == Lease!Spec
=============================================================================

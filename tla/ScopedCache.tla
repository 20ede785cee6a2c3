---------------------------- MODULE ScopedCache ----------------------------
(***************************************************************************)
(* The ScopedCache of pkg/cache: a NamespaceScopedCache and a              *)
(* ClusterScopedCache behind the interface of a controller-runtime cache.  *)
(*                                                                         *)
(* It has no mutex of its own.  A request reads the maps of the two caches *)
(* without theirs, asks the API server for permission, and calls the       *)
(* caches, which lock and unlock; anything may happen between these steps. *)
(* One request is followed through its steps.  Other callers add and       *)
(* remove informers meanwhile, which is all that their requests do to the  *)
(* caches; and watch error handlers evict informers.                       *)
(*                                                                         *)
(* An unlocked read of a map is taken to see the map as it is between two  *)
(* operations.  (If the Go runtime notices that it overlaps with one, it   *)
(* ends the program.)                                                      *)
(***************************************************************************)
EXTENDS ScopeInformer

CONSTANTS
    AllNamespaces,    \* "", the Namespace of the slots of the cluster cache
    Shared,           \* the informers that are handed out more than once
    Forced,           \* the slots from which callers may remove by force
    Ops               \* the operations whose requests are followed

ASSUME SlotsAssumption == \A s \in Slots : DOMAIN s = {"Namespace", "Gvk", "Key"}

VARIABLES
    nsNamespaces, nsGvks, nsInfAt, nsStarted,   \* ScopedCache.nsCache
    clGvks, clInfAt, clStarted,                 \* ScopedCache.clusterCache
    \* The request that is followed.
    req,          \* what it is, Nil if there is none
    pc,           \* the step it is about to take
    permitted,    \* the answer of the access review
    toVisit,      \* where its loop over a map must yet come to
    answer,       \* what it returns
    \* History.
    steady,       \* the slots with the same informer since the request began
    clusterEver   \* whether the cluster cache has had its GVK meanwhile

nsVars == <<nsNamespaces, nsGvks, nsInfAt, nsStarted>>
clVars == <<clGvks, clInfAt, clStarted>>
cacheVars == <<nsVars, clVars, informerVars>>
reqVars == <<req, pc, permitted, toVisit, answer>>
vars == <<cacheVars, reqVars, steady, clusterEver>>

ClSlots == {s \in Slots : s.Namespace = AllNamespaces}
NsSlots == Slots \ ClSlots

NS == INSTANCE NamespaceScopedCache
      WITH Slots <- NsSlots, namespaces <- nsNamespaces, gvks <- nsGvks,
           infAt <- nsInfAt, started <- nsStarted
CL == INSTANCE ClusterScopedCache
      WITH Slots <- ClSlots, gvks <- clGvks, infAt <- clInfAt,
           started <- clStarted

InformerAt(s) == IF s \in NsSlots THEN nsInfAt[s] ELSE clInfAt[s]
Occupied == {s \in Slots : InformerAt(s) # Nil}

Gvks == {s.Gvk : s \in Slots}

\* Get and List name a namespace and a kind; GetInformer, and for the cluster
\* GetInformerForKind, boil down to the slot they want.
Reads   == [op : {"Get", "List"},
            Namespace : {s.Namespace : s \in NsSlots} \cup {AllNamespaces},
            Gvk : Gvks]
Lookups == [op : {"GetInformer"}, slot : Slots]
Waits   == [op : {"WaitForCacheSync"}]

ASSUME RequestsAssumption == Nil \notin Reads \cup Lookups \cup Waits

\* What a request returns besides a ScopeInformer.
Results == {"Answered", "InformerNotFound", "Forbidden", "Error", "Synced"}

ASSUME ResultsAssumption == \A r \in Results : r \notin SI /\ r # Nil

-----------------------------------------------------------------------------
(* AddInformer, RemoveInformer and HasInformer of the ScopedCache.         *)

AddInformer(s, d, i) ==
    \/ s \in NsSlots /\ NS!AddInformer(s, d, i) /\ UNCHANGED clVars
    \/ s \in ClSlots /\ CL!AddInformer(s, d, i) /\ UNCHANGED nsVars

RemoveInformer(s, d, force) ==
    \/ s \in NsSlots /\ NS!RemoveInformer(s, d, force) /\ UNCHANGED clVars
    \/ s \in ClSlots /\ CL!RemoveInformer(s, d, force) /\ UNCHANGED nsVars

HasInformer(s) == IF s \in NsSlots THEN NS!HasInformer(s) ELSE CL!HasInformer(s)

\* Start: the cluster cache first.
StartCluster == CL!Start /\ UNCHANGED nsVars
StartNamespaces == clStarted /\ NS!Start /\ UNCHANGED clVars

-----------------------------------------------------------------------------
(* The request.                                                            *)

\* The request goes on to another step, or to its end, with nothing else
\* changing.
Goto(step) == pc' = step /\ UNCHANGED <<req, toVisit, answer, cacheVars>>
Go(step) == Goto(step) /\ UNCHANGED permitted

Finish(result) ==
    /\ pc' = "done"
    /\ answer' = result
    /\ UNCHANGED <<req, permitted, toVisit, cacheVars>>

\* The access review; it may also fail, which is the end of the request.
Review ==
    /\ pc = "review"
    /\ \/ permitted' \in BOOLEAN /\ Goto("route")
       \/ Finish("Error")

\* What becomes of a request for a GVK that is in the cluster cache or not.
RouteTo(clusterScoped) ==
    \/ ~permitted /\ clusterScoped /\ Finish("Forbidden")
    \/ ~permitted /\ ~clusterScoped /\ Go("look")
    \/ permitted /\ clusterScoped /\ Go("readCluster")
    \/ permitted /\ ~clusterScoped /\ Go("readNamespace")

MutantRouteByNamespace == pc = "route" /\ RouteTo(req.Namespace = AllNamespaces)

\* Whether the cluster cache has the GVK decides which cache is asked.
Route == pc = "route" /\ RouteTo(req.Gvk \in clGvks)

\* The GVK whose informers are evicted.  List uses that of the list, not that
\* of its items, and there is no informer for "PodList".
EvictedGvk == IF req.op = "Get" THEN req.Gvk ELSE <<req.Gvk, "List">>

\* The informers in Namespaces[Namespace][gvk].
Evictable ==
    {s \in NsSlots : /\ s.Namespace = req.Namespace
                     /\ s.Gvk = EvictedGvk
                     /\ nsInfAt[s] # Nil}

\* The loop over the informers to evict begins.
Look ==
    /\ pc = "look"
    /\ pc' = "evict"
    /\ toVisit' = Evictable
    /\ UNCHANGED <<req, permitted, answer, cacheVars>>

\* The informers the loop must still come to.
StillThere == {t \in toVisit : InformerAt(t)' = InformerAt(t)}

\* A round of the loop: go's range comes to every key that was there when it
\* began and has not been deleted since, and may come to one added since.
Evict(s) ==
    /\ pc = "evict"
    /\ s \in Evictable
    /\ RemoveInformer(s, Nil, TRUE)
    /\ toVisit' = StillThere
    /\ UNCHANGED <<req, pc, permitted, answer>>

MutantEvictSome == pc = "evict" /\ Finish("Forbidden")

Evicted == pc = "evict" /\ toVisit = {} /\ Finish("Forbidden")

\* Get and List of the two caches, whose answers Retrieval is about.
ReadNamespace ==
    /\ pc = "readNamespace"
    /\ Finish(IF \/ req.op = "List" /\ req.Namespace = AllNamespaces
                 \/ <<req.Namespace, req.Gvk>> \in nsGvks
              THEN "Answered" ELSE "InformerNotFound")

ReadCluster ==
    /\ pc = "readCluster"
    /\ Finish(IF req.Gvk \in clGvks THEN "Answered" ELSE "InformerNotFound")

\* GetInformer: is there one already?
Lookup ==
    /\ pc = "lookup"
    /\ \/ InformerAt(req.slot) # Nil /\ Finish(InformerAt(req.slot))
       \/ InformerAt(req.slot) = Nil /\ Go("create")

\* If not, the factory makes one, or fails, and it is added.
Create ==
    /\ pc = "create"
    /\ \/ /\ \E d \in UID, i \in Inf : AddInformer(req.slot, d, i)
          /\ pc' = "reread"
          /\ UNCHANGED <<req, permitted, toVisit, answer>>
       \/ Finish("Error")

\* What is returned is read out of the map again.
Reread == pc = "reread" /\ Finish(InformerAt(req.slot))

\* WaitForCacheSync asks one cache after the other, and starts again if
\* either says no.
WaitCluster == pc = "waitCluster" /\ CL!Synced /\ Go("waitNamespaces")

MutantWaitForEither ==
    /\ pc = "waitNamespaces"
    /\ NS!Synced \/ CL!Synced
    /\ Finish("Synced")

WaitNamespaces ==
    /\ pc = "waitNamespaces"
    /\ \/ NS!Synced /\ Finish("Synced")
       \/ ~NS!Synced /\ Go("waitCluster")

Step ==
    \/ Review \/ Route \/ Look \/ Evicted \/ ReadNamespace \/ ReadCluster
    \/ \E s \in NsSlots : Evict(s)
    \/ Lookup \/ Create \/ Reread
    \/ WaitCluster \/ WaitNamespaces

-----------------------------------------------------------------------------
(* What else happens.                                                      *)

HasGvk(r, gvkSet) == r \in Reads /\ r.Gvk \in gvkSet

\* What the history variables make of a step.
Observe ==
    /\ steady' = {s \in steady : InformerAt(s)' = InformerAt(s)}
    /\ clusterEver' = (clusterEver \/ HasGvk(req', clGvks'))

\* The request stands still, but for what the change means to it.
Alongside ==
    /\ toVisit' = StillThere
    /\ UNCHANGED <<req, pc, permitted, answer>>
    /\ Observe

\* Only the namespace cache has set watch error handlers.
OnWatchError(i) ==
    \/ watchErrorHandler[i] # Nil /\ NS!HandleWatchError(i) /\ UNCHANGED clVars
    \/ watchErrorHandler[i] = Nil /\ CL!IgnoreWatchError(i) /\ UNCHANGED <<nsVars, clVars>>

Others ==
    \/ \E s \in Slots, d \in UID, i \in Inf : AddInformer(s, d, i)
    \/ \E s \in Slots, d \in UID : \E force \in NS!ForceArgs(s) :
          RemoveInformer(s, d, force)
    \/ StartCluster
    \/ StartNamespaces
    \/ \E i \in Inf : OnWatchError(i)
    \/ InformerNext /\ UNCHANGED <<nsVars, clVars>>

NoRequest ==
    /\ req = Nil
    /\ pc = "idle"
    /\ permitted = FALSE
    /\ toVisit = {}
    /\ answer = Nil
    /\ steady = {}
    /\ clusterEver = FALSE

\* A request begins.
Begin(r, first) ==
    /\ req = Nil
    /\ req' = r
    /\ pc' = first
    /\ steady' = Occupied
    /\ clusterEver' = HasGvk(r, clGvks)
    /\ UNCHANGED <<cacheVars, permitted, toVisit, answer>>

Return ==
    /\ pc = "done"
    /\ req' = Nil
    /\ pc' = "idle"
    /\ permitted' = FALSE
    /\ answer' = Nil
    /\ steady' = {}
    /\ clusterEver' = FALSE
    /\ UNCHANGED <<toVisit, cacheVars>>

Init ==
    /\ InformerInit
    /\ nsNamespaces = {} /\ nsGvks = {} /\ nsInfAt = [s \in NsSlots |-> Nil]
    /\ clGvks = {} /\ clInfAt = [s \in ClSlots |-> Nil]
    /\ nsStarted = FALSE /\ clStarted = FALSE
    /\ NoRequest

Next ==
    \/ \E r \in Reads : r.op \in Ops /\ Begin(r, "review")
    \/ \E r \in Lookups : r.op \in Ops /\ Begin(r, "lookup")
    \/ \E r \in Waits : r.op \in Ops /\ Begin(r, "waitCluster")
    \/ Step /\ Observe
    \/ Others /\ Alongside
    \/ Return

Spec == Init /\ [][Next]_vars

InformerStep(A) == A /\ UNCHANGED <<nsVars, clVars>> /\ Alongside

\* The Go scheduler runs every goroutine, that of the request included, and
\* hands a mutex to every waiter; a cancelled context is noticed; and a
\* reflector retries for ever, so that a request to the API server which could
\* succeed, or be refused, again and again once is.  Callers and the API
\* server's permissions are under no obligation.
Fairness ==
    /\ \A x \in SI : WF_vars(InformerStep(Run(x)))
    /\ \A i \in Inf :
          /\ WF_vars(InformerStep(Stop(i)))
          /\ WF_vars(OnWatchError(i) /\ Alongside)
          /\ SF_vars(InformerStep(Sync(i)))
          /\ SF_vars(InformerStep(WatchFails(i, "forbidden")))
    /\ WF_vars(Step /\ Observe)

FairSpec == Spec /\ Fairness

-----------------------------------------------------------------------------

\* The types; no ScopeInformer is in both caches, or in one of them twice; and
\* between operations neither cache has a level of its map without an informer.
TypeOK ==
    /\ InformerTypeOK
    /\ \A s \in Slots : InformerAt(s) \in {x \in SI : informer[x] # Nil} \cup {Nil}
    /\ \A s, t \in Occupied : InformerAt(s) = InformerAt(t) => s = t
    /\ NS!NoEmptyMaps /\ CL!NoEmptyMaps
    /\ nsStarted \in BOOLEAN /\ clStarted \in BOOLEAN
    /\ req \in Reads \cup Lookups \cup Waits \cup {Nil}
    /\ pc = "idle" <=> req = Nil
    /\ permitted \in BOOLEAN
    /\ toVisit \subseteq {s \in NsSlots : nsInfAt[s] # Nil}
    /\ steady \subseteq Occupied

\* Whatever watches or is about to watch is in one of the caches or has been
\* cancelled, whichever of the requests and handlers took it out.
NoOrphanWatch ==
    \A x \in SI :
        x \in goRun \/ (\E i \in Inf : Live(i) /\ stopCh[i] = x)
            => x \in NS!Cached \cup CL!Cached \cup {y \in SI : cancelled[y]}

\* InformerNotFoundErr is returned for a reason.  An informer of the cluster
\* cache that is there all along is found, whatever the other cache does.  One
\* of the namespace cache is, unless an informer of the cluster cache has
\* come or gone meanwhile, for whose sake the request went there.
NotFoundIsTrue ==
    pc = "done" /\ answer = "InformerNotFound" =>
        \A s \in {t \in steady : t.Gvk = req.Gvk} :
            /\ s \notin ClSlots
            /\ s.Namespace = req.Namespace => clusterEver

\* A request is refused: "Any informers that meet the invalid permissions are
\* forcefully removed from the cache", the comments of Get and List say.  None
\* that was there when the request began is still there when it ends, unless
\* the cluster cache, which is spared on purpose, has served the GVK.
RefusalEvicts(op) ==
    pc = "done" /\ req \in Reads /\ req.op = op /\ answer = "Forbidden" /\ ~clusterEver
        => \A s \in steady : s.Gvk = req.Gvk => s.Namespace # req.Namespace

\* So does Get, though informers come and go while it goes through the map.
RefusedGetEvicts == RefusalEvicts("Get")

\* And so should List.
RefusedListEvicts == RefusalEvicts("List")

\* When WaitForCacheSync returns, every informer has synced that was in either
\* cache since it was called, although it asks one cache after the other.
SyncedMeansSynced ==
    pc = "done" /\ answer = "Synced" =>
        \A s \in steady : HasSynced(InformerAt(s))

\* Under fair scheduling WaitForCacheSync, which ignores its context and has no
\* other way out, returns, provided that no informer is added any more and the
\* cluster cache, which evicts nothing, is left with informers it may run.
WaitReturns ==
    /\ <>[](nsStarted /\ clStarted /\ \A x \in CL!Cached : informer[x] \notin forbidden)
    /\ <>[][\A s \in Slots : InformerAt(s)' \in {InformerAt(s), Nil}]_vars
    => (pc = "waitCluster" ~> pc = "done")

\* In the started ScopedCache, too, a namespace-scoped informer that is refused
\* leaves, though requests evict informers at the same time.
RefusedInformersLeave ==
    \A x \in SI :
        (nsStarted /\ x \in NS!Cached /\ informer[x] \in forbidden)
            ~> (x \notin NS!Cached \/ informer[x] \notin forbidden)

\* GetInformer returns an informer or an error: "Return the new ScopeInformer"
\* or "the existing ScopeInformer", its comment says.
GetInformerReturnsOne == pc = "done" /\ req \in Lookups => answer # Nil
=============================================================================

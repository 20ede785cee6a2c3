# telescopia in TLA+

telescopia is a cache for controller-runtime that is *scoped* and *dynamic*: it
watches Kubernetes resources in single namespaces or in the whole cluster, and
informers can be added to it and removed from it while it runs, driven by
dependents (custom resources, usually) and by what the operator is permitted to
watch. This directory models the part of it where that is decided, checks the
models with TLC and proves theorems about them with TLAPS.

## The system

| component | state | operations | talks to |
|---|---|---|---|
| **ScopeInformer** (`components/scope_informer.go`) | a client-go informer, a context and its cancel function, dependents by UID, event listeners by hash | NewScopeInformer, Run, Terminate, Add/Remove/HasDependent, SetWatchErrorHandler, HasSynced, Get, List, AddEventHandler*, AddIndexers | calls client-go; client-go calls the watch error handler from its own goroutine |
| **NamespaceScopedCache** (`namespace/namespace_cache.go`) | `Namespaces`: namespace -> GVK -> key -> ScopeInformer; `started`; a mutex | AddInformer, RemoveInformer, Start, Terminate, Synced, HasInformer, Get, List | owns ScopeInformers; their watch error handlers call RemoveInformer |
| **ClusterScopedCache** (`cluster/cluster_cache.go`) | `GvkInformers`: GVK -> key -> ScopeInformer; `started`; a mutex | the same without Terminate | owns ScopeInformers; sets no handler |
| **ScopedCache** (`cache.go`) | the two caches, a scheme, a REST mapper, a dynamic client, a factory of informers | Get, List, GetInformer, GetInformerForKind, IndexField, Start, WaitForCacheSync, AddInformer, RemoveInformer, HasInformer | routes to the caches; reads their maps without their mutexes; asks the API server for permissions |
| **Retrieval** (`DeduplicateList` in `util/helpers.go`, Get and List of the caches) | none | Get, List, DeduplicateList | the stores of the informers |
| **Permissions** (`CanVerbResource`) | none | one SelfSubjectAccessReview per Get and List | the API server |
| **Errors, options, defaults, discovery** | none | constructors | - |
| **main.go** | none | a demonstration script | a cluster |

The behaviours that are hard, and what would make each component correct:

* *ScopeInformer*: running is asynchronous (`go si.Run()`), an informer runs once
  in its life, and stops with the context of whichever ScopeInformer ran it first.
  Correct: what is terminated stops; what runs can be reached.
* *NamespaceScopedCache*: callers and watch error handlers race for the mutex, and
  a handler removes by key what it finds when it gets it. Correct: an informer is
  there from its first dependent to its last, unless its permission is gone; it runs
  exactly while it is there and the cache is started; the map has no hollow levels;
  what is forbidden leaves, so that waiting for the cache to sync ends.
* *ClusterScopedCache*: the same promises, without handlers.
* *ScopedCache*: its reads of the caches' maps are unlocked, its decisions (is it
  permitted? is the GVK cluster-scoped? is there an informer yet?) are used after
  they may have become wrong. Correct: what GetInformer returns is in the cache or
  was removed by someone; a forbidden request takes its informers with it.
* *Retrieval*: several informers may hold the same object. Correct: List returns
  each object once, Get finds what any informer has.
* *Event handlers and indexers*: nothing is locked, a handler is recognised by a
  hash of its printed form, and informers come and go meanwhile. Correct: a handler that
  was added hears of events and was added once; IndexField without an error has left
  no informer out.

NamespaceScopedCache.Terminate is part of that cache's interface, but the ScopedCache never
calls it.

`PROJECT.json` lists the hazards with their lines and the properties aimed at them.

## The modules

    InformerLease                              what a cache promises its dependents
       ^ implemented by     ^
    NamespaceScopedCache   ClusterScopedCache  one action per operation
       |  extends   ^         |           ^
       +--> ScopeInformer <---+           |    wrapper and client-go informer
                    | instances of both   |
                    +--- ScopedCache -----+    requests in their steps
                              |  extends
                              v
                    HandlersAndIndexers        what callers attach to informers
    Retrieval                                  Get and List of both caches

    MCNamespaceScopedCache, MCClusterScopedCache, MCScopedCache,
    MCHandlersAndIndexers, MCRetrieval         constants and symmetry for TLC
    NamespaceScopedCacheProofs, then NamespaceScopedCacheWatchProofs, then
    NamespaceScopedCacheLeaseProofs; ClusterScopedCacheProofs
                                               theorems about each cache
    ScopedCacheProofs (over instances of the above), then
    ScopedCacheRequestProofs; HandlersAndIndexersProofs
                                               theorems about both together
    RetrievalProofs                            theorems about Get and List

**ScopeInformer** has the fields of the Go struct as functions over a set `SI` of
identities (`informer`, `cancelled`, `dependents`) and, for client-go's informers
`Inf`, the phase of the informer's goroutine, the ScopeInformer whose context stops
it, its watch error handler and whether it has synced. `goRun` holds the
goroutines that `go si.Run()` has left behind and that have not run yet.
`forbidden` is what the API server refuses. The operators that the caches call
under their mutex (`NewScopeInformer`, `AddDependent`, `Terminate`,
`SetWatchErrorHandler`) are not actions; what happens on goroutines (`Run`, `Stop`,
`Sync`, `WatchFails`, `HandlerReturns`) is. client-go itself is not in the
repository and is modelled from its use: it runs an informer at most once, takes a
handler only before that, returns at once when the context is already cancelled,
calls the handler when a list or watch fails, and then retries unless it has been
stopped meanwhile.

**NamespaceScopedCache** represents the map of maps of maps by `namespaces`,
`gvks` and `infAt`, one variable per level, so that a level can be present and
empty. A *slot* is an `InformerOptions` without its informer and its dependent. Each
operation holds the mutex throughout and calls nothing that blocks, so each is one
action: `AddInformer`, `RemoveInformer`, `Start`, `TerminateCache` and
`HandleWatchError`. The last is called by client-go in phase `"forbidden"` (the
error is Forbidden) or `"failed"` (it is another); time passes between the error
and the action, in which other operations may have the mutex. The handler is a closure that keeps the
slot it was created for, which is all of it that matters. Two fields of an
`InformerOptions` that a caller sets freely are arguments of the actions: the
dependent (only its UID is used) and the informer. `Shared` holds the informers that callers may hand over although a ScopeInformer wraps them
already, as the informers of one SharedInformerFactory for one resource are; `Forced` the
slots from which callers may remove by force.

**ClusterScopedCache** is the same with one level less, no handler
(`IgnoreWatchError`: client-go's default handler only logs) and no Terminate.

**InformerLease** has slots, holders and three actions: Acquire, Release, and
Evict for slots that may be evicted now. Both caches are shown to implement it.
What is observed is `HasInformer` and the dependents. In the namespace
cache a slot may be evicted when a caller forces it or while an informer whose handler is
for that slot has been refused; in the cluster cache only when a caller forces it.

**ScopedCache** is composed of an instance of each cache over the same ScopeInformers; slots
whose namespace is `AllNamespaces` belong to the cluster cache. It has no mutex, so
that one request is followed through its steps (`req`, `pc`): the access review, the
unlocked read that decides which cache is asked (`Route`), the unlocked loop that evicts
what is not permitted (`Look`, `Evict`, `Evicted`), the locked read; or `Lookup`,
`Create`, `Reread` of GetInformer and GetInformerForKind; or the two halves of
WaitForCacheSync. In between, other callers use AddInformer and RemoveInformer, which is
all that other requests do to the caches; Start runs, in its two steps, and watch error
handlers are called. The history variables `steady` (slots with the
same informer since the request began) and `clusterEver` say what the answer may be.
Go's range over a map that changes comes to every key that is there from beginning to end,
and perhaps to new ones: `toVisit` holds the former. Unlocked reads
are atomic; that the Go runtime may end the program when it notices the race is left out.
`Ops` says which operations are followed.

**HandlersAndIndexers** extends the ScopedCache by what callers attach to its
informers. `AddEventHandler` is taken apart into `Check`, `Record` and `Register`: the map
`eventListeners` is read, then written, then the handler goes to client-go, and no lock
is held. `listeners` has the calls that registered a handler with an informer: each caller
calls once, so that a call stands for the registration that client-go keeps. The two methods differ in the prefix
of the key and in the resync period, which is left out. What `HashObject` makes of a
handler is a parameter: it says which hashes a handler may get, hence which handlers share one. IndexField is the
request that is followed, with `RangeOver`, a round `AddIndexers` per informer, and `AllIndexed`.
client-go drops a handler once the informer has stopped, and refuses an indexer once it
has been started, or has one of that name.

**Retrieval** takes a request (`Get` or `List`, of one of the two caches) apart:
`Begin` takes the mutex and determines the informers to ask, `AskInformer` is one
round of the loop, `Return` releases the mutex. A watch event (`Deliver`) may change
the store of any informer in between; `AddInformer` and `RemoveInformer` of that
cache may not, and those of the other one may. `DeduplicateList` is translated
as it is written. Keys are sequences of the parts of the string, without the separator:
`StoreKey` is what client-go stores an object under, `LookupKey` what Get
asks for. Two history variables, `always` and `ever`, hold what a request could have
seen: a List or Get over stores that change has no single right answer, and the
properties bound it from both sides, as for a regular register.

Operators whose names begin with `Mutant` are not part of the specifications: each
is a definition as a plausible bug would have it, and is used to see
that a property notices.

## What is checked

| run | question | bounds |
|---|---|---|
| `ns_cache` | `TypeOK`, `NoEmptyMaps`, `EveryInformerIsHeld`, `NoOrphanWatch`, `IInv`, `CachedInformersWatch`, `HandlerGuardsItsSlot`, `LeaseSpec`: are the levels of the map consistent, does anything leak, get lost or leave too early, and does everything in a started cache watch, with the right handler? | 3 slots: two keys of one GVK and a second GVK; 2 ScopeInformers; 2 informers, one of them shared at will; 2 dependents; forced removals from one slot |
| `cl_live` | `TypeOK`, `NoEmptyMaps`, `NoOrphanWatch`, `CachedInformersWatch`, `LeaseSpec`, `CacheSyncs`, `TerminatedWatchesStop`: the same for the cluster cache; does what is removed stop, and does the cache sync? | 3 slots, 2 ScopeInformers, 2 informers, 2 dependents; callers force nothing; no symmetry |
| `sc_requests` | `TypeOK`, `NoOrphanWatch`, `NotFoundIsTrue`, `RefusedGetEvicts`, `SyncedMeansSynced`: do requests answer truly, and evict what they should, while everything else goes on? | 2 keys in a namespace and 1 for the cluster, all of one GVK; 2 ScopeInformers, 2 informers, 1 dependent; only refused requests and watches remove by force |
| `sc_live` | `WaitReturns`, `RefusedInformersLeave`: does WaitForCacheSync come to an end, and does what is refused leave? | 1 slot in a namespace and 1 for the cluster; 2 ScopeInformers, 2 informers, 1 dependent; only WaitForCacheSync is followed; no symmetry |
| `hx_attach` | `HandlersTypeOK`, `HandlersHear`, `RegisteredOncePerKey`, `IndexedMeansIndexed`: does a handler that was added hear of events, once, and has IndexField left nothing out? | 2 keys in a namespace and 1 for the cluster; 2 ScopeInformers, 2 informers, 1 dependent; 2 callers that add a handler once each, one handler with a key for each of the two methods |
| `rt_pods` | `RetrievalTypeOK`, `ListIsRegular`, `GetIsRegular`: do Get and List of both caches answer with what was there? | 4 informers: two of one namespace and GVK, one of another namespace, one for the cluster; 3 objects, two of which are successive bearers of one name |
| `ns_stale_handler`, `sc_refused_list`, `sc_nil_informer`, `hx_handler_lost`, `hx_handler_twice`, `rt_node` | the findings below | as small as shows them |

The bounds. `SI` bounds how many ScopeInformers are ever created, and nothing
else: when they are used up, callers can still do everything but add a new
informer. Two are enough for a removed one and its successor at the same slot, and
for a GVK with two keys, or a namespace with two GVKs, that loses one. Two dependents
distinguish the last one from another. Two keys in one GVK and two GVKs in one
namespace make every level of the map lose an element with and without becoming
empty; a second namespace would repeat the outermost level. A fresh ScopeInformer gets an identity chosen once and for all: unused ones are alike, and
nothing refers to them. In `ns_cache` one informer that is shared and one that is not,
and one slot with forced removals and two without, put every combination into one run:
`CachedInformersWatch` demands more of an exclusive informer than of a shared one,
`HandlerGuardsItsSlot` is about exclusive ones, and `LeaseSpec` allows a forced removal only where `Forced` does. The mix of a namespace and the cluster in `sc_requests` is the least that lets
a request be routed both ways and its loop come to two informers. In the retrieval runs two informers of one namespace and GVK make a
request ask twice, and two UIDs of one name make an object be replaced while it does.
In `hx_attach` two callers are enough
to overlap, and to come one after the other; one of them can use each method. Watch errors
and permissions are left out there, since a refusal does nothing to an informer that a
removal does not, and `HInit` says so (`forbidden = {}`).
Identities, informers and UIDs are interchangeable in the other runs, hence the symmetry, which the liveness runs do without.
There is no deadlock to excuse: in every state permissions can change, or callers call RemoveInformer.

Fairness is that of the Go runtime and of client-go: a goroutine that can proceed
eventually does (weak fairness of `Run`, `Stop`, `HandleWatchError`: the mutex
of `sync` does not starve a waiter), and a reflector retries for ever, so that if
its requests can succeed, or be refused, again and again, one of them
is (strong fairness of `Sync` and of `WatchFails` with Forbidden; weak would not
do, since other failures and changing permissions interrupt). Callers, role
bindings and failures other than Forbidden are under no fairness. It is stated
for the cluster cache (`cl_live`) and for the ScopedCache as a whole (`sc_live`), where the
goroutine of the request is scheduled as well. `CacheSyncs` and `WaitReturns` are
conditional on callers being quiet eventually, in that they add no informer any more
(removals may go on), and on the informers that the cluster cache is left with being permitted, since
nothing evicts them. Without the first condition WaitForCacheSync can be kept
waiting for ever by new informers; it ignores its context, and has no other way out.

### Findings

* `ns_stale_handler`. The handler made by `WatchErrorHandlerForScopeInformer`
  "is called to remove the ScopeInformer" it was made for, but removes by key. If
  an informer is refused, and is removed and replaced at its key before its
  handler gets the mutex, the handler evicts the replacement, though its own watch was
  never refused. `LeaseSpec` shows the limit of the damage: it is
  always the handler's own slot.
* `sc_refused_list`. A List that is refused should evict the informers concerned, as
  Get does, but looks for them under the GVK of the list, and evicts nothing.
* `sc_nil_informer`. GetInformer reads the informer it has just added out of the map
  again, without the mutex. If it has been evicted in between, it returns a nil
  `*ScopeInformer` and no error.
* `hx_handler_lost`. AddEventHandler recognises a handler by a hash of its deep print, and a
  function prints as the address of its code. Two `ResourceEventHandlerFuncs` whose
  functions are closures of one literal look the same, and the second is never
  registered, without a word.
* `hx_handler_twice`. The comment on `eventListeners` (`scope_informer.go:42-44`) says that the
  hashes are tracked to prevent that a handler is processed twice. They are looked up and
  recorded in separate steps that no mutex covers, so two overlapping calls
  (`HandlerIsAddedOnce`) both register the handler.
* `rt_node`. Get looks an object without a namespace up under `/name`; the informer
  stores it under `name`. List finds it, Get never does. `GetIsRegular` shows that
  objects with a namespace are not affected.

Proved, and so without a run: `DeduplicateList` never puts a UID into its map, so it returns
every list as it is (`DeduplicateListIsIdentity`), and a List returns an object once for
each informer that holds it. The comments on List (`namespace_cache.go:90`) and on
`DeduplicateList` (`helpers.go:159`) say that duplicates are removed.

Seen while modelling, without a run:

* With one client-go informer under two keys, which the tests of RemoveInformer set
  up (`namespace_cache_test.go:159-164`) and which a shared factory leads to, removing one
  key can stop the watch of the other, which stays in the cache and is never run again.
  `CachedInformersWatch` says how far this goes: what is cached and started is run, and a
  shared informer stops only if the ScopeInformer whose goroutine ran it is cancelled.
* A handler can be registered twice: by the two methods, whose keys differ; or if
  what it refers to has changed between two calls, since the hash is of what it prints then.
  `RegisteredOncePerKey` is what is left: at most once for each key
  that is recorded, unless calls overlapped (`hx_handler_twice`).
* A handler added to an informer that has been removed in the meantime is dropped without an
  error, and a handler does not move to the informer that takes the slot over.
* IndexField fails as soon as it meets an informer that runs, and leaves those before it
  indexed; a retry then fails at those. An informer added later has no
  index. So it has to be called before Start, and once.
* GetInformer, on finding an informer, does not add the caller to its dependents; it goes
  when those who added it give it up.

The comment of the cluster cache's AddInformer
(`cluster_cache.go:112`) announces a watch error handler that is commented out: a refused
informer stays for ever, and WaitForCacheSync with it. The cluster cache's Get promises a NotFound error
(`cluster_cache.go:39`) and returns a plain one (line 68). What a miss returns is
the same in every state, so there is nothing for a model checker to find out.

## What is proved

Every invariant that a passing run checks, and the refinement of InformerLease by both
caches, is a theorem. They hold for all values of the constants, infinite sets included:
any numbers of informers, slots, dependents, callers and objects, informers shared or
not, removals forced or not. The assumptions on the constants are about how the models
write things down, and none restricts the program:

* `NilAssumption`, `RequestsAssumption` (of the ScopedCache, and of Retrieval) and
  `IndexFieldsAssumption`: `Nil`, or `None`, is no identity, informer, slot or request,
  and so can stand for the absence of one. `ResultsAssumption`: what a request answers
  when it does not answer with a ScopeInformer can be told from one.
* `SlotsAssumption` says which fields a slot has. In Retrieval, `ObjectsAssumption` says
  it of objects, and that an object is given by its UID: the API server gives each
  object one of its own, and what else may change in an object is not modelled.
* `HashAssumption`: each handler has a set of hashes.

TLC, too, has found the named parts of the inductive invariants to hold, on the bounds of
the component's run.

**The namespace cache.** `NamespaceScopedCacheProofs`:

* `TypeCorrect`: `Spec => []TypeOK`. Beyond the types it says that no ScopeInformer is
  at two slots, which the other proofs need.
* `Invariance`: `Spec => []IInv`. `NoOrphanWatch` is not inductive: it says nothing of a
  ScopeInformer without a goroutine, which Start or Run could give one. `IInv` adds that
  every ScopeInformer ever created is in the cache or cancelled
  (`CreatedAreAccountedFor`), and that an informer is stopped by one of its own wrappers
  (`StoppedByItsWrapper`).
* `InformersAreHeld` and `NoWatchLeaks`: `EveryInformerIsHeld` and `NoOrphanWatch`
  follow, for shared informers as well as exclusive ones.

`NamespaceScopedCacheWatchProofs`:

* `MapsAreNeverEmpty`: `NoEmptyMaps`, which is inductive given the types.
* `InformersWatch`: `CachedInformersWatch` is not inductive. That a started cache runs what it
  holds is the lemma `InformersAreRun`, from `IInv` and the lemma `Permanent` (a context
  stays cancelled, a wrapper and a stop channel keep their informer, nothing becomes idle
  again). The rest takes that an informer that is not shared has one wrapper (`Exclusive`),
  so that the context it runs with can only be its own, and that any informer stops only
  when the context it runs with is cancelled (`StoppedIsCancelled`).
* `HandlersGuard`: `HandlerGuardsItsSlot`. client-go refuses a handler for an informer
  that runs; one that runs has a wrapper, hence is not handed out again unless it is
  shared.

`NamespaceScopedCacheLeaseProofs`: `ImplementsLease`, `Spec => LeaseSpec`. The
refinement mapping asks `HasInformer`, which `NoEmptyMaps` reduces to the last level of
the map; one lemma per operation says which lease action it is. That the dependents of
an `Acquire` on an empty slot are just the one who asks needs one more invariant, that a
new ScopeInformer has none (`NewHaveNone`).

**The cluster cache.** `ClusterScopedCacheProofs`: `TypeCorrect`, `MapIsNeverEmpty`,
`NoWatchLeaks`, `InformersWatch` and `ImplementsLease`. Since it has no Terminate and no
handlers, its inductive invariant is an equivalence, `CancelledOnLeaving`: what has been
created is cancelled if and only if it is not in the cache.

The proofs go through lemmas that say what the map operations do (`AddInformerEffect`,
`RemovalEffect`, `RemoveInformerEffect`, `TerminateEffect`); almost no later step looks
into the operations again.

**The ScopedCache.** `ScopedCacheProofs` proves `TypeCorrect` and `NoWatchLeaks`. What
was proved of each cache is not proved again: the proof modules of the caches are
instantiated over their halves of the state (`NSP`, `CLP`), and the lemmas `...IsItsOwn`
say that the operations composed here are the ones they are about. For the cluster
cache, `watchErrorHandler` is constantly Nil there, since that cache neither reads nor
sets one. `CacheStep` is whatever can happen to the caches, request or not, and
`CachesOK` what it preserves: each cache is in order, and no ScopeInformer is in both. A
step of one cache keeps the other in order because the other can tell nothing but that
some ScopeInformers have been created (`NsStandsBy`, `ClStandsBy`). `Invariance` adds
that a request is of the kind its step takes (`RequestOK`) and that its loop and its
history are about informers that are there (`VisitsOK`). `NoOrphanWatch` follows from
`CancelledOnLeaving` and `StoppedByItsWrapper` over both caches; these, with `Exclusive`
and `OccupantsAreRun` (together `WatchInv`), also give the lemma `OccupantsWatch`, that
what is in a started cache watches, which the handlers need.

**Requests.** `ScopedCacheRequestProofs`: `NotFoundIsTrueAlways`,
`RefusedGetEvictsAlways` and `SyncedMeansSyncedAlways`. The lemma `Later` says what
everyone else can do to a request between two of its steps: the steady slots become
fewer, and those that remain have the informer they had. Each theorem then rests on an
invariant that says what the request has found so far:

* `ClusterSeen`, `RoutedOK`: whoever goes to the namespace cache has seen that no steady
  slot of the GVK is in the cluster cache, and whoever goes to the cluster cache has
  seen its GVK there.
* `EvictingOK`: what the loop of a Get has yet to visit is all that is left of what was
  there when the request began. It is false for a List, which is why that evicts
  nothing.
* `HalfSynced`: what had synced when the cluster cache was asked still has when the
  namespace cache is (`SyncedStays`; an informer never loses it).

**Handlers and indexers.** `HandlersAndIndexersProofs`. Every step of `HSpec` is a
`CacheStep` (`HNextIsCacheStep`), so the invariants of the caches hold here at once
(`CachesInvariance`). `HandlersTypeCorrect` is by `CallsOK` and `IndexOK`.

* `HandlersHearAlways`: a key in the map of a ScopeInformer stands for a handler that is
  registered, is about to be, or came when the informer had stopped (`KeysHear`), and
  every call past `Record` has left its key there (`KeysRecorded`). That an informer in
  the cache has not stopped is `WatchInv`.
* `RegisteredOnceAlways`: two calls that both add under one key have overlapped, and
  `raced` knows it (`OverlapIsSeen`). Without overlap the calls in `listeners` have
  different keys, all of them recorded: an injection into the finite set of keys
  (`KeysAreFinite`, `FS_Injection`). This proof is why `listeners` holds calls and not a
  count: the sum of a function is induction over data.
* `IndexedMeansIndexedAlways`: while IndexField goes through the map, each steady
  informer it is about is still to be visited or has the indexer (`IndexingOK`).

**Retrieval.** `RetrievalProofs`: `TypeCorrect`, `ListIsRegularAlways`,
`GetIsRegularAlways`. A store has one object per key and finitely many (`StoresOK`,
which makes the types inductive, since a Get expects at most one match). `HistoryOK`
ties `always` and `ever` to what the stores hold now; `FoundOK` says that what was there
all along has been collected or is at an informer yet to be asked.
`DeduplicateListIsIdentity`: DeduplicateList returns the list it is given, whatever the
list, with all its duplicates. The library's induction theorems
take an operator as a parameter and cannot be used here; the proof is by a least
counterexample instead, which is why the model states `DeduplicateList` as a recursive
function and not as a fold.

Only model-checked: the liveness properties `CacheSyncs`, `TerminatedWatchesStop`,
`WaitReturns` and `RefusedInformersLeave`, since liveness under fairness (and ENABLED)
is out of the prover's reach, and that the findings are violations.

## What is not modelled, and the plan

Not modelled for good: logging and PrintCache; `DefaultOpts`, `IsAPINamespaced`, and
what `ScopedCacheBuilder` makes of a rest.Config (that it begins with two empty caches is `Init`); the error type, which becomes a
guard of a request; label selectors; `main.go`.

Not modelled either: what becomes of a cache that is terminated and started again.
`TerminateCache` and `Start` may follow each other in the model, but no property is
about it: the informers stay in the map, cancelled, and the code's own TODO says as
much.

Planned: the refinement of InformerLease by the ScopedCache, over the slots of both
caches at once, to be checked and then proved from the refinements of the two; and what
the handlers of `ns_cache` say of the ScopedCache, that the informers of its namespace
cache have the handler of their own slot, which the lemmas of `HandlersGuard` should
carry over to.

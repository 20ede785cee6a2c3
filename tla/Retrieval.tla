----------------------------- MODULE Retrieval -----------------------------
(***************************************************************************)
(* Get and List of the NamespaceScopedCache and of the ClusterScopedCache. *)
(*                                                                         *)
(* A request holds the mutex of its cache, so the cache's informers stay   *)
(* the same while it asks one after the other.  What they hold does not:   *)
(* watch events reach the store of each informer on its own goroutine, and *)
(* the informers of one GVK learn of a change at different times.  So a    *)
(* request is as many steps as it asks informers, with events in between.  *)
(* Requests of the two caches do not affect each other, and one at a time  *)
(* is modelled.                                                            *)
(*                                                                         *)
(* Label selectors, and the informers' own selection by label, are left    *)
(* out: an informer holds any of the objects of its namespace and GVK.     *)
(***************************************************************************)
EXTENDS SequencesExt

CONSTANTS
    Slots,          \* where informers can be; in the cluster cache if their
                    \* Namespace is AllNamespaces
    Objects,        \* the objects that ever exist, one for each UID
    AllNamespaces,  \* "", also the namespace of a cluster-scoped object
    Names,          \* names of objects
    None

ASSUME SlotsAssumption ==
    \A s \in Slots : DOMAIN s = {"Namespace", "Gvk", "Key"}
ASSUME ObjectsAssumption ==
    /\ \A o \in Objects : DOMAIN o = {"Namespace", "Gvk", "Name", "Uid"}
    /\ \A o, p \in Objects : o.Uid = p.Uid => o = p
    /\ None \notin Objects

VARIABLES
    informers,  \* the slots that have an informer
    store,      \* what the informers' indexers hold
    call,       \* the request that is being served, None if there is none
    left,       \* the informers it has yet to ask
    objs,       \* what it has collected: retList, or obj once it is found
    \* What the request could have answered, for the properties.
    always,     \* the objects asked for that an informer had all along, as
                \* <<informer, namespace, name>>
    ever        \* the objects asked for that some informer had at some time

requestVars == <<call, left, objs>>
vars == <<informers, store, requestVars, always, ever>>

Caches == {"namespace", "cluster"}
CacheOf(s) == IF s.Namespace = AllNamespaces THEN "cluster" ELSE "namespace"
Gvks == {s.Gvk : s \in Slots}
Namespaces == {o.Namespace : o \in Objects} \cup {AllNamespaces}

Gets  == [op : {"Get"}, cache : Caches, Namespace : Namespaces, Gvk : Gvks,
          Name : Names]
Lists == [op : {"List"}, cache : Caches, Namespace : Namespaces, Gvk : Gvks]

ASSUME RequestsAssumption == None \notin Gets \cup Lists

\* cache.MetaNamespaceKeyFunc, under which an indexer stores an object.
StoreKey(o) == IF o.Namespace = AllNamespaces THEN <<o.Name>>
                                              ELSE <<o.Namespace, o.Name>>

\* types.NamespacedName.String(), by which a Get looks it up.
LookupKey(c) == <<c.Namespace, c.Name>>

InScope(s, o) == o.Gvk = s.Gvk /\ s.Namespace \in {AllNamespaces, o.Namespace}

-----------------------------------------------------------------------------
(* The requests.                                                           *)

\* Lister().Get: the object with that key, if any.
SiGet(s, c) == {o \in store[s] : StoreKey(o) = LookupKey(c)}

MutantSiListUnfiltered(s, ns) == store[s]

\* Lister().List, or Lister().ByNamespace(ns).List if there is a namespace.
SiList(s, ns) == {o \in store[s] : ns \in {AllNamespaces, o.Namespace}}

\* What informer s has for request c.
Matches(s, c) == IF c.op = "Get" THEN SiGet(s, c) ELSE SiList(s, c.Namespace)

\* The informers the request asks.
Asked(c) ==
    {s \in informers :
        /\ CacheOf(s) = c.cache
        /\ s.Gvk = c.Gvk
        /\ c.cache = "namespace"
              => \/ s.Namespace = c.Namespace
                 \/ c.op = "List" /\ c.Namespace = AllNamespaces}

\* Whether the request ends with an InformerNotFoundErr: no informer is asked,
\* unless it is a List from all namespaces.
InformerNotFound(c) ==
    /\ Asked(c) = {}
    /\ c.cache = "cluster" \/ c.op = "Get" \/ c.Namespace # AllNamespaces

\* DeduplicateList goes through the list and drops an object whose UID is in
\* uidMap; nothing ever is.
DeduplicateList(list) ==
    LET uidMap == {}
        objList[n \in 0..Len(list)] ==
            IF n = 0 THEN <<>>
            ELSE IF list[n].Uid \notin uidMap
                 THEN Append(objList[n - 1], list[n]) ELSE objList[n - 1]
    IN  objList[Len(list)]

\* What request c asks for, of the objects os of an informer, whatever the
\* lister makes of keys.
Wanted(c, os) ==
    {o \in os :
        /\ \/ o.Namespace = c.Namespace
           \/ c.op = "List" /\ c.Namespace = AllNamespaces
        /\ c.op = "Get" => o.Name = c.Name}

\* What request c could see in the stores st: who has what, and which objects.
HadBy(c, st) ==
    UNION {{<<s, o.Namespace, o.Name>> : o \in Wanted(c, st[s])} : s \in Asked(c)}
Seen(c, st) == UNION {Wanted(c, st[s]) : s \in Asked(c)}

Begin(c) ==
    /\ call = None
    /\ ~InformerNotFound(c)
    /\ call' = c
    /\ left' = Asked(c)
    /\ objs' = <<>>
    /\ always' = HadBy(c, store)
    /\ ever' = Seen(c, store)
    /\ UNCHANGED <<informers, store>>

MutantAskLastOnly(s) ==
    /\ call # None
    /\ s \in left
    /\ left' = left \ {s}
    /\ objs' = SetToSeq(Matches(s, call))
    /\ UNCHANGED <<informers, store, call, always, ever>>

MutantGiveUpAtFirstMiss(s) ==
    /\ call # None
    /\ s \in left
    /\ left' = IF call.op = "Get" THEN {} ELSE left \ {s}
    /\ objs' = objs \o SetToSeq(Matches(s, call))
    /\ UNCHANGED <<informers, store, call, always, ever>>

\* One round of the loop over the informers.  A Get stops at the first hit.
AskInformer(s) ==
    /\ call # None
    /\ s \in left
    /\ left' = IF call.op = "Get" /\ Matches(s, call) # {} THEN {} ELSE left \ {s}
    /\ objs' = objs \o SetToSeq(Matches(s, call))
    /\ UNCHANGED <<informers, store, call, always, ever>>

\* The request has asked all it will and is about to return.
Done == call # None /\ left = {}

Answer == IF call.op = "List" THEN DeduplicateList(objs) ELSE objs

Return ==
    /\ Done
    /\ call' = None
    /\ objs' = <<>>
    /\ always' = {} /\ ever' = {}
    /\ UNCHANGED <<informers, store, left>>

-----------------------------------------------------------------------------
(* What happens meanwhile.  Why an informer comes or goes is the matter of *)
(* the modules of the caches; here it may whenever the mutex is free.      *)

\* Somebody else holds the mutex of that cache.
Locked(cache) == call # None /\ call.cache = cache

MutantRemoveUnlocked(s) ==
    /\ s \in informers
    /\ informers' = informers \ {s}
    /\ store' = [store EXCEPT ![s] = {}]
    /\ UNCHANGED <<requestVars, always, ever>>

AddInformer(s) ==
    /\ ~Locked(CacheOf(s))
    /\ s \notin informers
    /\ informers' = informers \cup {s}
    /\ UNCHANGED <<store, requestVars, always, ever>>

RemoveInformer(s) ==
    /\ ~Locked(CacheOf(s))
    /\ s \in informers
    /\ informers' = informers \ {s}
    /\ store' = [store EXCEPT ![s] = {}]
    /\ UNCHANGED <<requestVars, always, ever>>

\* What the request in progress could answer, after a change of the stores.
Observe ==
    IF call = None THEN UNCHANGED <<always, ever>>
    ELSE /\ always' = always \cap HadBy(call, store')
         /\ ever' = ever \cup Seen(call, store')

\* A watch event of informer s: o has been added or modified, and replaces the
\* object of that key; or o has been deleted.
Deliver(s, o) ==
    /\ s \in informers
    /\ InScope(s, o)
    /\ \E new \in {{}, {o}} :
          store' = [store EXCEPT ![s] =
                       {p \in @ : StoreKey(p) # StoreKey(o)} \cup new]
    /\ Observe
    /\ UNCHANGED <<informers, requestVars>>

Init ==
    /\ informers = {}
    /\ store = [s \in Slots |-> {}]
    /\ call = None
    /\ left = {}
    /\ objs = <<>>
    /\ always = {} /\ ever = {}

Next ==
    \/ \E c \in Gets \cup Lists : Begin(c)
    \/ \E s \in Slots : AskInformer(s)
    \/ Return
    \/ \E s \in Slots : AddInformer(s) \/ RemoveInformer(s)
    \/ \E s \in Slots, o \in Objects : Deliver(s, o)

Spec == Init /\ [][Next]_vars

-----------------------------------------------------------------------------

\* The types; and while a request goes through the informers of a cache, the
\* cache has them all: nobody changes the map that is being iterated over.
RetrievalTypeOK ==
    /\ informers \subseteq Slots
    /\ store \in [Slots -> SUBSET Objects]
    /\ \A s \in Slots : \A o \in store[s] : s \in informers /\ InScope(s, o)
    /\ call \in Gets \cup Lists \cup {None}
    /\ left \subseteq IF call = None THEN {} ELSE Asked(call)
    /\ ToSet(objs) \subseteq Objects

\* A List returns every object that one informer had all along, even if it was
\* modified or replaced meanwhile, and only objects of the namespace and kind
\* asked for that some informer had while it ran.
ListIsRegular ==
    Done /\ call.op = "List" =>
        /\ \A h \in always : \E o \in ToSet(Answer) :
              o.Namespace = h[2] /\ o.Name = h[3]
        /\ ToSet(Answer) \subseteq {o \in ever : o.Gvk = call.Gvk}

\* A Get returns a single object, which some informer had while it ran, and
\* misses none that one informer had all along, in whatever order it asks them.
GetsWhatIsThere ==
    Done /\ call.op = "Get" =>
        /\ always # {} => Answer # <<>>
        /\ ToSet(Answer) \subseteq {o \in ever : o.Gvk = call.Gvk}
        /\ Len(Answer) <= 1

\* This holds for objects that have a namespace.
GetIsRegular == call # None /\ call.Namespace # AllNamespaces => GetsWhatIsThere
=============================================================================

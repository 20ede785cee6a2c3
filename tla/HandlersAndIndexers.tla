------------------------ MODULE HandlersAndIndexers ------------------------
(***************************************************************************)
(* What callers attach to the informers of a ScopedCache: event handlers,  *)
(* with AddEventHandler and AddEventHandlerWithResyncPeriod of the         *)
(* ScopeInformer, and indexers, with IndexField of the ScopedCache.        *)
(*                                                                         *)
(* None of these takes a lock.  AddEventHandler reads the ScopeInformer's  *)
(* eventListeners, writes it, and registers the handler with client-go, in *)
(* three steps; IndexField ranges over a map of one of the caches.  While  *)
(* they do, other callers do the same, and informers are added, started,   *)
(* run and removed.  A refused watch does no more to an informer than a    *)
(* forced removal, so permissions play no part here.                       *)
(*                                                                         *)
(* client-go is modelled from what the repository relies on: an informer   *)
(* takes any handler any number of times, and drops it silently once it    *)
(* has stopped; it refuses indexers once it has been started ("Should      *)
(* return an error if the informer is already started",                    *)
(* scope_informer_test.go), and ones it has already.                       *)
(***************************************************************************)
EXTENDS ScopedCache, Integers, FiniteSets

CONSTANTS
    Handlers,   \* ResourceEventHandlers
    Hashes,     \* what HashObject returns
    HashObject, \* the hashes that a handler may get
    Callers     \* goroutines that add an event handler, once each

\* HashObject hashes the deep print of a handler.  A handler has several hashes
\* if it refers to something that changes; two handlers share one if they print
\* alike: functions print as the address of their code, so two closures of one
\* function literal do.
ASSUME HashAssumption == HashObject \in [Handlers -> SUBSET Hashes]

\* The keys of eventListeners that a handler may get: the name of the method,
\* and a hash.
Methods == {"AddEventHandler", "AddEventHandlerWithResyncPeriod"}
Keys == Methods \X Hashes
KeysOf(h) == Methods \X HashObject[h]

VARIABLES
    eventListeners, \* the keys in the eventListeners of each ScopeInformer;
                    \* what is stored under them is never read
    listeners,      \* the calls that have registered a handler with an informer,
                    \* which keeps what one of them gave it apart from the others
    indexed,        \* the informers with an indexer for the field
    call,           \* how far each caller of AddEventHandler is
    raced           \* history: the <<x, key>> that a caller has found absent
                    \* while another was about to write it

handlerVars == <<eventListeners, listeners, call, raced>>
allVars == <<vars, handlerVars, indexed>>

NoCall == [at |-> "start"]

HInit ==
    /\ Init
    /\ forbidden = {}
    /\ eventListeners = [x \in SI |-> {}]
    /\ listeners = [i \in Inf |-> {}]
    /\ indexed = {}
    /\ call = [c \in Callers |-> NoCall]
    /\ raced = {}

-----------------------------------------------------------------------------
(* AddEventHandler.                                                        *)

\* Caller c is at this step of adding handler h to x under key k.
At(c, step, x, k) == call[c].at = step /\ call[c].si = x /\ call[c].key = k

MutantCheckAllInformers(c, x, h, k) ==
    /\ call[c] = NoCall
    /\ informer[x] # Nil
    /\ call' = [call EXCEPT ![c] =
          [at |-> IF \E y \in SI : k \in eventListeners[y] THEN "returned" ELSE "record",
           si |-> x, handler |-> h, key |-> k]]
    /\ UNCHANGED <<raced, eventListeners, listeners>>

MutantCheckNothing(c, x, h, k) ==
    /\ call[c] = NoCall
    /\ informer[x] # Nil
    /\ call' = [call EXCEPT ![c] =
                   [at |-> "record", si |-> x, handler |-> h, key |-> k]]
    /\ UNCHANGED <<raced, eventListeners, listeners>>

\* Whether there is a listener under the key already.  x is an informer that
\* the caller got from the cache at some time; it may have left since.
Check(c, x, h, k) ==
    /\ call[c] = NoCall
    /\ informer[x] # Nil
    /\ call' = [call EXCEPT ![c] =
          [at |-> IF k \in eventListeners[x] THEN "returned" ELSE "record",
           si |-> x, handler |-> h, key |-> k]]
    /\ raced' = IF \E o \in Callers : At(o, "record", x, k) THEN raced \cup {<<x, k>>}
                                                            ELSE raced
    /\ UNCHANGED <<eventListeners, listeners>>

\* If not, the handler is put there.
Record(c) ==
    /\ call[c].at = "record"
    /\ eventListeners' = [eventListeners EXCEPT ![call[c].si] = @ \cup {call[c].key}]
    /\ call' = [call EXCEPT ![c].at = "register"]
    /\ UNCHANGED <<listeners, raced>>

\* And it is registered with client-go.
Register(c) ==
    LET i == informer[call[c].si] IN
    /\ call[c].at = "register"
    /\ listeners' = IF phase[i] = "stopped" THEN listeners
                    ELSE [listeners EXCEPT ![i] = @ \cup {c}]
    /\ call' = [call EXCEPT ![c].at = "returned"]
    /\ UNCHANGED <<eventListeners, raced>>

AddEventHandler(c) ==
    \/ \E x \in SI, h \in Handlers : \E k \in KeysOf(h) : Check(c, x, h, k)
    \/ Record(c)
    \/ Register(c)

-----------------------------------------------------------------------------
(* IndexField, the request that is followed.                               *)

IndexFields == [op : {"IndexField"},
                Namespace : {s.Namespace : s \in Slots}, Gvk : Gvks]

ASSUME IndexFieldsAssumption == Nil \notin IndexFields

\* The informers in Namespaces[Namespace][gvk], or in GvkInformers[gvk] if the
\* object has no namespace.
ToIndex == {s \in Occupied : s.Namespace = req.Namespace /\ s.Gvk = req.Gvk}

\* The loop over them begins.
RangeOver ==
    /\ pc = "range"
    /\ pc' = "index"
    /\ toVisit' = ToIndex
    /\ UNCHANGED <<req, permitted, answer, cacheVars, indexed>>

MutantSkipRefused(s) ==
    LET i == informer[InformerAt(s)] IN
    /\ pc = "index"
    /\ s \in ToIndex
    /\ s \in toVisit \/ i \notin indexed
    /\ indexed' = IF phase[i] = "idle" THEN indexed \cup {i} ELSE indexed
    /\ toVisit' = toVisit \ {s}
    /\ UNCHANGED <<req, pc, permitted, answer, cacheVars>>

\* A round of the loop: AddIndexers of one informer.  The first error is the
\* end of it, and what has been done is not undone.  As for Evict, the loop may
\* come to an informer added since it began, though to none for a second time.
AddIndexers(s) ==
    LET i == informer[InformerAt(s)] IN
    /\ pc = "index"
    /\ s \in ToIndex
    /\ s \in toVisit \/ i \notin indexed
    /\ \/ /\ phase[i] = "idle" /\ i \notin indexed
          /\ indexed' = indexed \cup {i}
          /\ toVisit' = toVisit \ {s}
          /\ UNCHANGED <<req, pc, permitted, answer, cacheVars>>
       \/ /\ phase[i] # "idle" \/ i \in indexed
          /\ pc' = "done"
          /\ answer' = "Error"
          /\ toVisit' = {}
          /\ UNCHANGED <<req, permitted, cacheVars, indexed>>

MutantIndexSome == pc = "index" /\ Finish("Indexed") /\ UNCHANGED indexed

AllIndexed == pc = "index" /\ toVisit = {} /\ Finish("Indexed") /\ UNCHANGED indexed

IndexField ==
    \/ RangeOver \/ AllIndexed
    \/ \E s \in Slots : AddIndexers(s)

-----------------------------------------------------------------------------

\* What else happens to the informers.
InformersChange ==
    \/ \E s \in Slots, d \in UID, i \in Inf : AddInformer(s, d, i)
    \/ \E s \in Slots, d \in UID : RemoveInformer(s, d, FALSE)
    \/ StartCluster
    \/ StartNamespaces
    \/ \E x \in SI : Run(x) /\ UNCHANGED <<nsVars, clVars>>
    \/ \E i \in Inf : Stop(i) /\ UNCHANGED <<nsVars, clVars>>

HNext ==
    \/ \E c \in Callers : AddEventHandler(c) /\ UNCHANGED <<vars, indexed>>
    \/ \E r \in IndexFields : Begin(r, "range") /\ UNCHANGED <<handlerVars, indexed>>
    \/ IndexField /\ Observe /\ UNCHANGED handlerVars
    \/ Return /\ UNCHANGED <<handlerVars, indexed>>
    \/ InformersChange /\ Alongside /\ UNCHANGED <<handlerVars, indexed>>

HSpec == HInit /\ [][HNext]_allVars

-----------------------------------------------------------------------------

\* Every variable has its type; handlers and indexers are attached only to what
\* a ScopeInformer wraps, handlers to what the caller's does; and only
\* IndexField leaves informers unvisited.
HandlersTypeOK ==
    /\ InformerTypeOK
    /\ eventListeners \in [SI -> SUBSET Keys]
    /\ listeners \in [Inf -> SUBSET Callers]
    /\ \A i \in Inf : \A c \in listeners[i] :
          call[c].at = "returned" /\ informer[call[c].si] = i
    /\ indexed \subseteq {informer[x] : x \in SI} \ {Nil}
    /\ raced \subseteq SI \X Keys
    /\ toVisit # {} => pc = "index" /\ toVisit \subseteq ToIndex
    /\ \A c \in Callers : call[c] # NoCall =>
          /\ call[c].at \in {"record", "register", "returned"}
          /\ informer[call[c].si] # Nil
          /\ call[c].key \in KeysOf(call[c].handler)

\* Whether handler h is registered with i.
Registered(i, h) == \E c \in listeners[i] : call[c].handler = h

\* Whether key k can only mean handler h.
Unambiguous(k, h) == \A g \in Handlers : k \in KeysOf(g) => g = h

\* Once AddEventHandler has returned, and as long as the informer is neither
\* removed nor shared, the handler hears of events, or will: it is registered,
\* or about to be by a caller who added it at the same time, and the informer
\* watches, or is about to, if its cache is started.  Requires that no other
\* handler has the same key.
HandlersHear ==
    \A c \in Callers, s \in Occupied :
        LET x == call[c].si  h == call[c].handler  i == informer[x] IN
        /\ call[c].at = "returned"
        /\ x = InformerAt(s)
        /\ i \notin Shared
        /\ Unambiguous(call[c].key, h)
        => /\ Registered(i, h) \/ \E o \in Callers : At(o, "register", x, call[c].key)
           /\ (IF s \in NsSlots THEN nsStarted ELSE clStarted) => x \in goRun \/ Live(i)

\* "Only add the event listener if it hasn't already been added to this
\* informer", AddEventHandler says: so one that has not been added is.
EveryHandlerIsAdded ==
    \A c \in Callers :
        LET x == call[c].si  i == informer[x] IN
        call[c].at = "returned" /\ ~cancelled[x] /\ i \notin Shared =>
            \/ Registered(i, call[c].handler)
            \/ \E o \in Callers : /\ At(o, "register", x, call[c].key)
                                  /\ call[o].handler = call[c].handler

\* "eventListeners is to keep track of all ResourceEventHandlers to prevent the
\* same one from being added multiple times": an informer calls no more
\* handlers than there are keys recorded, unless two calls overlapped.
RegisteredOncePerKey ==
    \A x \in SI :
        informer[x] \in Inf \ Shared /\ (\A k \in Keys : <<x, k>> \notin raced)
            => Cardinality(listeners[informer[x]]) <= Cardinality(eventListeners[x])

\* "eventListeners is to keep track of all ResourceEventHandlers to prevent the
\* same one from being added multiple times" (the comment on that field): no
\* two calls register a handler with a ScopeInformer under one key.
HandlerIsAddedOnce ==
    \A i \in Inf : \A c, d \in listeners[i] :
        call[c].si = call[d].si /\ call[c].key = call[d].key => c = d

\* "Add the indexer to all informers in the namespace cache for the
\* Namespace-GVK pair": if IndexField returns no error, each of those has it
\* that has been in the cache since it was called, whatever came or went.
IndexedMeansIndexed ==
    pc = "done" /\ answer = "Indexed" =>
        \A s \in steady :
            s.Namespace = req.Namespace /\ s.Gvk = req.Gvk
                => informer[InformerAt(s)] \in indexed
=============================================================================

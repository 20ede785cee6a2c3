----------------------- MODULE ScopedCacheRequestProofs -----------------------
(***************************************************************************)
(* What the answers of a ScopedCache mean, for any requests, slots and     *)
(* informers: NotFoundIsTrue, RefusedGetEvicts and SyncedMeansSynced.      *)
(*                                                                         *)
(* A request looks at the caches several times without a lock, and what it *)
(* has seen may be false when it answers.  What remains true is about the  *)
(* informers that stay: steady only ever loses slots, and none of the      *)
(* steps of others can take back what was found of a slot that remains.    *)
(* Each invariant says what has been found when the request is between two *)
(* of its looks.                                                           *)
(***************************************************************************)
EXTENDS ScopedCacheProofs

\* The request has begun properly, in caches that are in order.
InOrder == CachesOK /\ RequestOK /\ VisitsOK

-----------------------------------------------------------------------------
(* What others may do to a request, and what every step does to its history. *)

\* As long as the request is the same, the slots that remain steady have what
\* they had, and what was seen once has been seen.
LEMMA Later ==
    ASSUME InOrder, [Next]_vars, req' = req, pc # "idle"
    PROVE  /\ steady' \subseteq steady
           /\ \A s \in steady' : InformerAt(s)' = InformerAt(s)
           /\ clusterEver => clusterEver'
<1>1. req # Nil
  BY DEF InOrder, RequestOK
<1>2. CASE Observe
  BY <1>2 DEF Observe
<1>3. CASE UNCHANGED vars
  BY <1>3, SameSlotsIfUnchanged DEF vars, cacheVars, nsVars, clVars, SameSlots,
                                    InOrder, VisitsOK, Occupied
<1>4. ~Return /\ \A r, first : ~Begin(r, first)
  BY <1>1 DEF Return, Begin
<1> QED
  BY <1>2, <1>3, <1>4 DEF Next, Alongside

\* Others leave a request where it is.  It moves on by a step of its own only,
\* while the caches stand still, unless the step is Evict or Create.
LEMMA Moves ==
    ASSUME [Next]_vars
    PROVE  \/ UNCHANGED <<req, pc, permitted, answer>> /\ toVisit' = StillThere
           \/ UNCHANGED vars
           \/ Step /\ Observe
           \/ pc' \in {"review", "lookup", "waitCluster", "idle"}
BY DEF Next, Alongside, Begin, Return, Evict

\* Whether a GVK that the request names is in the cluster cache never escapes
\* the history.
ClusterSeen == HasGvk(req, clGvks) => clusterEver

LEMMA NextClusterSeen == ClusterSeen /\ [Next]_vars => ClusterSeen'
<1> SUFFICES ASSUME ClusterSeen, [Next]_vars PROVE ClusterSeen'
  OBVIOUS
<1>1. CASE Observe
  BY <1>1 DEF Observe, ClusterSeen, HasGvk, Reads, Gvks
<1>2. ASSUME NEW r, NEW first, Begin(r, first) PROVE ClusterSeen'
  BY <1>2 DEF Begin, ClusterSeen, HasGvk, Reads, Gvks, cacheVars, clVars
<1>3. CASE Return
  BY <1>3, RequestsAssumption DEF Return, ClusterSeen, HasGvk
<1>4. CASE UNCHANGED vars
  BY <1>4 DEF vars, cacheVars, clVars, reqVars, ClusterSeen, HasGvk, Reads, Gvks
<1> QED
  BY <1>1, <1>2, <1>3, <1>4 DEF Next, Alongside

\* A steady informer is a key of the map of its cache.
LEMMA SteadyAreKeys ==
    ASSUME InOrder, NEW s \in steady
    PROVE  /\ s \in ClSlots => s.Gvk \in clGvks
           /\ s \in NsSlots => <<s.Namespace, s.Gvk>> \in nsGvks /\ nsInfAt[s] # Nil
           /\ s \in Slots /\ InformerAt(s) # Nil
BY SlotsArePartitioned
   DEF InOrder, VisitsOK, Occupied, InformerAt, CachesOK, CLP!NoEmptyMaps,
       NSP!NoEmptyMaps, NSP!NsGvk

-----------------------------------------------------------------------------
(* InformerNotFoundErr.                                                    *)

\* What the request knows when it goes to either cache.
RoutedOK ==
    /\ pc = "readCluster" => clusterEver
    /\ pc = "readNamespace" =>
          \A s \in steady : s.Gvk = req.Gvk => s \notin ClSlots

LEMMA NextRouted == InOrder /\ ClusterSeen /\ RoutedOK /\ [Next]_vars => RoutedOK'
<1> SUFFICES ASSUME InOrder, ClusterSeen, RoutedOK, [Next]_vars PROVE RoutedOK'
  OBVIOUS
<1>1. ASSUME pc' = pc, req' = req, pc # "idle" PROVE RoutedOK'
  BY <1>1, Later DEF RoutedOK
<1>2. pc' \notin {"readCluster", "readNamespace"} => RoutedOK'
  BY DEF RoutedOK
<1>3. CASE Route /\ Observe
  <2>1. req' = req /\ req \in Reads /\ pc # "idle" /\ pc = "route"
    BY <1>3 DEF Route, RouteTo, Go, Goto, Finish, InOrder, RequestOK
  <2>2. \/ pc' = "readCluster" /\ req.Gvk \in clGvks
        \/ pc' = "readNamespace" /\ req.Gvk \notin clGvks
        \/ pc' \notin {"readCluster", "readNamespace"}
    BY <1>3 DEF Route, RouteTo, Go, Goto, Finish
  <2>3. req.Gvk \in clGvks => clusterEver'
    BY <2>1, Later DEF ClusterSeen, HasGvk
  <2>4. req.Gvk \notin clGvks => \A s \in steady' : s.Gvk = req.Gvk => s \notin ClSlots
    BY <2>1, Later, SteadyAreKeys
  <2> QED
    BY <2>1, <2>2, <2>3, <2>4 DEF RoutedOK
<1>4. CASE Step /\ Observe
  <2>1. CASE Route
    BY <1>3, <1>4, <2>1
  <2>2. CASE \E s \in NsSlots : Evict(s)
    BY <1>2, <2>2 DEF Evict
  <2>3. CASE Review \/ Look \/ Evicted \/ ReadNamespace \/ ReadCluster \/ Lookup
             \/ Create \/ Reread \/ WaitCluster \/ WaitNamespaces
    BY <1>2, <2>3 DEF Review, Look, Evicted, ReadNamespace, ReadCluster, Lookup,
                      Create, Reread, WaitCluster, WaitNamespaces, Go, Goto, Finish
  <2> QED
    BY <1>4, <2>1, <2>2, <2>3 DEF Step
<1>5. CASE UNCHANGED vars
  BY <1>5 DEF vars, reqVars, RoutedOK
<1> QED
  BY <1>1, <1>2, <1>4, <1>5, Moves DEF InOrder, RequestOK

LEMMA NextNotFound ==
    InOrder /\ RoutedOK /\ NotFoundIsTrue /\ [Next]_vars => NotFoundIsTrue'
<1> SUFFICES ASSUME InOrder, RoutedOK, NotFoundIsTrue, [Next]_vars,
                    pc' = "done", answer' = "InformerNotFound",
                    NEW s \in steady', s.Gvk = req'.Gvk
             PROVE  s \notin ClSlots /\ (s.Namespace = req'.Namespace => clusterEver')
  BY DEF NotFoundIsTrue
<1>1. ASSUME UNCHANGED <<req, pc, answer>>
      PROVE  s \notin ClSlots /\ (s.Namespace = req'.Namespace => clusterEver')
  BY <1>1, Later DEF NotFoundIsTrue
<1>2. CASE Step /\ Observe
  <2>1. ReadNamespace \/ ReadCluster
    <3>1. ASSUME NEW x \in SI \cup {Nil} PROVE ~Finish(x)
      BY <3>1, ResultsAssumption DEF Finish, Results
    <3>2. req \in Lookups => InformerAt(req.slot) \in SI \cup {Nil}
      BY CachesTypes DEF InOrder, CachesOK, Lookups
    <3>3. ~Lookup /\ ~Reread /\ ~Create
      BY <3>1, <3>2 DEF Lookup, Create, Reread, Go, Goto, Finish, InOrder, RequestOK
    <3>4. \A t \in NsSlots : ~Evict(t)
      BY DEF Evict
    <3>5. ~Review /\ ~Route /\ ~Look /\ ~Evicted /\ ~WaitCluster /\ ~WaitNamespaces
      BY DEF Review, Route, RouteTo, Look, Evicted, WaitCluster, WaitNamespaces,
             Go, Goto, Finish
    <3> QED
      BY <1>2, <3>3, <3>4, <3>5 DEF Step
  <2>2. req' = req /\ pc # "idle" /\ s \in steady
    BY <2>1, Later DEF ReadNamespace, ReadCluster, Finish
  <2>3. CASE ReadCluster
    <3>1. req.Gvk \notin clGvks
      BY <2>3 DEF ReadCluster, Finish
    <3>2. s \notin ClSlots
      BY <2>2, <3>1, SteadyAreKeys
    <3>3. clusterEver'
      BY <2>2, <2>3, Later DEF ReadCluster, RoutedOK
    <3> QED
      BY <3>2, <3>3
  <2>4. CASE ReadNamespace
    <3>1. <<req.Namespace, req.Gvk>> \notin nsGvks
      BY <2>4 DEF ReadNamespace, Finish
    <3>2. s \notin ClSlots
      BY <2>2, <2>4 DEF ReadNamespace, RoutedOK
    <3> QED
      BY <2>2, <3>1, <3>2, SteadyAreKeys, SlotsArePartitioned
  <2> QED
    BY <2>1, <2>3, <2>4
<1>3. UNCHANGED vars => UNCHANGED <<req, pc, answer>>
  BY DEF vars, reqVars
<1> QED
  BY <1>1, <1>2, <1>3, Moves

\* A Get or List that says that there is no informer is right about every
\* informer that was there all along, but for the one case that it cannot see.
THEOREM NotFoundIsTrueAlways == Spec => []NotFoundIsTrue
<1>1. Init => ClusterSeen /\ RoutedOK /\ NotFoundIsTrue
  BY RequestsAssumption DEF Init, NoRequest, ClusterSeen, HasGvk, RoutedOK, NotFoundIsTrue
<1>2. InOrder /\ ClusterSeen /\ RoutedOK /\ NotFoundIsTrue /\ [Next]_vars
         => (ClusterSeen /\ RoutedOK /\ NotFoundIsTrue)'
  BY NextClusterSeen, NextRouted, NextNotFound
<1>3. Spec => []InOrder
  BY Invariance, PTL DEF InOrder
<1> QED
  BY <1>1, <1>2, <1>3, PTL DEF Spec

-----------------------------------------------------------------------------
(* Requests that are refused.                                              *)

\* What the loop of a Get has not come to yet is all that is left of what was
\* there when the request began.
EvictingOK ==
    pc = "evict" /\ req.op = "Get" /\ ~clusterEver =>
        \A s \in steady :
            s.Gvk = req.Gvk /\ s.Namespace = req.Namespace => s \in toVisit

LEMMA NextEvicting ==
    InOrder /\ ClusterSeen /\ EvictingOK /\ [Next]_vars => EvictingOK'
<1> SUFFICES ASSUME InOrder, ClusterSeen, EvictingOK, [Next]_vars,
                    pc' = "evict", req'.op = "Get", ~clusterEver',
                    NEW s \in steady', s.Gvk = req'.Gvk, s.Namespace = req'.Namespace
             PROVE  s \in toVisit'
  BY DEF EvictingOK
\* A slot that is steady after a step of the loop, or during one, was not
\* visited, as a visit empties it.
<1>1. ASSUME pc = "evict", req' = req, toVisit' = StillThere PROVE s \in toVisit'
  BY <1>1, Later DEF EvictingOK, StillThere
<1>2. CASE Step /\ Observe
  <2>1. CASE \E t \in NsSlots : Evict(t)
    BY <1>1, <2>1 DEF Evict
  <2>2. CASE Look
    <3>1. req' = req /\ req \in Reads /\ pc # "idle" /\ toVisit' = Evictable
      BY <2>2 DEF Look, InOrder, RequestOK
    <3>2. s \in steady /\ ~clusterEver
      BY <3>1, Later
    <3>3. s \notin ClSlots
      BY <3>1, <3>2, SteadyAreKeys DEF ClusterSeen, HasGvk
    <3>4. s \in NsSlots /\ nsInfAt[s] # Nil
      BY <3>2, <3>3, SteadyAreKeys, SlotsArePartitioned
    <3> QED
      BY <3>1, <3>4 DEF Evictable, EvictedGvk
  <2>3. CASE \/ Review \/ Route \/ Evicted \/ ReadNamespace \/ ReadCluster \/ Lookup
             \/ Create \/ Reread \/ WaitCluster \/ WaitNamespaces
    BY <2>3 DEF Review, Route, RouteTo, Evicted, ReadNamespace, ReadCluster, Lookup,
                Create, Reread, WaitCluster, WaitNamespaces, Go, Goto, Finish
  <2> QED
    BY <1>2, <2>1, <2>2, <2>3 DEF Step
<1>3. CASE UNCHANGED vars
  BY <1>3 DEF vars, reqVars, EvictingOK
<1> QED
  BY <1>1, <1>2, <1>3, Moves

LEMMA NextRefused ==
    /\ InOrder /\ ClusterSeen /\ EvictingOK /\ RefusedGetEvicts /\ [Next]_vars
    => RefusedGetEvicts'
<1> SUFFICES ASSUME InOrder, ClusterSeen, EvictingOK, RefusedGetEvicts, [Next]_vars,
                    pc' = "done", req' \in Reads, req'.op = "Get",
                    answer' = "Forbidden", ~clusterEver',
                    NEW s \in steady', s.Gvk = req'.Gvk, s.Namespace = req'.Namespace
             PROVE  FALSE
  BY DEF RefusedGetEvicts, RefusalEvicts
<1>1. ~UNCHANGED <<req, pc, answer>>
  BY Later DEF RefusedGetEvicts, RefusalEvicts
<1>2. CASE Step /\ Observe
  <2>1. req' = req /\ pc # "idle"
    BY <1>2 DEF Step, Review, Route, RouteTo, Look, Evicted, ReadNamespace,
       ReadCluster, Evict, Lookup, Create, Reread, WaitCluster, WaitNamespaces,
       Go, Goto, Finish
  <2>2. s \in steady /\ ~clusterEver
    BY <2>1, Later
  <2>3. CASE Evicted
    BY <2>1, <2>2, <2>3 DEF Evicted, EvictingOK
  <2>4. CASE Route
    BY <2>1, <2>2, <2>4 DEF Route, RouteTo, Go, Goto, Finish, ClusterSeen, HasGvk
  <2>5. CASE ReadNamespace \/ ReadCluster \/ Review \/ Look \/ WaitCluster \/ WaitNamespaces
    BY <2>5 DEF ReadNamespace, ReadCluster, Review, Look, WaitCluster,
                WaitNamespaces, Go, Goto, Finish
  <2>6. CASE Lookup \/ Create \/ Reread
    BY <2>1, <2>6 DEF Lookup, Create, Reread, InOrder, RequestOK, Lookups, Reads
  <2>7. \A t \in NsSlots : ~Evict(t)
    BY DEF Evict
  <2> QED
    BY <1>2, <2>3, <2>4, <2>5, <2>6, <2>7 DEF Step
<1>3. UNCHANGED vars => UNCHANGED <<req, pc, answer>>
  BY DEF vars, reqVars
<1> QED
  BY <1>1, <1>2, <1>3, Moves

\* A Get that is refused leaves no informer behind that was there when it
\* began, unless the cluster cache has served the GVK meanwhile.
THEOREM RefusedGetEvictsAlways == Spec => []RefusedGetEvicts
<1>1. Init => ClusterSeen /\ EvictingOK /\ RefusedGetEvicts
  BY RequestsAssumption
     DEF Init, NoRequest, ClusterSeen, HasGvk, EvictingOK, RefusedGetEvicts, RefusalEvicts
<1>2. InOrder /\ ClusterSeen /\ EvictingOK /\ RefusedGetEvicts /\ [Next]_vars
         => (ClusterSeen /\ EvictingOK /\ RefusedGetEvicts)'
  BY NextClusterSeen, NextEvicting, NextRefused
<1>3. Spec => []InOrder
  BY Invariance, PTL DEF InOrder
<1> QED
  BY <1>1, <1>2, <1>3, PTL DEF Spec

-----------------------------------------------------------------------------
(* WaitForCacheSync.                                                       *)

\* What was synced when one cache was asked is synced when the other one is.
HalfSynced ==
    pc = "waitNamespaces" =>
        \A s \in steady : s \in ClSlots => HasSynced(InformerAt(s))

LEMMA SyncedStays ==
    ASSUME InOrder, [Next]_vars, req' = req, pc # "idle",
           NEW s \in steady', HasSynced(InformerAt(s))
    PROVE  HasSynced(InformerAt(s))'
<1>1. CacheStep
  BY NextIsCacheStep DEF InOrder
<1>2. s \in steady /\ s \in Slots /\ InformerAt(s) # Nil /\ InformerAt(s)' = InformerAt(s)
  BY Later, SteadyAreKeys
<1>3. InformerAt(s) \in SI /\ informer[InformerAt(s)] \in Inf
  BY <1>2, CachesTypes DEF InOrder, CachesOK
<1>4. informer'[InformerAt(s)] = informer[InformerAt(s)]
  BY <1>1, <1>3, Permanent, NilAssumption DEF InOrder, CachesOK
<1>5. synced'[informer[InformerAt(s)]]
  BY <1>1, <1>3, Permanent DEF InOrder, CachesOK, HasSynced
<1> QED
  BY <1>2, <1>4, <1>5 DEF HasSynced

LEMMA NextSynced ==
    InOrder /\ HalfSynced /\ SyncedMeansSynced /\ [Next]_vars
        => HalfSynced' /\ SyncedMeansSynced'
<1> SUFFICES ASSUME InOrder, HalfSynced, SyncedMeansSynced, [Next]_vars
             PROVE  HalfSynced' /\ SyncedMeansSynced'
  OBVIOUS
<1>1. ASSUME UNCHANGED <<req, pc, answer>>, pc # "idle"
      PROVE  HalfSynced' /\ SyncedMeansSynced'
  <2>1. steady' \subseteq steady
    BY <1>1, Later
  <2> QED
    BY <1>1, <2>1, SyncedStays DEF HalfSynced, SyncedMeansSynced
<1>2. pc' \notin {"waitNamespaces", "done"} => HalfSynced' /\ SyncedMeansSynced'
  BY DEF HalfSynced, SyncedMeansSynced
<1>3. pc' = "done" /\ answer' # "Synced" => HalfSynced' /\ SyncedMeansSynced'
  BY DEF HalfSynced, SyncedMeansSynced
<1>4. CASE Step /\ Observe
  <2>1. CASE WaitCluster
    <3>1. /\ req' = req /\ pc # "idle" /\ pc' = "waitNamespaces"
          /\ \A x \in CL!Cached : HasSynced(x)
      BY <2>1 DEF WaitCluster, CL!Synced, CL!HasSynced, HasSynced, Go, Goto
    <3>2. ASSUME NEW s \in steady', s \in ClSlots PROVE HasSynced(InformerAt(s))'
      <4>1. s \in steady /\ InformerAt(s) \in CL!Cached
        BY <3>1, <3>2, Later, SteadyAreKeys, SlotsArePartitioned DEF InformerAt, CL!Cached
      <4> QED
        BY <3>1, <3>2, <4>1, SyncedStays
    <3> QED
      BY <3>1, <3>2 DEF HalfSynced, SyncedMeansSynced
  <2>2. CASE WaitNamespaces /\ pc' = "done"
    <3>1. /\ req' = req /\ pc = "waitNamespaces"
          /\ \A x \in NS!Cached : HasSynced(x)
      BY <2>2 DEF WaitNamespaces, NS!Synced, NS!HasSynced, HasSynced, Go, Goto, Finish
    <3>2. ASSUME NEW s \in steady' PROVE HasSynced(InformerAt(s))'
      <4>1. s \in steady /\ s \in Slots /\ InformerAt(s) # Nil
        BY <3>1, Later, SteadyAreKeys
      <4>2. HasSynced(InformerAt(s))
        BY <3>1, <4>1, SlotsArePartitioned DEF InformerAt, NS!Cached, HalfSynced
      <4> QED
        BY <3>1, <4>2, SyncedStays
    <3> QED
      BY <2>2, <3>2 DEF HalfSynced, SyncedMeansSynced
  <2>3. CASE WaitNamespaces /\ pc' # "done"
    BY <1>2, <2>3 DEF WaitNamespaces, Go, Goto, Finish
  <2>4. CASE Review \/ Route \/ Look \/ Evicted \/ ReadNamespace \/ ReadCluster
    BY <1>2, <1>3, <2>4 DEF Review, Route, RouteTo, Look, Evicted, ReadNamespace,
                            ReadCluster, Go, Goto, Finish
  <2>5. CASE Lookup \/ Create \/ Reread
    <3>1. req.slot \in Slots
      BY <2>5 DEF Lookup, Create, Reread, InOrder, RequestOK, Lookups
    <3>2. InformerAt(req.slot) # "Synced"
      BY <3>1, CachesTypes, ResultsAssumption DEF InOrder, CachesOK, Results
    <3> QED
      BY <1>2, <1>3, <2>5, <3>2 DEF Lookup, Create, Reread, Go, Goto, Finish
  <2>6. CASE \E s \in NsSlots : Evict(s)
    BY <1>2, <2>6 DEF Evict
  <2> QED
    BY <1>4, <2>1, <2>2, <2>3, <2>4, <2>5, <2>6 DEF Step
<1>5. UNCHANGED vars => UNCHANGED <<req, pc, answer>>
  BY DEF vars, reqVars
<1>6. pc = "idle" /\ UNCHANGED pc => HalfSynced' /\ SyncedMeansSynced'
  BY <1>2
<1> QED
  BY <1>1, <1>2, <1>4, <1>5, <1>6, Moves

\* WaitForCacheSync asks one cache after the other, and its answer is true of
\* both at once, of all that was there when it began and still is.
THEOREM SyncedMeansSyncedAlways == Spec => []SyncedMeansSynced
<1>1. Init => HalfSynced /\ SyncedMeansSynced
  BY DEF Init, NoRequest, HalfSynced, SyncedMeansSynced
<1>2. InOrder /\ HalfSynced /\ SyncedMeansSynced /\ [Next]_vars
         => (HalfSynced /\ SyncedMeansSynced)'
  BY NextSynced
<1>3. Spec => []InOrder
  BY Invariance, PTL DEF InOrder
<1> QED
  BY <1>1, <1>2, <1>3, PTL DEF Spec
=============================================================================

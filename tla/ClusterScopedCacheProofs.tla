----------------------- MODULE ClusterScopedCacheProofs -----------------------
(***************************************************************************)
(* Theorems about the ClusterScopedCache, for any numbers of informers,    *)
(* slots and dependents.                                                   *)
(*                                                                         *)
(* Only callers change what this cache holds, and it cancels a context     *)
(* exactly when it lets go of a ScopeInformer.  So the invariant the rest  *)
(* hangs on is an equivalence, which does not hold of the other cache: a   *)
(* ScopeInformer that has been created is in the cache or is cancelled,    *)
(* and never both.                                                         *)
(***************************************************************************)
EXTENDS ClusterScopedCache, TLAPS

-----------------------------------------------------------------------------
(* What the operations do.                                                 *)

\* AddInformer leaves some x at s, which was there before or is new, and gives
\* it the dependent; every other slot keeps what it had.
LEMMA AddInformerEffect ==
    ASSUME TypeOK,
           NEW s \in Slots, NEW d \in UID, NEW i \in Inf, AddInformer(s, d, i)
    PROVE  \E x \in SI :
              /\ infAt' = [infAt EXCEPT ![s] = x]
              /\ \/ infAt[s] = x /\ UNCHANGED informer
                 \/ /\ infAt[s] = Nil /\ informer[x] = Nil /\ i \in Offered
                    /\ informer' = [informer EXCEPT ![x] = i]
              /\ informer'[x] \in Inf
              /\ \A y \in SI : informer[y] # Nil => informer'[y] = informer[y]
              /\ dependents' = [dependents EXCEPT ![x] = @ \cup {d}]
              /\ gvks' = gvks \cup {s.Gvk}
              /\ goRun' = IF started THEN goRun \cup {x} ELSE goRun
              /\ UNCHANGED <<started, cancelled, phase, stopCh,
                             watchErrorHandler, synced, forbidden>>
<1>1. PICK x \in SI :
         /\ \/ /\ infAt[s] = Nil
               /\ i \in Offered
               /\ NewScopeInformer(x, i)
               /\ infAt' = [infAt EXCEPT ![s] = x]
            \/ /\ infAt[s] = x
               /\ UNCHANGED <<informer, infAt>>
         /\ gvks' = gvks \cup {s.Gvk}
         /\ AddDependent(x, d)
         /\ goRun' = IF started THEN goRun \cup {x} ELSE goRun
         /\ UNCHANGED <<started, cancelled, infVars, forbidden>>
  BY DEF AddInformer
<1>2. infAt' = [infAt EXCEPT ![s] = x]
  BY <1>1 DEF TypeOK
<1>3. \/ infAt[s] = x /\ UNCHANGED informer
      \/ /\ infAt[s] = Nil /\ informer[x] = Nil /\ i \in Offered
         /\ informer' = [informer EXCEPT ![x] = i]
  BY <1>1 DEF NewScopeInformer
<1>4. /\ informer'[x] \in Inf
      /\ \A y \in SI : informer[y] # Nil => informer'[y] = informer[y]
  BY <1>3, NilAssumption DEF TypeOK, InformerTypeOK
<1>5. dependents' = [dependents EXCEPT ![x] = @ \cup {d}]
  BY <1>1 DEF AddDependent
<1> QED
  BY <1>1, <1>2, <1>3, <1>4, <1>5 DEF infVars

\* RemoveInformer finds nothing at s, or takes d off what is there.  It empties
\* s if nobody else depends on it, or by force, and cancels just what it takes
\* out.
LEMMA RemoveInformerEffect ==
    ASSUME TypeOK, NEW s \in Slots, NEW d, NEW force, RemoveInformer(s, d, force)
    PROVE  /\ UNCHANGED <<started, informer, goRun, phase, stopCh,
                          watchErrorHandler, synced, forbidden>>
           /\ dependents' \in [SI -> SUBSET UID]
           /\ cancelled' \in [SI -> BOOLEAN]
           /\ \A x \in SI : x # infAt[s] => /\ dependents'[x] = dependents[x]
                                            /\ cancelled'[x] = cancelled[x]
           /\ infAt' \in [Slots -> SI \cup {Nil}]
           /\ \A t \in Slots : t # s => infAt'[t] = infAt[t]
           /\ \/ infAt[s] = Nil /\ UNCHANGED <<gvks, infAt, dependents, cancelled>>
              \/ /\ infAt[s] # Nil
                 /\ dependents'[infAt[s]] = Without(infAt[s], d)
                 /\ \/ /\ Deletes(infAt[s], d, force)
                       /\ infAt'[s] = Nil /\ cancelled'[infAt[s]]
                    \/ /\ ~Deletes(infAt[s], d, force)
                       /\ UNCHANGED <<infAt, cancelled>>
                 /\ DeleteEmptyMap(s, infAt')
<1>1. UNCHANGED <<started, informer, goRun, phase, stopCh, watchErrorHandler,
                  synced, forbidden>>
  BY DEF RemoveInformer, infVars
<1>2. CASE infAt[s] = Nil
  BY <1>1, <1>2 DEF RemoveInformer, TypeOK, InformerTypeOK
<1>3. CASE infAt[s] # Nil
  <2>1. infAt[s] \in SI
    BY <1>3 DEF TypeOK
  <2>2. /\ dependents' = [dependents EXCEPT ![infAt[s]] = Without(infAt[s], d)]
        /\ \/ /\ Deletes(infAt[s], d, force)
              /\ infAt' = [infAt EXCEPT ![s] = Nil]
              /\ Terminate({infAt[s]})
           \/ /\ ~Deletes(infAt[s], d, force)
              /\ UNCHANGED <<infAt, cancelled>>
        /\ DeleteEmptyMap(s, infAt')
    BY <1>3 DEF RemoveInformer
  <2>3. /\ dependents' \in [SI -> SUBSET UID]
        /\ \A x \in SI : x # infAt[s] => dependents'[x] = dependents[x]
        /\ dependents'[infAt[s]] = Without(infAt[s], d)
    BY <2>1, <2>2 DEF TypeOK, InformerTypeOK, Without
  <2>4. CASE Deletes(infAt[s], d, force)
    <3>1. cancelled' = [x \in SI |-> cancelled[x] \/ x \in {infAt[s]}]
      BY <2>2, <2>4 DEF Terminate
    <3>2. cancelled' \in [SI -> BOOLEAN] /\ cancelled'[infAt[s]]
      BY <2>1, <3>1, Zenon DEF TypeOK, InformerTypeOK
    <3>3. \A x \in SI : x # infAt[s] => cancelled'[x] = cancelled[x]
      <4>1. \A x \in SI : cancelled[x] \in BOOLEAN
        BY DEF TypeOK, InformerTypeOK
      <4> QED
        BY <3>1, <4>1
    <3>4. /\ infAt' \in [Slots -> SI \cup {Nil}]
          /\ \A t \in Slots : t # s => infAt'[t] = infAt[t]
          /\ infAt'[s] = Nil
      BY <2>2, <2>4 DEF TypeOK
    <3> QED
      BY <1>1, <1>3, <2>2, <2>3, <2>4, <3>2, <3>3, <3>4
  <2>5. CASE ~Deletes(infAt[s], d, force)
    BY <1>1, <1>3, <2>2, <2>3, <2>5 DEF TypeOK, InformerTypeOK
  <2> QED
    BY <2>4, <2>5
<1> QED
  BY <1>2, <1>3

\* The goroutines of informers change nothing that the cache holds.
LEMMA InformerStepEffect ==
    ASSUME InformerNext \/ \E i \in Inf : IgnoreWatchError(i)
    PROVE  UNCHANGED siVars
BY DEF InformerNext, Run, Stop, Sync, WatchFails, ChangePermission,
       IgnoreWatchError, siVars

-----------------------------------------------------------------------------
(* Types.                                                                  *)

LEMMA AddInformerType ==
    ASSUME TypeOK,
           NEW s \in Slots, NEW d \in UID, NEW i \in Inf, AddInformer(s, d, i)
    PROVE  TypeOK'
<1>1. PICK x \in SI :
         /\ infAt' = [infAt EXCEPT ![s] = x]
         /\ \/ infAt[s] = x /\ UNCHANGED informer
            \/ /\ infAt[s] = Nil /\ informer[x] = Nil
               /\ informer' = [informer EXCEPT ![x] = i]
         /\ informer'[x] \in Inf
         /\ \A y \in SI : informer[y] # Nil => informer'[y] = informer[y]
         /\ dependents' = [dependents EXCEPT ![x] = @ \cup {d}]
         /\ gvks' = gvks \cup {s.Gvk}
         /\ goRun' = IF started THEN goRun \cup {x} ELSE goRun
         /\ UNCHANGED <<started, cancelled, phase, stopCh, watchErrorHandler,
                        synced, forbidden>>
  BY AddInformerEffect
<1>2. informer' \in [SI -> Inf \cup {Nil}]
  BY <1>1 DEF TypeOK, InformerTypeOK
<1>3. goRun' \subseteq {y \in SI : informer'[y] # Nil}
  BY <1>1, <1>2, NilAssumption DEF TypeOK, InformerTypeOK
<1>4. InformerTypeOK'
  BY <1>1, <1>2, <1>3 DEF TypeOK, InformerTypeOK
<1>5. infAt' \in [Slots -> SI \cup {Nil}]
  BY <1>1 DEF TypeOK
<1>6. \A t \in Slots : infAt'[t] # Nil => informer'[infAt'[t]] # Nil
  BY <1>1, <1>5, NilAssumption DEF TypeOK
<1>7. \A t, u \in Slots : infAt'[t] = infAt'[u] /\ infAt'[t] # Nil => t = u
  BY <1>1, <1>5, NilAssumption DEF TypeOK
<1> QED
  BY <1>1, <1>4, <1>5, <1>6, <1>7 DEF TypeOK

LEMMA RemoveInformerType ==
    ASSUME TypeOK, NEW s \in Slots, NEW d, NEW force, RemoveInformer(s, d, force)
    PROVE  TypeOK'
<1>1. InformerTypeOK'
  BY RemoveInformerEffect DEF TypeOK, InformerTypeOK
<1>2. gvks' \subseteq gvks
  BY RemoveInformerEffect DEF DeleteEmptyMap
<1>3. /\ infAt' \in [Slots -> SI \cup {Nil}]
      /\ \A t \in Slots : infAt'[t] # Nil => infAt'[t] = infAt[t]
  BY RemoveInformerEffect
<1> QED
  BY <1>1, <1>2, <1>3, RemoveInformerEffect DEF TypeOK

LEMMA StartType == ASSUME TypeOK, Start PROVE TypeOK'
BY DEF Start, TypeOK, InformerTypeOK, infVars, siVars, Cached

LEMMA InformerStepType ==
    ASSUME TypeOK, UNCHANGED cacheVars,
           InformerNext \/ \E i \in Inf : IgnoreWatchError(i)
    PROVE  TypeOK'
<1>1. ASSUME NEW x \in SI, Run(x) PROVE InformerTypeOK'
  BY <1>1, NilAssumption DEF TypeOK, InformerTypeOK, Run, Phase, siVars
<1>2. ASSUME NEW i \in Inf, Stop(i) PROVE InformerTypeOK'
  BY <1>2 DEF TypeOK, InformerTypeOK, Stop, Phase, siVars
<1>3. ASSUME NEW i \in Inf, Sync(i) PROVE InformerTypeOK'
  BY <1>3 DEF TypeOK, InformerTypeOK, Sync, siVars
<1>4. ASSUME NEW i \in Inf, NEW err \in {"forbidden", "failed"},
             WatchFails(i, err)
      PROVE  InformerTypeOK'
  BY <1>4 DEF TypeOK, InformerTypeOK, WatchFails, Phase, siVars
<1>5. ASSUME NEW i \in Inf, ChangePermission(i) PROVE InformerTypeOK'
  BY <1>5 DEF TypeOK, InformerTypeOK, ChangePermission, siVars, infVars
<1>6. ASSUME NEW i \in Inf, IgnoreWatchError(i) PROVE InformerTypeOK'
  BY <1>6 DEF TypeOK, InformerTypeOK, IgnoreWatchError, HandlerReturns, Phase
<1>7. InformerTypeOK'
  BY <1>1, <1>2, <1>3, <1>4, <1>5, <1>6 DEF InformerNext
<1> QED
  BY <1>7, InformerStepEffect DEF TypeOK, cacheVars, siVars

LEMMA NextType == TypeOK /\ [Next]_vars => TypeOK'
<1> SUFFICES ASSUME TypeOK, [Next]_vars PROVE TypeOK'
  OBVIOUS
<1>1. CASE Start
  BY <1>1, StartType
<1>2. CASE UNCHANGED vars
  BY <1>2 DEF vars, cacheVars, informerVars, siVars, infVars, TypeOK,
              InformerTypeOK
<1> QED
  BY <1>1, <1>2, AddInformerType, RemoveInformerType, InformerStepType
     DEF Next, CallerNext

LEMMA InitType == Init => TypeOK
<1> SUFFICES ASSUME Init PROVE TypeOK
  OBVIOUS
<1>1. InformerTypeOK
  BY NilAssumption DEF Init, InformerInit, InformerTypeOK, Phase
<1>2. \A s \in Slots : infAt[s] = Nil
  BY DEF Init
<1>3. infAt \in [Slots -> SI \cup {Nil}]
  BY DEF Init
<1> QED
  BY <1>1, <1>2, <1>3 DEF Init, TypeOK

\* The state keeps its types: in particular no ScopeInformer is ever at two
\* slots, and whatever is at a slot, or has a goroutine, has been created.
THEOREM TypeCorrect == Spec => []TypeOK
BY InitType, NextType, PTL DEF Spec

-----------------------------------------------------------------------------
(* The map.                                                                *)

\* A slot is filled: its GVK is a key from then on.
LEMMA AddInformerMaps ==
    ASSUME TypeOK, NoEmptyMaps,
           NEW s \in Slots, NEW d \in UID, NEW i \in Inf, AddInformer(s, d, i)
    PROVE  NoEmptyMaps'
<1>1. PICK x \in SI : /\ infAt' = [infAt EXCEPT ![s] = x]
                      /\ gvks' = gvks \cup {s.Gvk}
  BY AddInformerEffect
<1>2. \A t \in Slots : infAt'[t] # Nil <=> infAt[t] # Nil \/ t = s
  BY <1>1, NilAssumption DEF TypeOK
<1> QED
  BY <1>1, <1>2 DEF NoEmptyMaps

\* A slot is emptied, or not: its GVK goes if it was the last of it.
LEMMA RemoveInformerMaps ==
    ASSUME TypeOK, NoEmptyMaps, NEW s \in Slots, NEW d, NEW force,
           RemoveInformer(s, d, force)
    PROVE  NoEmptyMaps'
<1>1. CASE UNCHANGED <<gvks, infAt>>
  BY <1>1 DEF NoEmptyMaps
<1>2. CASE infAt[s] # Nil
  <2> DEFINE gvkEmpty == \A t \in Slots : t.Gvk = s.Gvk => infAt'[t] = Nil
  <2>1. /\ gvks' = IF gvkEmpty THEN gvks \ {s.Gvk} ELSE gvks
        /\ \A t \in Slots : t # s => infAt'[t] = infAt[t]
    BY <1>2, RemoveInformerEffect DEF DeleteEmptyMap
  <2>2. ASSUME NEW g \in gvks' PROVE \E t \in Slots : infAt'[t] # Nil /\ g = t.Gvk
    <3>1. PICK t \in Slots : infAt[t] # Nil /\ g = t.Gvk
      BY <2>1, <2>2 DEF NoEmptyMaps
    <3>2. CASE g = s.Gvk
      BY <2>1, <2>2, <3>2
    <3>3. CASE g # s.Gvk
      BY <2>1, <3>1, <3>3
    <3> QED
      BY <3>2, <3>3
  <2>3. ASSUME NEW t \in Slots, infAt'[t] # Nil PROVE t.Gvk \in gvks'
    <3>1. infAt[t] # Nil
      BY <1>2, <2>1, <2>3
    <3>2. t.Gvk \in gvks
      BY <3>1 DEF NoEmptyMaps
    <3> QED
      BY <2>1, <2>3, <3>2
  <2> HIDE DEF gvkEmpty
  <2> QED
    BY <2>2, <2>3 DEF NoEmptyMaps
<1> QED
  BY <1>1, <1>2, RemoveInformerEffect

LEMMA NextMaps == TypeOK /\ NoEmptyMaps /\ [Next]_vars => NoEmptyMaps'
<1> SUFFICES ASSUME TypeOK, NoEmptyMaps, [Next]_vars PROVE NoEmptyMaps'
  OBVIOUS
<1>1. Start \/ UNCHANGED cacheVars \/ UNCHANGED vars => NoEmptyMaps'
  BY DEF Start, cacheVars, vars, NoEmptyMaps
<1> QED
  BY <1>1, AddInformerMaps, RemoveInformerMaps DEF Next, CallerNext

\* A GVK is in the map as long as there is an informer behind it and no longer:
\* no key is left behind to draw the requests of the ScopedCache here.
THEOREM MapIsNeverEmpty == Spec => []NoEmptyMaps
<1>1. Init => NoEmptyMaps
  BY DEF Init, NoEmptyMaps
<1> QED
  BY <1>1, NextMaps, TypeCorrect, PTL DEF Spec

-----------------------------------------------------------------------------
(* What is cancelled.                                                      *)

\* A new ScopeInformer is not cancelled and has no dependents; from then on it
\* is cancelled as soon as, and not before, it has left the cache.
CancelledOnLeaving ==
    \A x \in SI :
        /\ informer[x] = Nil => ~cancelled[x] /\ dependents[x] = {}
        /\ informer[x] # Nil => (x \in Cached <=> ~cancelled[x])

LEMMA NextCancelled ==
    TypeOK /\ CancelledOnLeaving /\ [Next]_vars => CancelledOnLeaving'
<1> SUFFICES ASSUME TypeOK, CancelledOnLeaving, [Next]_vars PROVE CancelledOnLeaving'
  OBVIOUS
<1>1. ASSUME UNCHANGED <<infAt, informer, cancelled, dependents>>
      PROVE  CancelledOnLeaving'
  BY <1>1 DEF CancelledOnLeaving, Cached
<1>2. ASSUME NEW s \in Slots, NEW d \in UID, NEW i \in Inf, AddInformer(s, d, i)
      PROVE  CancelledOnLeaving'
  <2>1. PICK x \in SI :
           /\ infAt' = [infAt EXCEPT ![s] = x]
           /\ \/ infAt[s] = x /\ UNCHANGED informer
              \/ /\ infAt[s] = Nil /\ informer[x] = Nil
                 /\ informer' = [informer EXCEPT ![x] = i]
           /\ informer'[x] \in Inf
           /\ dependents' = [dependents EXCEPT ![x] = @ \cup {d}]
           /\ UNCHANGED cancelled
    BY <1>2, AddInformerEffect
  <2>2. x \in Cached' /\ informer'[x] # Nil
    BY <2>1, NilAssumption DEF Cached, TypeOK
  <2>3. ~cancelled[x]
    <3>1. CASE infAt[s] = x
      <4>1. x \in Cached /\ informer[x] # Nil
        BY <2>1, <3>1, NilAssumption DEF Cached, TypeOK
      <4> QED
        BY <4>1 DEF CancelledOnLeaving
    <3>2. CASE informer[x] = Nil
      BY <3>2 DEF CancelledOnLeaving
    <3> QED
      BY <2>1, <3>1, <3>2
  <2>4. Cached' = Cached \cup {x}
    BY <2>1, NilAssumption DEF Cached, TypeOK
  <2>5. \A y \in SI : y # x => /\ informer'[y] = informer[y]
                               /\ dependents'[y] = dependents[y]
    BY <2>1 DEF TypeOK, InformerTypeOK
  <2> QED
    BY <2>1, <2>2, <2>3, <2>4, <2>5 DEF CancelledOnLeaving
<1>3. ASSUME NEW s \in Slots, NEW d \in UID, NEW force \in ForceArgs(s),
             RemoveInformer(s, d, force)
      PROVE  CancelledOnLeaving'
  <2>1. CASE infAt[s] = Nil
    BY <1>1, <1>3, <2>1, RemoveInformerEffect
  <2>2. CASE infAt[s] # Nil
    <3>1. informer[infAt[s]] # Nil /\ infAt[s] \in Cached /\ infAt[s] \in SI
      BY <2>2 DEF TypeOK, Cached
    <3>2. /\ UNCHANGED informer
          /\ \A x \in SI : x # infAt[s] => /\ dependents'[x] = dependents[x]
                                           /\ cancelled'[x] = cancelled[x]
          /\ \A t \in Slots : t # s => infAt'[t] = infAt[t]
          /\ \/ infAt'[s] = Nil /\ cancelled'[infAt[s]]
             \/ UNCHANGED <<infAt, cancelled>>
      BY <1>3, <2>2, RemoveInformerEffect
    <3>3. CASE infAt'[s] = Nil /\ cancelled'[infAt[s]]
      <4>1. \A x \in SI : x \in Cached' <=> x \in Cached /\ x # infAt[s]
        BY <2>2, <3>2, <3>3 DEF Cached, TypeOK
      <4> QED
        BY <3>1, <3>2, <3>3, <4>1 DEF CancelledOnLeaving
    <3>4. CASE UNCHANGED <<infAt, cancelled>>
      BY <3>1, <3>2, <3>4 DEF CancelledOnLeaving, Cached
    <3> QED
      BY <3>2, <3>3, <3>4
  <2> QED
    BY <2>1, <2>2
<1>4. ASSUME UNCHANGED cacheVars, UNCHANGED siVars PROVE CancelledOnLeaving'
  BY <1>1, <1>4 DEF cacheVars, siVars
<1>5. Start \/ UNCHANGED vars => UNCHANGED <<infAt, informer, cancelled, dependents>>
  BY DEF Start, vars, cacheVars, informerVars, siVars
<1> QED
  BY <1>1, <1>2, <1>3, <1>4, <1>5, InformerStepEffect DEF Next, CallerNext

\* As for the other cache: which context stops an informer, and that nothing
\* but that context does.
StoppedByItsWrapper ==
    \A i \in Inf :
        /\ stopCh[i] # Nil => informer[stopCh[i]] = i
        /\ phase[i] = "stopped" => cancelled[stopCh[i]]

\* An informer that is not shared is wrapped once.
Exclusive ==
    \A x, y \in SI :
        informer[x] = informer[y] /\ informer[x] \in Inf \ Shared => x = y

\* Start or AddInformer has run, or is running, whatever is there.
CachedInformersAreRun ==
    started => \A x \in Cached : x \in goRun \/ phase[informer[x]] # "idle"

IInv ==
    /\ TypeOK
    /\ CancelledOnLeaving
    /\ StoppedByItsWrapper
    /\ Exclusive
    /\ CachedInformersAreRun

LEMMA AddInformerInv ==
    ASSUME IInv,
           NEW s \in Slots, NEW d \in UID, NEW i \in Inf, AddInformer(s, d, i)
    PROVE  StoppedByItsWrapper' /\ Exclusive' /\ CachedInformersAreRun'
<1>1. PICK x \in SI :
         /\ infAt' = [infAt EXCEPT ![s] = x]
         /\ \/ infAt[s] = x /\ UNCHANGED informer
            \/ /\ informer[x] = Nil /\ i \in Offered
               /\ informer' = [informer EXCEPT ![x] = i]
         /\ \A y \in SI : informer[y] # Nil => informer'[y] = informer[y]
         /\ goRun' = IF started THEN goRun \cup {x} ELSE goRun
         /\ UNCHANGED <<started, cancelled, phase, stopCh>>
  BY AddInformerEffect DEF IInv
<1>2. StoppedByItsWrapper'
  BY <1>1, NilAssumption DEF StoppedByItsWrapper, IInv, TypeOK, InformerTypeOK
<1>3. Exclusive'
  <2>1. CASE UNCHANGED informer
    BY <2>1 DEF Exclusive, IInv
  <2>2. CASE i \in Offered /\ informer' = [informer EXCEPT ![x] = i]
    BY <2>2 DEF Offered, Exclusive, IInv, TypeOK, InformerTypeOK
  <2> QED
    BY <1>1, <2>1, <2>2
<1>4. CachedInformersAreRun'
  <2> SUFFICES ASSUME started, NEW y \in Cached', y # x
               PROVE  y \in goRun' \/ phase'[informer'[y]] # "idle"
    BY <1>1 DEF CachedInformersAreRun
  <2>1. y \in Cached
    BY <1>1 DEF Cached, IInv, TypeOK
  <2>2. y \in SI /\ informer'[y] = informer[y]
    BY <1>1, <2>1 DEF Cached, IInv, TypeOK
  <2> QED
    BY <1>1, <2>1, <2>2 DEF CachedInformersAreRun, IInv
<1> QED
  BY <1>2, <1>3, <1>4

LEMMA InformerStepInv ==
    ASSUME IInv, UNCHANGED cacheVars,
           InformerNext \/ \E i \in Inf : IgnoreWatchError(i)
    PROVE  StoppedByItsWrapper' /\ Exclusive' /\ CachedInformersAreRun'
<1>1. UNCHANGED <<informer, cancelled>> /\ Cached' = Cached /\ UNCHANGED started
  BY InformerStepEffect DEF siVars, cacheVars, Cached
<1>2. Exclusive'
  BY <1>1 DEF Exclusive, IInv
<1>3. \A x \in Cached : informer[x] \in Inf
  BY DEF Cached, IInv, TypeOK, InformerTypeOK
<1>4. ASSUME NEW x \in SI, Run(x)
      PROVE  StoppedByItsWrapper' /\ CachedInformersAreRun'
  <2>1. StoppedByItsWrapper'
    BY <1>1, <1>4, NilAssumption
       DEF Run, StoppedByItsWrapper, IInv, TypeOK, InformerTypeOK
  <2>2. /\ goRun' = goRun \ {x}
        /\ phase'[informer[x]] # "idle"
        /\ \A i \in Inf : phase[i] # "idle" => phase'[i] # "idle"
    BY <1>4, NilAssumption DEF Run, IInv, TypeOK, InformerTypeOK
  <2> QED
    BY <1>1, <1>3, <2>1, <2>2 DEF CachedInformersAreRun, IInv
<1>5. ASSUME UNCHANGED <<goRun, stopCh>>,
             \A i \in Inf : phase[i] # "idle" => phase'[i] # "idle",
             \A i \in Inf : phase'[i] = "stopped" =>
                 phase[i] = "stopped" \/ cancelled[stopCh[i]]
      PROVE  StoppedByItsWrapper' /\ CachedInformersAreRun'
  BY <1>1, <1>3, <1>5 DEF StoppedByItsWrapper, CachedInformersAreRun, IInv
<1>6. ASSUME NEW i \in Inf, Stop(i)
      PROVE  StoppedByItsWrapper' /\ CachedInformersAreRun'
  BY <1>5, <1>6 DEF Stop, IInv, TypeOK, InformerTypeOK
<1>7. ASSUME NEW i \in Inf, Sync(i) \/ ChangePermission(i)
      PROVE  StoppedByItsWrapper' /\ CachedInformersAreRun'
  BY <1>5, <1>7 DEF Sync, ChangePermission, infVars
<1>8. ASSUME NEW i \in Inf, NEW err \in {"forbidden", "failed"}, WatchFails(i, err)
      PROVE  StoppedByItsWrapper' /\ CachedInformersAreRun'
  BY <1>5, <1>8 DEF WatchFails, IInv, TypeOK, InformerTypeOK
<1>9. ASSUME NEW i \in Inf, IgnoreWatchError(i)
      PROVE  StoppedByItsWrapper' /\ CachedInformersAreRun'
  BY <1>1, <1>5, <1>9 DEF IgnoreWatchError, HandlerReturns, IInv, TypeOK, InformerTypeOK
<1> QED
  BY <1>2, <1>4, <1>6, <1>7, <1>8, <1>9 DEF InformerNext

LEMMA NextInv == IInv /\ [Next]_vars => IInv'
<1> SUFFICES ASSUME IInv, [Next]_vars
             PROVE  StoppedByItsWrapper' /\ Exclusive' /\ CachedInformersAreRun'
  BY NextType, NextCancelled DEF IInv
<1>1. ASSUME NEW s \in Slots, NEW d \in UID, NEW force \in ForceArgs(s),
             RemoveInformer(s, d, force)
      PROVE  StoppedByItsWrapper' /\ Exclusive' /\ CachedInformersAreRun'
  <2>1. /\ UNCHANGED <<started, informer, goRun, phase, stopCh>>
        /\ \A t \in Slots : infAt'[t] # Nil => infAt'[t] = infAt[t]
    BY <1>1, RemoveInformerEffect DEF IInv
  <2>2. \A x \in SI : cancelled[x] => cancelled'[x]
    BY <1>1, RemoveInformerEffect DEF IInv
  <2>3. Cached' \subseteq Cached
    BY <2>1 DEF Cached
  <2>4. StoppedByItsWrapper'
    BY <2>1, <2>2 DEF StoppedByItsWrapper, IInv, TypeOK, InformerTypeOK
  <2> QED
    BY <2>1, <2>3, <2>4 DEF Exclusive, CachedInformersAreRun, IInv
<1>2. CASE Start
  BY <1>2 DEF Start, siVars, infVars, IInv, StoppedByItsWrapper, Exclusive,
              CachedInformersAreRun, Cached
<1>3. CASE UNCHANGED vars
  BY <1>3 DEF vars, cacheVars, informerVars, siVars, infVars, IInv,
              StoppedByItsWrapper, Exclusive, CachedInformersAreRun, Cached
<1> QED
  BY <1>1, <1>2, <1>3, AddInformerInv, InformerStepInv DEF Next, CallerNext

\* The inductive invariant.
THEOREM Invariance == Spec => []IInv
<1>1. Init => IInv
  BY InitType, NilAssumption
     DEF Init, InformerInit, IInv, CancelledOnLeaving, StoppedByItsWrapper,
         Exclusive, CachedInformersAreRun
<1> QED
  BY <1>1, NextInv, PTL DEF Spec

\* Nothing that runs, or is about to, is out of reach.
THEOREM NoWatchLeaks == Spec => []NoOrphanWatch
<1>1. IInv => NoOrphanWatch
  BY NilAssumption DEF IInv, NoOrphanWatch, TypeOK, InformerTypeOK,
                       CancelledOnLeaving, StoppedByItsWrapper
<1> QED
  BY <1>1, Invariance, PTL

\* In a started cache everything that is not shared watches, or is about to,
\* and nothing but its removal ends that.
THEOREM InformersWatch == Spec => []CachedInformersWatch
<1>1. IInv => CachedInformersWatch
  <2> DEFINE Stopped(i) == phase[i] = "stopped" /\ cancelled[stopCh[i]]
  <2> SUFFICES ASSUME IInv, NEW x \in Cached
               PROVE  /\ ~cancelled[x]
                      /\ started /\ x \notin goRun =>
                           /\ stopCh[informer[x]] = x \/ informer[x] \in Shared
                           /\ Live(informer[x]) \/ Stopped(informer[x])
    BY DEF CachedInformersWatch
  <2> DEFINE i == informer[x]
  <2>1. x \in SI /\ i \in Inf
    BY DEF Cached, IInv, TypeOK, InformerTypeOK
  <2>2. ~cancelled[x]
    BY <2>1, NilAssumption DEF CancelledOnLeaving, IInv
  <2>3. ASSUME started, x \notin goRun
        PROVE  (stopCh[i] = x \/ i \in Shared) /\ (Live(i) \/ Stopped(i))
    <3>1. phase[i] # "idle"
      BY <2>3 DEF CachedInformersAreRun, IInv
    <3>2. stopCh[i] \in SI /\ informer[stopCh[i]] = i
      BY <2>1, <3>1 DEF IInv, TypeOK, InformerTypeOK, StoppedByItsWrapper
    <3>3. stopCh[i] = x \/ i \in Shared
      BY <2>1, <3>2 DEF Exclusive, IInv
    <3>4. phase[i] = "stopped" => cancelled[stopCh[i]]
      BY <2>1 DEF StoppedByItsWrapper, IInv
    <3> QED
      BY <2>1, <3>1, <3>3, <3>4 DEF Live, Phase, IInv, TypeOK, InformerTypeOK
  <2> QED
    BY <2>2, <2>3
<1> QED
  BY <1>1, Invariance, PTL

-----------------------------------------------------------------------------
(* The cache implements InformerLease.                                     *)

\* The refinement mapping, as in the definition of Lease, and what is left of
\* it if the map is never empty.
Registered == {s \in Slots : HasInformer(s)}
Holders    == [s \in Slots |-> IF HasInformer(s) THEN dependents[infAt[s]] ELSE {}]

MapsByInformers ==
    /\ Registered = {s \in Slots : infAt[s] # Nil}
    /\ Holders = [s \in Slots |-> IF infAt[s] # Nil THEN dependents[infAt[s]] ELSE {}]

LEMMA Mapping == NoEmptyMaps => MapsByInformers
BY DEF NoEmptyMaps, MapsByInformers, Registered, Holders, HasInformer

LEMMA MappingInAStep ==
    ASSUME NoEmptyMaps, NoEmptyMaps' PROVE MapsByInformers /\ MapsByInformers'
BY Mapping, PTL

\* AddInformer acquires.
LEMMA AddInformerAcquires ==
    ASSUME IInv, NoEmptyMaps, NoEmptyMaps',
           NEW s \in Slots, NEW d \in UID, NEW i \in Inf, AddInformer(s, d, i)
    PROVE  /\ Registered' = Registered \cup {s}
           /\ Holders' = [Holders EXCEPT ![s] = @ \cup {d}]
<1>1. PICK x \in SI :
         /\ infAt' = [infAt EXCEPT ![s] = x]
         /\ \/ infAt[s] = x
            \/ infAt[s] = Nil /\ informer[x] = Nil
         /\ dependents' = [dependents EXCEPT ![x] = @ \cup {d}]
  BY AddInformerEffect DEF IInv
<1>2. /\ infAt'[s] = x
      /\ x # Nil
      /\ \A t \in Slots : t # s => infAt'[t] = infAt[t]
  BY <1>1, NilAssumption DEF IInv, TypeOK
<1>3. ASSUME NEW t \in Slots, t # s, infAt[t] # Nil
      PROVE  dependents'[infAt[t]] = dependents[infAt[t]]
  BY <1>1, <1>2, <1>3 DEF IInv, TypeOK, InformerTypeOK
<1>4. dependents'[x] = dependents[x] \cup {d}
  BY <1>1 DEF IInv, TypeOK, InformerTypeOK
<1>5. infAt[s] = Nil => dependents[x] = {}
  BY <1>1, <1>2 DEF CancelledOnLeaving, IInv
<1>6. Registered' = Registered \cup {s}
  BY <1>2, MappingInAStep DEF MapsByInformers
<1>7. Holders'[s] = Holders[s] \cup {d}
  BY <1>1, <1>2, <1>4, <1>5, MappingInAStep DEF MapsByInformers
<1>8. ASSUME NEW t \in Slots, t # s PROVE Holders'[t] = Holders[t]
  BY <1>2, <1>3, <1>8, MappingInAStep DEF MapsByInformers
<1>9. Holders' = [t \in Slots |-> Holders'[t]]
  BY DEF Holders
<1>10. Holders' = [Holders EXCEPT ![s] = @ \cup {d}]
  BY <1>7, <1>8, <1>9 DEF Holders
<1> QED
  BY <1>6, <1>10

\* RemoveInformer releases, or evicts by force, or finds nothing.
LEMMA RemoveInformerReleases ==
    ASSUME IInv, NoEmptyMaps, NoEmptyMaps',
           NEW s \in Slots, NEW d \in UID, NEW force, RemoveInformer(s, d, force)
    PROVE  \/ UNCHANGED <<Registered, Holders>>
           \/ /\ s \in Registered
              /\ Holders' = [Holders EXCEPT ![s] = @ \ {d}]
              /\ Registered' = IF Holders[s] \ {d} = {} THEN Registered \ {s}
                                                        ELSE Registered
           \/ /\ force
              /\ Registered' = Registered \ {s}
              /\ Holders' = [Holders EXCEPT ![s] = {}]
<1>1. CASE infAt[s] = Nil
  <2>1. UNCHANGED <<infAt, dependents>>
    BY <1>1, RemoveInformerEffect DEF IInv
  <2> QED
    BY <2>1, MappingInAStep DEF MapsByInformers
<1>2. CASE infAt[s] # Nil
  <2> DEFINE x == infAt[s]
  <2>1. /\ x \in SI
        /\ \A t \in Slots : t # s => infAt'[t] = infAt[t]
        /\ dependents'[x] = dependents[x] \ {d}
        /\ \/ Deletes(x, d, force) /\ infAt'[s] = Nil
           \/ ~Deletes(x, d, force) /\ UNCHANGED infAt
    BY <1>2, RemoveInformerEffect DEF Without, IInv, TypeOK
  <2>2. ASSUME NEW t \in Slots, t # s, infAt[t] # Nil
        PROVE  dependents'[infAt[t]] = dependents[infAt[t]]
    <3>1. infAt[t] # infAt[s] /\ infAt[t] \in SI
      BY <1>2, <2>2 DEF IInv, TypeOK
    <3> QED
      BY <3>1, RemoveInformerEffect DEF IInv
  <2>3. s \in Registered /\ Holders[s] = dependents[x]
    BY <1>2, MappingInAStep DEF MapsByInformers
  <2>4. ASSUME NEW t \in Slots, t # s PROVE Holders'[t] = Holders[t]
    BY <2>1, <2>2, <2>4, MappingInAStep DEF MapsByInformers
  <2>5. Holders' = [t \in Slots |-> Holders'[t]]
    BY DEF Holders
  <2>6. CASE Deletes(x, d, force) /\ infAt'[s] = Nil
    <3>1. Registered' = Registered \ {s} /\ Holders'[s] = {}
      BY <2>1, <2>6, MappingInAStep DEF MapsByInformers
    <3>2. Holders' = [Holders EXCEPT ![s] = {}]
      BY <2>4, <2>5, <3>1 DEF Holders
    <3>3. Holders[s] \ {d} = {} \/ force
      BY <2>3, <2>6 DEF Deletes, Without
    <3> QED
      BY <2>3, <3>1, <3>2, <3>3
  <2>7. CASE ~Deletes(x, d, force) /\ UNCHANGED infAt
    <3>1. Holders[s] \ {d} # {} /\ Registered' = Registered
      BY <2>3, <2>7, MappingInAStep DEF Deletes, Without, MapsByInformers
    <3>2. Holders'[s] = Holders[s] \ {d}
      BY <1>2, <2>1, <2>3, <2>7, MappingInAStep DEF MapsByInformers
    <3>3. Holders' = [Holders EXCEPT ![s] = @ \ {d}]
      BY <2>4, <2>5, <3>2 DEF Holders
    <3> QED
      BY <2>3, <3>1, <3>3
  <2> QED
    BY <2>1, <2>6, <2>7
<1> QED
  BY <1>1, <1>2

\* Every step of the cache is one of the lease, or none.
LEMMA NextIsLeaseStep ==
    ASSUME IInv, NoEmptyMaps, [Next]_vars
    PROVE  [Lease!Next]_(Lease!leaseVars)
<1>1. NoEmptyMaps'
  BY NextMaps DEF IInv
<1>2. ASSUME UNCHANGED <<Registered, Holders>> PROVE UNCHANGED Lease!leaseVars
  BY <1>2 DEF Registered, Holders, Lease!leaseVars
<1>3. ASSUME UNCHANGED <<infAt, dependents>> PROVE UNCHANGED Lease!leaseVars
  BY <1>1, <1>2, <1>3, MappingInAStep DEF MapsByInformers
<1>4. ASSUME NEW s \in Slots, NEW d \in UID, NEW i \in Inf, AddInformer(s, d, i)
      PROVE  Lease!Next
  <2>1. Lease!Acquire(s, d)
    BY <1>1, <1>4, AddInformerAcquires DEF Registered, Holders, Lease!Acquire
  <2> QED
    BY <2>1 DEF Lease!Next
<1>5. ASSUME NEW s \in Slots, NEW d \in UID, NEW force \in ForceArgs(s),
             RemoveInformer(s, d, force)
      PROVE  Lease!Next \/ UNCHANGED Lease!leaseVars
  <2>1. CASE UNCHANGED <<Registered, Holders>>
    BY <1>2, <2>1
  <2>2. CASE /\ s \in Registered
             /\ Holders' = [Holders EXCEPT ![s] = @ \ {d}]
             /\ Registered' = IF Holders[s] \ {d} = {} THEN Registered \ {s}
                                                       ELSE Registered
    <3>1. Lease!Release(s, d)
      BY <2>2 DEF Registered, Holders, Lease!Release
    <3> QED
      BY <3>1 DEF Lease!Next
  <2>3. CASE /\ s \in Forced
             /\ Registered' = Registered \ {s}
             /\ Holders' = [Holders EXCEPT ![s] = {}]
    <3>1. Lease!Evict(s)
      BY <2>3 DEF Registered, Holders, Lease!Evict
    <3> QED
      BY <3>1 DEF Lease!Next
  <2>4. force => s \in Forced
    BY DEF ForceArgs
  <2> QED
    BY <1>1, <1>5, <2>1, <2>2, <2>3, <2>4, RemoveInformerReleases
<1>6. UNCHANGED cacheVars /\ UNCHANGED siVars => UNCHANGED <<infAt, dependents>>
  BY DEF siVars, cacheVars
<1>7. Start \/ UNCHANGED vars => UNCHANGED <<infAt, dependents>>
  BY DEF Start, vars, cacheVars, informerVars, siVars
<1> QED
  BY <1>3, <1>4, <1>5, <1>6, <1>7, InformerStepEffect DEF Next, CallerNext

\* An informer of the cluster cache is there from its first dependent to its
\* last, unless a caller forces it out: no watch and no permission matters.
THEOREM ImplementsLease == Spec => LeaseSpec
<1>1. Init => Lease!Init
  BY DEF Init, Lease!Init, HasInformer
<1> QED
  BY <1>1, NextIsLeaseStep, Invariance, MapIsNeverEmpty, PTL
     DEF Spec, LeaseSpec, Lease!Spec

=============================================================================

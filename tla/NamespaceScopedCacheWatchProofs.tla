------------------- MODULE NamespaceScopedCacheWatchProofs -------------------
(***************************************************************************)
(* Further theorems about the NamespaceScopedCache: the levels of its map  *)
(* agree, and, once it is started, everything in it watches, under its own *)
(* context and with a handler for its own slot, if callers do not share    *)
(* it.                                                                     *)
(*                                                                         *)
(* The map needs no more than the types.  The watches need three facts     *)
(* besides IInv: an informer that is not shared has one wrapper, one that  *)
(* has stopped was told to by the context it ran with, and one in the      *)
(* cache is run by Start or by AddInformer.  That it then watches under    *)
(* its own context follows, and need not be carried along.                 *)
(***************************************************************************)
EXTENDS NamespaceScopedCacheProofs

-----------------------------------------------------------------------------
(* The map.                                                                *)

\* A slot is filled: its GVK and its namespace are keys from then on.
LEMMA AddInformerMaps ==
    ASSUME TypeOK, NoEmptyMaps,
           NEW s \in Slots, NEW d \in UID, NEW i \in Inf, AddInformer(s, d, i)
    PROVE  NoEmptyMaps'
<1>1. PICK x \in SI : /\ infAt' = [infAt EXCEPT ![s] = x]
                      /\ namespaces' = namespaces \cup {s.Namespace}
                      /\ gvks' = gvks \cup {NsGvk(s)}
  BY AddInformerEffect
<1>2. \A t \in Slots : infAt'[t] # Nil <=> infAt[t] # Nil \/ t = s
  BY <1>1, NilAssumption DEF TypeOK
<1>3. gvks' = {NsGvk(t) : t \in {u \in Slots : infAt'[u] # Nil}}
  BY <1>1, <1>2 DEF NoEmptyMaps
<1>4. NsGvk(s)[1] = s.Namespace
  BY DEF NsGvk
<1>5. namespaces' = {g[1] : g \in gvks'}
  BY <1>1, <1>4 DEF NoEmptyMaps
<1> QED
  BY <1>3, <1>5 DEF NoEmptyMaps

\* A slot is emptied, or not: what has become empty goes, and nothing else.
LEMMA RemovalMaps ==
    ASSUME TypeOK, NoEmptyMaps, NEW s \in Slots, NEW d, NEW force,
           Removal(s, d, force)
    PROVE  NoEmptyMaps'
<1>1. CASE UNCHANGED <<namespaces, gvks, infAt>>
  BY <1>1 DEF NoEmptyMaps
<1>2. CASE infAt[s] # Nil /\ DeleteEmptyMaps(s, infAt')
  <2> DEFINE gvkEmpty == \A t \in Slots : NsGvk(t) = NsGvk(s) => infAt'[t] = Nil
  <2>1. /\ gvks' = IF gvkEmpty THEN gvks \ {NsGvk(s)} ELSE gvks
        /\ namespaces' = IF \E g \in gvks' : g[1] = s.Namespace
                         THEN namespaces ELSE namespaces \ {s.Namespace}
    BY <1>2 DEF DeleteEmptyMaps
  <2>2. \A t \in Slots : t # s => infAt'[t] = infAt[t]
    BY RemovalEffect
  <2>3. gvks' = {NsGvk(t) : t \in {u \in Slots : infAt'[u] # Nil}}
    <3>1. ASSUME NEW g \in gvks' PROVE \E t \in Slots : infAt'[t] # Nil /\ g = NsGvk(t)
      <4>1. PICK t \in Slots : infAt[t] # Nil /\ g = NsGvk(t)
        BY <2>1, <3>1 DEF NoEmptyMaps
      <4>2. CASE g = NsGvk(s)
        BY <2>1, <3>1, <4>2
      <4>3. CASE g # NsGvk(s)
        BY <2>2, <4>1, <4>3
      <4> QED
        BY <4>2, <4>3
    <3>2. ASSUME NEW t \in Slots, infAt'[t] # Nil PROVE NsGvk(t) \in gvks'
      <4>1. infAt[t] # Nil
        BY <1>2, <2>2, <3>2
      <4>2. NsGvk(t) \in gvks
        BY <4>1 DEF NoEmptyMaps
      <4> QED
        BY <2>1, <3>2, <4>2
    <3> HIDE DEF gvkEmpty
    <3> QED
      BY <3>1, <3>2
  <2>4. namespaces' = {g[1] : g \in gvks'}
    <3>1. \A g \in gvks : g = NsGvk(s) => g[1] = s.Namespace
      BY DEF NsGvk
    <3>2. namespaces = {g[1] : g \in gvks}
      BY DEF NoEmptyMaps
    <3>3. gvks' = gvks \/ gvks' = gvks \ {NsGvk(s)}
      BY <2>1
    <3>4. CASE \E g \in gvks' : g[1] = s.Namespace
      BY <2>1, <3>1, <3>2, <3>3, <3>4
    <3>5. CASE ~ \E g \in gvks' : g[1] = s.Namespace
      BY <2>1, <3>1, <3>2, <3>3, <3>5
    <3> QED
      BY <3>4, <3>5
  <2> QED
    BY <2>3, <2>4 DEF NoEmptyMaps
<1> QED
  BY <1>1, <1>2 DEF Removal

LEMMA NextMaps == TypeOK /\ NoEmptyMaps /\ [Next]_vars => NoEmptyMaps'
<1> SUFFICES ASSUME TypeOK, NoEmptyMaps, [Next]_vars PROVE NoEmptyMaps'
  OBVIOUS
<1>1. ASSUME UNCHANGED <<namespaces, gvks, infAt>> PROVE NoEmptyMaps'
  BY <1>1 DEF NoEmptyMaps
<1>2. ASSUME NEW s \in Slots, NEW d \in UID, NEW force \in ForceArgs(s),
             RemoveInformer(s, d, force)
      PROVE  NoEmptyMaps'
  BY <1>2, RemovalMaps DEF RemoveInformer
<1>3. ASSUME NEW i \in Inf, HandleWatchError(i) PROVE NoEmptyMaps'
  <2>1. ASSUME NEW d \in UID, Removal(watchErrorHandler[i], d, TRUE),
               watchErrorHandler[i] # Nil
        PROVE  NoEmptyMaps'
    <3>1. watchErrorHandler[i] \in Slots
      BY <2>1 DEF TypeOK, InformerTypeOK
    <3> QED
      BY <2>1, <3>1, RemovalMaps
  <2> QED
    BY <1>1, <1>3, <2>1 DEF HandleWatchError
<1>4. Start \/ TerminateCache \/ UNCHANGED cacheVars \/ UNCHANGED vars
         => UNCHANGED <<namespaces, gvks, infAt>>
  BY DEF Start, TerminateCache, cacheVars, vars
<1> QED
  BY <1>1, <1>2, <1>3, <1>4, AddInformerMaps DEF Next, CallerNext

\* The levels of the map agree after every operation: Get and List never take
\* a removed informer's empty map for an answer.
THEOREM MapsAreNeverEmpty == Spec => []NoEmptyMaps
<1>1. Init => NoEmptyMaps
  BY DEF Init, NoEmptyMaps
<1> QED
  BY <1>1, NextMaps, TypeCorrect, PTL DEF Spec

-----------------------------------------------------------------------------
(* The watches.                                                            *)

\* What no step undoes: a context stays cancelled, an informer that has been
\* run stays with the context it was run with, and a wrapper with its informer.
LEMMA Permanent ==
    ASSUME IInv, [Next]_vars
    PROVE  /\ \A x \in SI : cancelled[x] => cancelled'[x]
           /\ \A x \in SI : informer[x] # Nil => informer'[x] = informer[x]
           /\ \A i \in Inf : phase[i] # "idle" =>
                 phase'[i] # "idle" /\ stopCh'[i] = stopCh[i]
<1>1. ASSUME NEW s \in Slots, NEW d \in UID, NEW i \in Inf, AddInformer(s, d, i)
      PROVE  /\ UNCHANGED <<cancelled, phase, stopCh>>
             /\ \A x \in SI : informer[x] # Nil => informer'[x] = informer[x]
  BY <1>1, AddInformerEffect DEF IInv
<1>2. ASSUME NEW s \in Slots, NEW d \in UID, NEW force \in ForceArgs(s),
             RemoveInformer(s, d, force)
      PROVE  /\ UNCHANGED <<informer, phase, stopCh>>
             /\ \A x \in SI : cancelled[x] => cancelled'[x]
  BY <1>2, RemovalEffect DEF RemoveInformer, infVars, IInv
<1>3. CASE Start
  BY <1>3 DEF Start, siVars, infVars
<1>4. CASE TerminateCache
  BY <1>4, TerminateEffect DEF TerminateCache, infVars, IInv, TypeOK, InformerTypeOK
<1>5. ASSUME NEW i \in Inf, HandleWatchError(i)
      PROVE  /\ UNCHANGED <<informer, stopCh>>
             /\ \A x \in SI : cancelled[x] => cancelled'[x]
             /\ \A j \in Inf : phase[j] # "idle" => phase'[j] # "idle"
  <2>1. \A d \in UID : watchErrorHandler[i] # Nil /\ Removal(watchErrorHandler[i], d, TRUE)
           => \A x \in SI : cancelled[x] => cancelled'[x]
    BY RemovalEffect DEF IInv, TypeOK, InformerTypeOK
  <2>2. \A j \in Inf : phase[j] # "idle" => phase'[j] # "idle"
    BY <1>5 DEF HandleWatchError, HandlerReturns, IInv, TypeOK, InformerTypeOK
  <2> QED
    BY <1>5, <2>1, <2>2 DEF HandleWatchError
<1>6. CASE InformerNext
  <2>1. \A i \in Inf : phase[i] # "idle" => phase'[i] # "idle" /\ stopCh'[i] = stopCh[i]
    BY <1>6 DEF InformerNext, Run, Stop, Sync, WatchFails, ChangePermission,
                infVars, IInv, TypeOK, InformerTypeOK
  <2> QED
    BY <1>6, <2>1, InformerStepEffect DEF siVars
<1>7. CASE UNCHANGED vars
  BY <1>7 DEF vars, informerVars, siVars, infVars
<1> QED
  BY <1>1, <1>2, <1>3, <1>4, <1>5, <1>6, <1>7 DEF Next, CallerNext

\* Start and AddInformer between them run every informer, under whatever context.
CachedInformersAreRun ==
    started => \A x \in Cached :
        cancelled[x] \/ x \in goRun \/ phase[informer[x]] # "idle"

LEMMA NextRuns == IInv /\ CachedInformersAreRun /\ [Next]_vars => CachedInformersAreRun'
<1> SUFFICES ASSUME IInv, CachedInformersAreRun, [Next]_vars,
                    started', NEW x \in Cached', ~cancelled'[x], x \notin goRun'
             PROVE  phase'[informer'[x]] # "idle"
  BY DEF CachedInformersAreRun
<1>1. IInv'
  BY NextInv
<1>2. x \in SI /\ informer'[x] \in Inf
  BY <1>1 DEF Cached, IInv, TypeOK, InformerTypeOK
\* It is enough that x was in the cache, started, and has lost no goroutine.
<1>3. ASSUME x \in Cached, started, x \notin goRun PROVE phase'[informer'[x]] # "idle"
  <2>1. informer[x] \in Inf /\ informer'[x] = informer[x]
    BY <1>2, <1>3, Permanent, NilAssumption DEF Cached, IInv, TypeOK, InformerTypeOK
  <2>2. phase[informer[x]] # "idle"
    BY <1>2, <1>3, Permanent DEF CachedInformersAreRun
  <2> QED
    BY <2>1, <2>2, Permanent
<1>4. ASSUME NEW s \in Slots, NEW d \in UID, NEW i \in Inf, AddInformer(s, d, i)
      PROVE  x \in Cached /\ started /\ x \notin goRun
  <2>1. PICK y \in SI : /\ infAt' = [infAt EXCEPT ![s] = y]
                        /\ RunIfStarted(y)
                        /\ UNCHANGED started
    BY <1>4, AddInformerEffect DEF IInv
  <2>2. goRun' = goRun \cup {y}
    BY <2>1 DEF RunIfStarted
  <2>3. x # y
    BY <2>2
  <2> QED
    BY <2>1, <2>2, <2>3 DEF Cached, IInv, TypeOK
<1>5. ASSUME NEW s \in Slots, NEW d, NEW force, Removal(s, d, force),
             UNCHANGED <<started, goRun>>
      PROVE  x \in Cached /\ started /\ x \notin goRun
  BY <1>5, RemovalEffect DEF Cached, IInv, TypeOK
<1>6. ASSUME NEW s \in Slots, NEW d \in UID, NEW force \in ForceArgs(s),
             RemoveInformer(s, d, force)
      PROVE  x \in Cached /\ started /\ x \notin goRun
  BY <1>5, <1>6 DEF RemoveInformer
<1>7. ASSUME NEW i \in Inf, HandleWatchError(i)
      PROVE  x \in Cached /\ started /\ x \notin goRun
  <2>1. UNCHANGED <<started, goRun>>
    BY <1>7 DEF HandleWatchError
  <2>2. ASSUME NEW d \in UID, Removal(watchErrorHandler[i], d, TRUE),
               watchErrorHandler[i] # Nil
        PROVE  x \in Cached /\ started /\ x \notin goRun
    BY <1>5, <2>1, <2>2 DEF IInv, TypeOK, InformerTypeOK
  <2>3. ASSUME UNCHANGED infAt PROVE x \in Cached /\ started /\ x \notin goRun
    BY <2>1, <2>3 DEF Cached
  <2> QED
    BY <1>7, <2>2, <2>3 DEF HandleWatchError
<1>8. ~Start /\ ~TerminateCache
  BY DEF Start, TerminateCache, Cached
<1>9. ASSUME InformerNext, UNCHANGED cacheVars PROVE phase'[informer'[x]] # "idle"
  <2>1. x \in Cached /\ started
    BY <1>9 DEF cacheVars, Cached
  <2>2. CASE x \notin goRun
    BY <1>3, <2>1, <2>2
  <2>3. CASE x \in goRun
    <3>1. Run(x)
      BY <1>9, <2>3 DEF InformerNext, Run, Stop, Sync, WatchFails, ChangePermission
    <3>2. informer' = informer
      BY <3>1 DEF Run, siVars
    <3> QED
      BY <1>2, <3>1, <3>2 DEF Run, IInv, TypeOK, InformerTypeOK
  <2> QED
    BY <2>2, <2>3
<1>10. ASSUME UNCHANGED vars PROVE x \in Cached /\ started /\ x \notin goRun
  BY <1>10 DEF vars, cacheVars, informerVars, Cached
<1> QED
  BY <1>3, <1>4, <1>6, <1>7, <1>8, <1>9, <1>10 DEF Next, CallerNext

\* Whichever of Start and AddInformer comes first, and however often either
\* does, between them they leave no informer out.
LEMMA InformersAreRun == Spec => []CachedInformersAreRun
<1>1. Init => CachedInformersAreRun
  BY DEF Init, CachedInformersAreRun
<1> QED
  BY <1>1, NextRuns, Invariance, PTL DEF Spec

\* An informer that is not shared is wrapped once.
Exclusive ==
    \A x, y \in SI :
        informer[x] = informer[y] /\ informer[x] \in Inf \ Shared => x = y

\* An informer stops only because the context it runs with is cancelled.
StoppedIsCancelled ==
    \A i \in Inf : phase[i] = "stopped" => cancelled[stopCh[i]]

LEMMA NextExclusive == IInv /\ Exclusive /\ [Next]_vars => Exclusive'
<1> SUFFICES ASSUME IInv, Exclusive, [Next]_vars PROVE Exclusive'
  OBVIOUS
<1>1. ASSUME UNCHANGED informer PROVE Exclusive'
  BY <1>1 DEF Exclusive
<1>2. ASSUME NEW s \in Slots, NEW d \in UID, NEW i \in Inf, AddInformer(s, d, i)
      PROVE  Exclusive'
  <2>1. CASE UNCHANGED informer
    BY <1>1, <2>1
  <2>2. ASSUME ~UNCHANGED informer
        PROVE  /\ i \in Shared \/ \A y \in SI : informer[y] # i
               /\ \E x \in SI : informer' = [informer EXCEPT ![x] = i]
    BY <1>2, <2>2 DEF AddInformer, NewScopeInformer, Offered
  <2> QED
    BY <2>1, <2>2 DEF Exclusive, IInv, TypeOK, InformerTypeOK
<1>3. InformerNext => UNCHANGED informer
  BY InformerStepEffect DEF siVars
<1>4. /\ Start \/ TerminateCache \/ UNCHANGED vars => UNCHANGED informer
      /\ \A s \in Slots, d \in UID : \A force \in ForceArgs(s) :
            RemoveInformer(s, d, force) => UNCHANGED informer
      /\ \A i \in Inf : HandleWatchError(i) => UNCHANGED informer
  BY DEF Start, TerminateCache, RemoveInformer, HandleWatchError, vars,
         informerVars, siVars
<1> QED
  BY <1>1, <1>2, <1>3, <1>4 DEF Next, CallerNext

LEMMA NextStopped == IInv /\ StoppedIsCancelled /\ [Next]_vars => StoppedIsCancelled'
<1> SUFFICES ASSUME IInv, StoppedIsCancelled, [Next]_vars,
                    NEW i \in Inf, phase'[i] = "stopped"
             PROVE  cancelled'[stopCh'[i]]
  BY DEF StoppedIsCancelled
<1>1. ASSUME phase[i] = "stopped" PROVE cancelled'[stopCh'[i]]
  <2>1. stopCh[i] \in SI /\ cancelled[stopCh[i]]
    BY <1>1 DEF StoppedIsCancelled, IInv, TypeOK, InformerTypeOK
  <2> QED
    BY <1>1, <2>1, Permanent
<1>2. ASSUME NEW j \in Inf, HandleWatchError(j), phase[i] # "stopped"
      PROVE  cancelled'[stopCh'[i]]
  <2>1. /\ phase' = [phase EXCEPT ![j] = IF cancelled'[stopCh[j]] THEN "stopped"
                                                                 ELSE "running"]
        /\ UNCHANGED stopCh
    BY <1>2 DEF HandleWatchError, HandlerReturns
  <2>2. i = j
    BY <1>2, <2>1 DEF IInv, TypeOK, InformerTypeOK
  <2> QED
    BY <2>1, <2>2 DEF IInv, TypeOK, InformerTypeOK
<1>3. ASSUME InformerNext, phase[i] # "stopped" PROVE cancelled'[stopCh'[i]]
  <2>1. UNCHANGED <<informer, cancelled>>
    BY <1>3, InformerStepEffect DEF siVars
  <2>2. ASSUME NEW x \in SI, Run(x) PROVE cancelled'[stopCh'[i]]
    BY <1>3, <2>1, <2>2 DEF Run, IInv, TypeOK, InformerTypeOK
  <2>3. ASSUME NEW j \in Inf, Stop(j) PROVE cancelled'[stopCh'[i]]
    BY <1>3, <2>1, <2>3 DEF Stop, IInv, TypeOK, InformerTypeOK
  <2>4. \A j \in Inf, err \in {"forbidden", "failed"} : ~WatchFails(j, err)
    BY <1>3 DEF WatchFails, IInv, TypeOK, InformerTypeOK
  <2>5. \A j \in Inf : ~Sync(j) /\ ~ChangePermission(j)
    BY <1>3 DEF Sync, ChangePermission, infVars
  <2> QED
    BY <1>3, <2>2, <2>3, <2>4, <2>5 DEF InformerNext
<1>4. /\ Start \/ TerminateCache \/ UNCHANGED vars => UNCHANGED phase
      /\ \A s \in Slots, d \in UID : \A force \in ForceArgs(s) :
            RemoveInformer(s, d, force) => UNCHANGED phase
  BY DEF Start, TerminateCache, RemoveInformer, vars, informerVars, infVars
<1>5. \A s \in Slots, d \in UID, j \in Inf : AddInformer(s, d, j) => UNCHANGED phase
  BY AddInformerEffect DEF IInv
<1> QED
  BY <1>1, <1>2, <1>3, <1>4, <1>5 DEF Next, CallerNext

\* In a started cache everything watches, or is about to, until the context that
\* it runs with is cancelled; if it is not shared, only its own removal, or
\* Terminate, does that.
THEOREM InformersWatch == Spec => []CachedInformersWatch
<1>1. Init => Exclusive /\ StoppedIsCancelled
  BY NilAssumption DEF Init, InformerInit, Exclusive, StoppedIsCancelled
<1>2. IInv /\ CachedInformersAreRun /\ Exclusive /\ StoppedIsCancelled
          => CachedInformersWatch
  <2> DEFINE Stopped(i) == phase[i] = "stopped" /\ cancelled[stopCh[i]]
  <2> SUFFICES ASSUME IInv, CachedInformersAreRun, Exclusive, StoppedIsCancelled,
                      started, NEW x \in Cached, ~cancelled[x], x \notin goRun
               PROVE  /\ stopCh[informer[x]] = x \/ informer[x] \in Shared
                      /\ Live(informer[x]) \/ Stopped(informer[x])
    BY DEF CachedInformersWatch
  <2> DEFINE i == informer[x]
  <2>1. x \in SI /\ i \in Inf
    BY DEF Cached, IInv, TypeOK, InformerTypeOK
  <2>2. phase[i] # "idle"
    BY DEF CachedInformersAreRun
  <2>3. stopCh[i] \in SI /\ informer[stopCh[i]] = i
    BY <2>1, <2>2 DEF IInv, TypeOK, InformerTypeOK, StoppedByItsWrapper
  <2>4. stopCh[i] = x \/ i \in Shared
    BY <2>1, <2>3 DEF Exclusive
  <2>5. phase[i] = "stopped" => cancelled[stopCh[i]]
    BY <2>1 DEF StoppedIsCancelled
  <2> QED
    BY <2>1, <2>2, <2>4, <2>5 DEF Live, Phase, IInv, TypeOK, InformerTypeOK
<1> QED
  BY <1>1, <1>2, NextExclusive, NextStopped, Invariance, InformersAreRun, PTL DEF Spec

-----------------------------------------------------------------------------
(* The handlers.                                                           *)

LEMMA NextGuards ==
    IInv /\ Exclusive /\ HandlerGuardsItsSlot /\ [Next]_vars => HandlerGuardsItsSlot'
<1> SUFFICES ASSUME IInv, Exclusive, HandlerGuardsItsSlot, [Next]_vars
             PROVE  HandlerGuardsItsSlot'
  OBVIOUS
<1>1. ASSUME UNCHANGED <<informer, watchErrorHandler>>,
             \A t \in Slots : infAt'[t] # Nil => infAt'[t] = infAt[t]
      PROVE  HandlerGuardsItsSlot'
  BY <1>1 DEF HandlerGuardsItsSlot
<1>2. ASSUME NEW s \in Slots, NEW d \in UID, NEW i \in Inf, AddInformer(s, d, i)
      PROVE  HandlerGuardsItsSlot'
  <2>1. PICK x \in SI :
           /\ infAt' = [infAt EXCEPT ![s] = x]
           /\ \/ infAt[s] = x /\ UNCHANGED informer
              \/ infAt[s] = Nil /\ informer' = [informer EXCEPT ![x] = i]
           /\ informer'[x] \in Inf
           /\ \A y \in SI : informer[y] # Nil => informer'[y] = informer[y]
           /\ SetWatchErrorHandler(informer'[x], s)
    BY <1>2, AddInformerEffect DEF IInv
  <2>2. Exclusive' /\ IInv'
    BY NextExclusive, NextInv
  <2> SUFFICES ASSUME NEW t \in Slots, infAt'[t] # Nil,
                      informer'[infAt'[t]] \notin Shared
               PROVE  watchErrorHandler'[informer'[infAt'[t]]] = t
    BY DEF HandlerGuardsItsSlot
  <2> DEFINE j == informer'[x]
  <2>3. CASE t = s
    <3>1. infAt'[t] = x
      BY <2>1, <2>3 DEF IInv, TypeOK
    <3>2. CASE phase[j] = "idle"
      BY <2>1, <2>3, <3>1, <3>2 DEF SetWatchErrorHandler, IInv, TypeOK, InformerTypeOK
    <3>3. CASE phase[j] # "idle"
      \* What has been run has a wrapper, and callers hand out no such thing.
      <4>1. infAt[s] = x /\ UNCHANGED informer
        <5>1. stopCh[j] \in SI /\ informer[stopCh[j]] = j
          BY <2>1, <3>3 DEF IInv, TypeOK, InformerTypeOK, StoppedByItsWrapper
        <5>2. CASE infAt[s] = Nil
          <6>1. i \in Shared \/ \A y \in SI : informer[y] # i
            BY <1>2, <5>2, NilAssumption DEF AddInformer, Offered
          <6>2. j = i
            BY <2>1, <5>2, NilAssumption DEF IInv, TypeOK, InformerTypeOK
          <6> QED
            BY <3>1, <5>1, <6>1, <6>2
        <5> QED
          BY <2>1, <5>2
      <4>2. watchErrorHandler' = watchErrorHandler
        BY <2>1, <3>3 DEF SetWatchErrorHandler
      <4> QED
        BY <2>3, <3>1, <4>1, <4>2, NilAssumption DEF HandlerGuardsItsSlot
    <3> QED
      BY <3>2, <3>3
  <2>4. CASE t # s
    <3>1. infAt'[t] = infAt[t] /\ infAt[t] \in SI /\ infAt[t] # Nil
      BY <2>1, <2>4 DEF IInv, TypeOK
    <3>2. informer[infAt[t]] # Nil /\ informer'[infAt[t]] = informer[infAt[t]]
      BY <2>1, <3>1 DEF IInv, TypeOK
    <3>3. infAt[t] # x
      BY <2>1, <2>2, <2>4, <3>1 DEF IInv, TypeOK
    <3>4. informer'[infAt[t]] # j
      BY <2>1, <2>2, <3>1, <3>3 DEF Exclusive
    <3>5. watchErrorHandler'[informer[infAt[t]]] = watchErrorHandler[informer[infAt[t]]]
      BY <2>1, <3>2, <3>4 DEF SetWatchErrorHandler, IInv, TypeOK, InformerTypeOK
    <3> QED
      BY <3>1, <3>2, <3>5 DEF HandlerGuardsItsSlot
  <2> QED
    BY <2>3, <2>4
<1>3. ASSUME NEW s \in Slots, NEW d \in UID, NEW force \in ForceArgs(s),
             RemoveInformer(s, d, force)
      PROVE  HandlerGuardsItsSlot'
  BY <1>1, <1>3, RemovalEffect DEF RemoveInformer, infVars, IInv, TypeOK
<1>4. ASSUME NEW i \in Inf, HandleWatchError(i) PROVE HandlerGuardsItsSlot'
  <2>1. UNCHANGED <<informer, watchErrorHandler>>
    BY <1>4 DEF HandleWatchError
  <2>2. ASSUME NEW d \in UID, Removal(watchErrorHandler[i], d, TRUE),
               watchErrorHandler[i] # Nil
        PROVE  HandlerGuardsItsSlot'
    BY <1>1, <2>1, <2>2, RemovalEffect DEF IInv, TypeOK, InformerTypeOK
  <2>3. UNCHANGED infAt => HandlerGuardsItsSlot'
    BY <1>1, <2>1
  <2> QED
    BY <1>4, <2>2, <2>3 DEF HandleWatchError
<1>5. InformerNext => UNCHANGED <<informer, watchErrorHandler>>
  BY DEF InformerNext, Run, Stop, Sync, WatchFails, ChangePermission, siVars, infVars
<1>6. Start \/ TerminateCache \/ UNCHANGED vars
         => UNCHANGED <<infAt, informer, watchErrorHandler>>
  BY DEF Start, TerminateCache, vars, cacheVars, informerVars, siVars, infVars
<1> QED
  BY <1>1, <1>2, <1>3, <1>4, <1>5, <1>6 DEF Next, CallerNext, cacheVars

\* Every informer that is not shared has, while it is in the cache, a handler
\* that removes its slot: a refusal never goes unnoticed, and the handler is
\* in place before the informer can be run.
THEOREM HandlersGuard == Spec => []HandlerGuardsItsSlot
<1>1. Init => Exclusive /\ HandlerGuardsItsSlot
  BY NilAssumption DEF Init, InformerInit, Exclusive, HandlerGuardsItsSlot
<1> QED
  BY <1>1, NextExclusive, NextGuards, Invariance, PTL DEF Spec

=============================================================================

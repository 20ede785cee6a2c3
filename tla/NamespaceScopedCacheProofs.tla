--------------------- MODULE NamespaceScopedCacheProofs ---------------------
(***************************************************************************)
(* Theorems about the NamespaceScopedCache, for any numbers of informers,  *)
(* slots and dependents, shared informers or not, forced removals or not.  *)
(*                                                                         *)
(* The first lemmas say what the two operations that change the map do,    *)
(* in the terms the invariants are stated in; the rest uses them and never *)
(* expands AddInformer or Removal again.                                   *)
(***************************************************************************)
EXTENDS NamespaceScopedCache, TLAPS

-----------------------------------------------------------------------------
(* What the operations do.                                                 *)

\* Terminate cancels the contexts it is given and no other.
LEMMA TerminateEffect ==
    ASSUME cancelled \in [SI -> BOOLEAN], NEW X, Terminate(X)
    PROVE  /\ cancelled' \in [SI -> BOOLEAN]
           /\ \A x \in SI : cancelled'[x] <=> cancelled[x] \/ x \in X
BY Zenon DEF Terminate

\* AddInformer leaves some x at s, which was there before or is new, and gives
\* it the dependent; every other slot keeps what it had.
LEMMA AddInformerEffect ==
    ASSUME TypeOK,
           NEW s \in Slots, NEW d \in UID, NEW i \in Inf, AddInformer(s, d, i)
    PROVE  \E x \in SI :
              /\ infAt' = [infAt EXCEPT ![s] = x]
              /\ \/ infAt[s] = x /\ UNCHANGED informer
                 \/ /\ infAt[s] = Nil /\ informer[x] = Nil /\ i \in Offered
                    /\ informer' = [informer EXCEPT ![x] = i]
              /\ informer'[x] \in Inf
              /\ \A y \in SI : informer[y] # Nil => informer'[y] = informer[y]
              /\ dependents' = [dependents EXCEPT ![x] = @ \cup {d}]
              /\ namespaces' = namespaces \cup {s.Namespace}
              /\ gvks' = gvks \cup {NsGvk(s)}
              /\ SetWatchErrorHandler(informer'[x], s)
              /\ RunIfStarted(x)
              /\ UNCHANGED <<started, cancelled, phase, stopCh, synced, forbidden>>
<1>1. PICK x \in SI :
         /\ \/ /\ infAt[s] = Nil
               /\ i \in Offered
               /\ NewScopeInformer(x, i)
               /\ infAt' = [infAt EXCEPT ![s] = x]
            \/ /\ infAt[s] = x
               /\ UNCHANGED <<informer, infAt>>
         /\ namespaces' = namespaces \cup {s.Namespace}
         /\ gvks' = gvks \cup {NsGvk(s)}
         /\ AddDependent(x, d)
         /\ SetWatchErrorHandler(informer'[x], s)
         /\ RunIfStarted(x)
         /\ UNCHANGED <<started, cancelled, phase, stopCh, synced, forbidden>>
  BY DEF AddInformer
<1>2. infAt' = [infAt EXCEPT ![s] = x]
  BY <1>1 DEF TypeOK
<1>3. \/ infAt[s] = x /\ UNCHANGED informer
      \/ /\ infAt[s] = Nil /\ informer[x] = Nil /\ i \in Offered
         /\ informer' = [informer EXCEPT ![x] = i]
  BY <1>1 DEF NewScopeInformer
<1>4. /\ informer'[x] \in Inf
      /\ \A y \in SI : informer[y] # Nil => informer'[y] = informer[y]
  BY <1>3, NilAssumption DEF TypeOK, InformerTypeOK
<1>5. dependents' = [dependents EXCEPT ![x] = @ \cup {d}]
  BY <1>1 DEF AddDependent
<1> QED
  BY <1>1, <1>2, <1>3, <1>4, <1>5

\* A removal empties s, if anything, and what it takes out is cancelled.  What
\* it leaves has a dependent left.
LEMMA RemovalEffect ==
    ASSUME TypeOK, NEW s \in Slots, NEW d, NEW force, Removal(s, d, force)
    PROVE  /\ dependents' \in [SI -> SUBSET UID]
           /\ \A x \in SI : x # infAt[s] => dependents'[x] = dependents[x]
           /\ cancelled' \in [SI -> BOOLEAN]
           /\ \A x \in SI : cancelled'[x] <=>
                 cancelled[x] \/ (x = infAt[s] /\ infAt'[s] = Nil)
           /\ infAt' \in [Slots -> SI \cup {Nil}]
           /\ \A t \in Slots : t # s => infAt'[t] = infAt[t]
           /\ infAt'[s] # infAt[s] => infAt'[s] = Nil /\ cancelled'[infAt[s]]
           /\ infAt'[s] # Nil => dependents'[infAt[s]] # {}
           /\ namespaces' \subseteq namespaces
           /\ gvks' \subseteq gvks
<1>1. CASE infAt[s] = Nil
  BY <1>1, NilAssumption DEF Removal, TypeOK, InformerTypeOK
<1>2. CASE infAt[s] # Nil
  <2>1. infAt[s] \in SI
    BY <1>2 DEF TypeOK
  <2>2. /\ dependents' = [dependents EXCEPT ![infAt[s]] = Without(infAt[s], d)]
        /\ \/ /\ Deletes(infAt[s], d, force)
              /\ infAt' = [infAt EXCEPT ![s] = Nil]
              /\ Terminate({infAt[s]})
           \/ /\ ~Deletes(infAt[s], d, force)
              /\ UNCHANGED <<infAt, cancelled>>
        /\ DeleteEmptyMaps(s, infAt')
    BY <1>2 DEF Removal
  <2>3. namespaces' \subseteq namespaces /\ gvks' \subseteq gvks
    BY <2>2 DEF DeleteEmptyMaps
  <2>4. /\ dependents' \in [SI -> SUBSET UID]
        /\ \A x \in SI : x # infAt[s] => dependents'[x] = dependents[x]
        /\ dependents'[infAt[s]] = Without(infAt[s], d)
    BY <2>1, <2>2 DEF TypeOK, InformerTypeOK, Without
  <2>5. CASE Deletes(infAt[s], d, force)
    <3>1. /\ cancelled' \in [SI -> BOOLEAN]
          /\ \A x \in SI : cancelled'[x] <=> cancelled[x] \/ x \in {infAt[s]}
      BY <2>2, <2>5, TerminateEffect DEF TypeOK, InformerTypeOK
    <3>2. /\ infAt' \in [Slots -> SI \cup {Nil}]
          /\ \A t \in Slots : t # s => infAt'[t] = infAt[t]
          /\ infAt'[s] = Nil
      BY <2>2, <2>5 DEF TypeOK
    <3> QED
      BY <2>1, <2>3, <2>4, <3>1, <3>2
  <2>6. CASE ~Deletes(infAt[s], d, force)
    <3>1. UNCHANGED <<infAt, cancelled>> /\ Without(infAt[s], d) # {}
      BY <2>2, <2>6 DEF Deletes
    <3>2. \A x \in SI : cancelled'[x] <=>
             cancelled[x] \/ (x = infAt[s] /\ infAt'[s] = Nil)
      BY <1>2, <3>1, Zenon
    <3>3. cancelled' \in [SI -> BOOLEAN] /\ infAt' \in [Slots -> SI \cup {Nil}]
      BY <3>1 DEF TypeOK, InformerTypeOK
    <3> QED
      BY <2>3, <2>4, <3>1, <3>2, <3>3
  <2> QED
    BY <2>5, <2>6
<1> QED
  BY <1>1, <1>2

\* The goroutines of informers create nothing and cancel nothing.
LEMMA InformerStepEffect ==
    ASSUME InformerNext
    PROVE  UNCHANGED siVars
BY DEF InformerNext, Run, Stop, Sync, WatchFails, ChangePermission, siVars

-----------------------------------------------------------------------------
(* Types.                                                                  *)

LEMMA AddInformerType ==
    ASSUME TypeOK,
           NEW s \in Slots, NEW d \in UID, NEW i \in Inf, AddInformer(s, d, i)
    PROVE  TypeOK'
<1>1. PICK x \in SI :
         /\ infAt' = [infAt EXCEPT ![s] = x]
         /\ \/ infAt[s] = x /\ UNCHANGED informer
            \/ /\ infAt[s] = Nil /\ informer[x] = Nil
               /\ informer' = [informer EXCEPT ![x] = i]
         /\ informer'[x] \in Inf
         /\ \A y \in SI : informer[y] # Nil => informer'[y] = informer[y]
         /\ dependents' = [dependents EXCEPT ![x] = @ \cup {d}]
         /\ namespaces' = namespaces \cup {s.Namespace}
         /\ gvks' = gvks \cup {NsGvk(s)}
         /\ SetWatchErrorHandler(informer'[x], s)
         /\ RunIfStarted(x)
         /\ UNCHANGED <<started, cancelled, phase, stopCh, synced, forbidden>>
  BY AddInformerEffect
<1>2. informer' \in [SI -> Inf \cup {Nil}]
  BY <1>1 DEF TypeOK, InformerTypeOK
<1>3. goRun' \subseteq {y \in SI : informer'[y] # Nil}
  BY <1>1, <1>2, NilAssumption DEF TypeOK, InformerTypeOK, RunIfStarted
<1>4. InformerTypeOK'
  BY <1>1, <1>2, <1>3 DEF TypeOK, InformerTypeOK, SetWatchErrorHandler
<1>5. infAt' \in [Slots -> SI \cup {Nil}]
  BY <1>1 DEF TypeOK
<1>6. \A t \in Slots : infAt'[t] # Nil => informer'[infAt'[t]] # Nil
  BY <1>1, <1>5, NilAssumption DEF TypeOK
<1>7. \A t, u \in Slots : infAt'[t] = infAt'[u] /\ infAt'[t] # Nil => t = u
  BY <1>1, <1>5, NilAssumption DEF TypeOK
<1> QED
  BY <1>1, <1>4, <1>5, <1>6, <1>7 DEF TypeOK

LEMMA RemoveInformerType ==
    ASSUME TypeOK, NEW s \in Slots, NEW d, NEW force, RemoveInformer(s, d, force)
    PROVE  TypeOK'
<1>1. Removal(s, d, force)
  BY DEF RemoveInformer
<1>2. UNCHANGED <<started, informer, goRun, phase, stopCh, watchErrorHandler,
                  synced, forbidden>>
  BY DEF RemoveInformer, infVars
<1>3. InformerTypeOK'
  BY <1>1, <1>2, RemovalEffect DEF TypeOK, InformerTypeOK
<1> QED
  BY <1>1, <1>2, <1>3, RemovalEffect DEF TypeOK

LEMMA HandleWatchErrorType ==
    ASSUME TypeOK, NEW i \in Inf, HandleWatchError(i)
    PROVE  TypeOK'
<1>1. /\ phase[i] \in {"forbidden", "failed"}
      /\ phase' = [phase EXCEPT ![i] = IF cancelled'[stopCh[i]] THEN "stopped"
                                                               ELSE "running"]
      /\ UNCHANGED <<started, informer, goRun, stopCh, watchErrorHandler,
                     synced, forbidden>>
  BY DEF HandleWatchError, HandlerReturns
<1>2. phase' \in [Inf -> Phase] /\ \A j \in Inf : phase'[j] = "idle" <=> phase[j] = "idle"
  BY <1>1 DEF TypeOK, InformerTypeOK, Phase
<1>. SUFFICES /\ dependents' \in [SI -> SUBSET UID]
              /\ cancelled' \in [SI -> BOOLEAN]
              /\ infAt' \in [Slots -> SI \cup {Nil}]
              /\ \A t \in Slots : infAt'[t] # Nil => infAt'[t] = infAt[t]
              /\ namespaces' \subseteq namespaces
              /\ gvks' \subseteq gvks
  BY <1>1, <1>2 DEF TypeOK, InformerTypeOK
<1>3. CASE UNCHANGED <<namespaces, gvks, infAt, dependents, cancelled>>
  BY <1>3 DEF TypeOK, InformerTypeOK
<1>4. CASE \E d \in UID : /\ watchErrorHandler[i] # Nil
                          /\ Removal(watchErrorHandler[i], d, TRUE)
  <2>1. watchErrorHandler[i] \in Slots
    BY <1>4 DEF TypeOK, InformerTypeOK
  <2>2. PICK d \in UID : Removal(watchErrorHandler[i], d, TRUE)
    BY <1>4
  <2> QED
    BY <2>1, <2>2, RemovalEffect
<1> QED
  BY <1>3, <1>4 DEF HandleWatchError

LEMMA InformerNextType ==
    ASSUME TypeOK, InformerNext, UNCHANGED cacheVars
    PROVE  TypeOK'
<1>1. ASSUME NEW x \in SI, Run(x) PROVE InformerTypeOK'
  BY <1>1, NilAssumption DEF TypeOK, InformerTypeOK, Run, Phase, siVars
<1>2. ASSUME NEW i \in Inf, Stop(i) PROVE InformerTypeOK'
  BY <1>2 DEF TypeOK, InformerTypeOK, Stop, Phase, siVars
<1>3. ASSUME NEW i \in Inf, Sync(i) PROVE InformerTypeOK'
  BY <1>3 DEF TypeOK, InformerTypeOK, Sync, siVars
<1>4. ASSUME NEW i \in Inf, NEW err \in {"forbidden", "failed"},
             WatchFails(i, err)
      PROVE  InformerTypeOK'
  BY <1>4 DEF TypeOK, InformerTypeOK, WatchFails, Phase, siVars
<1>5. ASSUME NEW i \in Inf, ChangePermission(i) PROVE InformerTypeOK'
  BY <1>5 DEF TypeOK, InformerTypeOK, ChangePermission, siVars, infVars
<1>6. InformerTypeOK'
  BY <1>1, <1>2, <1>3, <1>4, <1>5 DEF InformerNext
<1> QED
  BY <1>6, InformerStepEffect DEF TypeOK, cacheVars, siVars

LEMMA NextType == TypeOK /\ [Next]_vars => TypeOK'
<1> SUFFICES ASSUME TypeOK, [Next]_vars PROVE TypeOK'
  OBVIOUS
<1>1. CASE Start
  BY <1>1 DEF Start, TypeOK, InformerTypeOK, infVars, siVars, Cached
<1>2. CASE TerminateCache
  <2>1. cancelled' \in [SI -> BOOLEAN]
    BY <1>2, TerminateEffect DEF TerminateCache, TypeOK, InformerTypeOK
  <2> QED
    BY <1>2, <2>1 DEF TerminateCache, TypeOK, InformerTypeOK, infVars
<1>3. CASE UNCHANGED vars
  BY <1>3 DEF vars, cacheVars, informerVars, siVars, infVars, TypeOK,
              InformerTypeOK
<1> QED
  BY <1>1, <1>2, <1>3, AddInformerType, RemoveInformerType,
     HandleWatchErrorType, InformerNextType DEF Next, CallerNext

LEMMA InitType == Init => TypeOK
<1> SUFFICES ASSUME Init PROVE TypeOK
  OBVIOUS
<1>1. InformerTypeOK
  BY NilAssumption DEF Init, InformerInit, InformerTypeOK, Phase
<1>2. \A s \in Slots : infAt[s] = Nil
  BY DEF Init
<1>3. infAt \in [Slots -> SI \cup {Nil}]
  BY DEF Init
<1> QED
  BY <1>1, <1>2, <1>3 DEF Init, TypeOK

\* The state keeps its types: in particular no ScopeInformer is ever at two
\* slots, and whatever is at a slot, or has a goroutine, has been created.
THEOREM TypeCorrect == Spec => []TypeOK
BY InitType, NextType, PTL DEF Spec

-----------------------------------------------------------------------------
(* Every informer in the cache has a dependent, and every watch a place in *)
(* the cache.                                                              *)

\* A removal keeps the two facts about what is in the cache and what is not.
LEMMA RemovalInv ==
    ASSUME IInv, NEW s \in Slots, NEW d, NEW force, Removal(s, d, force),
           UNCHANGED informer
    PROVE  EveryInformerIsHeld' /\ CreatedAreAccountedFor'
<1>1. ASSUME NEW x \in Cached' PROVE dependents'[x] # {}
  <2>1. PICK t \in Slots : x = infAt'[t] /\ x # Nil
    BY <1>1 DEF Cached
  <2>2. infAt[t] = x /\ x \in SI /\ x \in Cached
    BY <2>1, RemovalEffect DEF IInv, TypeOK, Cached
  <2>3. CASE t = s
    BY <2>1, <2>2, <2>3, RemovalEffect DEF IInv
  <2>4. CASE t # s
    BY <2>1, <2>2, <2>4, RemovalEffect DEF IInv, TypeOK, EveryInformerIsHeld
  <2> QED
    BY <2>3, <2>4
<1>2. ASSUME NEW x \in SI, informer[x] # Nil, ~cancelled'[x] PROVE x \in Cached'
  <2>1. x \in Cached
    BY <1>2, RemovalEffect DEF IInv, CreatedAreAccountedFor
  <2>2. PICK t \in Slots : x = infAt[t] /\ x # Nil
    BY <2>1 DEF Cached
  <2>3. infAt'[t] = x
    BY <1>2, <2>2, RemovalEffect DEF IInv
  <2> QED
    BY <2>2, <2>3 DEF Cached
<1> QED
  BY <1>1, <1>2 DEF EveryInformerIsHeld, CreatedAreAccountedFor

\* So does an addition: the informer it puts at s holds d, and if it put one
\* there, there was none before.
LEMMA AddInformerInv ==
    ASSUME IInv,
           NEW s \in Slots, NEW d \in UID, NEW i \in Inf, AddInformer(s, d, i)
    PROVE  EveryInformerIsHeld' /\ CreatedAreAccountedFor' /\ StoppedByItsWrapper'
<1>1. PICK x \in SI :
         /\ infAt' = [infAt EXCEPT ![s] = x]
         /\ \/ infAt[s] = x /\ UNCHANGED informer
            \/ /\ infAt[s] = Nil /\ informer[x] = Nil
               /\ informer' = [informer EXCEPT ![x] = i]
         /\ \A y \in SI : informer[y] # Nil => informer'[y] = informer[y]
         /\ dependents' = [dependents EXCEPT ![x] = @ \cup {d}]
         /\ UNCHANGED <<cancelled, stopCh>>
  BY AddInformerEffect DEF IInv
<1>2. Cached' = Cached \cup {x}
  BY <1>1, NilAssumption DEF Cached, IInv, TypeOK
<1>3. \A y \in SI : informer'[y] # Nil => y = x \/ informer[y] # Nil
  BY <1>1 DEF IInv, TypeOK, InformerTypeOK
<1>4. x \in SI /\ \A y \in Cached : y \in SI
  BY DEF Cached, IInv, TypeOK
<1>5. EveryInformerIsHeld'
  <2>1. dependents'[x] # {} /\ \A y \in SI : y # x => dependents'[y] = dependents[y]
    BY <1>1 DEF IInv, TypeOK, InformerTypeOK
  <2> QED
    BY <1>2, <1>4, <2>1 DEF EveryInformerIsHeld, IInv
<1>6. CreatedAreAccountedFor'
  BY <1>1, <1>2, <1>3 DEF CreatedAreAccountedFor, IInv
<1>7. StoppedByItsWrapper'
  BY <1>1, NilAssumption DEF StoppedByItsWrapper, IInv, TypeOK, InformerTypeOK
<1> QED
  BY <1>5, <1>6, <1>7

LEMMA InformerNextInv ==
    ASSUME IInv, InformerNext, UNCHANGED cacheVars
    PROVE  EveryInformerIsHeld' /\ CreatedAreAccountedFor' /\ StoppedByItsWrapper'
<1>1. EveryInformerIsHeld' /\ CreatedAreAccountedFor'
  BY InformerStepEffect DEF IInv, EveryInformerIsHeld, CreatedAreAccountedFor,
                            Cached, cacheVars, siVars
<1>2. ASSUME NEW x \in SI, Run(x) PROVE StoppedByItsWrapper'
  <2>1. UNCHANGED stopCh \/ stopCh' = [stopCh EXCEPT ![informer[x]] = x]
    BY <1>2 DEF Run
  <2>2. UNCHANGED informer
    BY <1>2 DEF Run, siVars
  <2> QED
    BY <2>1, <2>2 DEF StoppedByItsWrapper, IInv, TypeOK, InformerTypeOK
<1>3. ASSUME UNCHANGED <<informer, stopCh>> PROVE StoppedByItsWrapper'
  BY <1>3 DEF StoppedByItsWrapper, IInv
<1>4. \A i \in Inf : Stop(i) \/ Sync(i) \/ ChangePermission(i)
                       => UNCHANGED <<informer, stopCh>>
  BY DEF Stop, Sync, ChangePermission, siVars, infVars
<1>5. \A i \in Inf, err \in {"forbidden", "failed"} :
         WatchFails(i, err) => UNCHANGED <<informer, stopCh>>
  BY DEF WatchFails, siVars
<1>6. StoppedByItsWrapper'
  BY <1>2, <1>3, <1>4, <1>5 DEF InformerNext
<1> QED
  BY <1>1, <1>6

LEMMA NextInv == IInv /\ [Next]_vars => IInv'
<1> SUFFICES ASSUME IInv, [Next]_vars
             PROVE  EveryInformerIsHeld' /\ CreatedAreAccountedFor' /\ StoppedByItsWrapper'
  BY NextType DEF IInv
<1>1. ASSUME NEW s \in Slots, NEW d \in UID, NEW force \in ForceArgs(s),
             RemoveInformer(s, d, force)
      PROVE  EveryInformerIsHeld' /\ CreatedAreAccountedFor' /\ StoppedByItsWrapper'
  BY <1>1, RemovalInv DEF RemoveInformer, infVars, StoppedByItsWrapper, IInv
<1>2. CASE Start
  BY <1>2 DEF Start, siVars, infVars, IInv, EveryInformerIsHeld,
              CreatedAreAccountedFor, StoppedByItsWrapper, Cached
<1>3. CASE TerminateCache
  <2>1. \A x \in SI : cancelled[x] => cancelled'[x]
    BY <1>3, TerminateEffect DEF TerminateCache, IInv, TypeOK, InformerTypeOK
  <2> QED
    BY <1>3, <2>1 DEF TerminateCache, infVars, IInv, EveryInformerIsHeld,
                      CreatedAreAccountedFor, StoppedByItsWrapper, Cached
<1>4. ASSUME NEW i \in Inf, HandleWatchError(i)
      PROVE  EveryInformerIsHeld' /\ CreatedAreAccountedFor' /\ StoppedByItsWrapper'
  <2>1. UNCHANGED <<informer, stopCh>>
    BY <1>4 DEF HandleWatchError
  <2>2. CASE UNCHANGED <<namespaces, gvks, infAt, dependents, cancelled>>
    BY <2>1, <2>2 DEF IInv, EveryInformerIsHeld, CreatedAreAccountedFor,
                      StoppedByItsWrapper, Cached
  <2>3. ASSUME NEW d \in UID, Removal(watchErrorHandler[i], d, TRUE),
               watchErrorHandler[i] # Nil
        PROVE  EveryInformerIsHeld' /\ CreatedAreAccountedFor' /\ StoppedByItsWrapper'
    <3>1. watchErrorHandler[i] \in Slots
      BY <2>3 DEF IInv, TypeOK, InformerTypeOK
    <3> QED
      BY <2>1, <2>3, <3>1, RemovalInv DEF StoppedByItsWrapper, IInv
  <2> QED
    BY <1>4, <2>2, <2>3 DEF HandleWatchError
<1>5. CASE UNCHANGED vars
  BY <1>5 DEF vars, cacheVars, informerVars, siVars, infVars, IInv,
              EveryInformerIsHeld, CreatedAreAccountedFor,
              StoppedByItsWrapper, Cached
<1> QED
  BY <1>1, <1>2, <1>3, <1>4, <1>5, AddInformerInv, InformerNextInv
     DEF Next, CallerNext

\* The inductive invariant.
THEOREM Invariance == Spec => []IInv
<1>1. Init => IInv
  BY InitType DEF Init, InformerInit, IInv, EveryInformerIsHeld, Cached,
                  CreatedAreAccountedFor, StoppedByItsWrapper
<1> QED
  BY <1>1, NextInv, PTL DEF Spec

\* No informer stays in the cache without a dependent, whether its dependents
\* are taken off one at a time or watch error handlers interfere.
THEOREM InformersAreHeld == Spec => []EveryInformerIsHeld
<1>1. IInv => EveryInformerIsHeld
  BY DEF IInv
<1> QED
  BY <1>1, Invariance, PTL

\* Nothing that runs, or is about to, is out of reach: it is in the cache or
\* its context is cancelled.  This holds for informers shared between slots.
THEOREM NoWatchLeaks == Spec => []NoOrphanWatch
<1>1. IInv => NoOrphanWatch
  <2> SUFFICES ASSUME IInv, NEW x \in SI,
                      x \in goRun \/ \E i \in Inf : Live(i) /\ stopCh[i] = x
               PROVE  x \in Cached \/ cancelled[x]
    BY DEF NoOrphanWatch
  <2>1. CASE x \in goRun
    BY <2>1 DEF IInv, TypeOK, InformerTypeOK, CreatedAreAccountedFor
  <2>2. ASSUME NEW i \in Inf, stopCh[i] = x PROVE x \in Cached \/ cancelled[x]
    <3>1. informer[x] = i /\ i # Nil
      BY <2>2, NilAssumption DEF IInv, StoppedByItsWrapper
    <3> QED
      BY <3>1 DEF IInv, CreatedAreAccountedFor
  <2> QED
    BY <2>1, <2>2
<1> QED
  BY <1>1, Invariance, PTL

=============================================================================

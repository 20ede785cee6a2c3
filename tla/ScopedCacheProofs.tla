-------------------------- MODULE ScopedCacheProofs --------------------------
(***************************************************************************)
(* Theorems about the ScopedCache, for any numbers of informers, slots,    *)
(* dependents and requests: the types, which need what was proved of each  *)
(* cache to hold in the company of the other, and NoOrphanWatch.           *)
(*                                                                         *)
(* The two caches share the informers and nothing else, so that a step of  *)
(* one keeps the invariants of the other as long as it only creates        *)
(* ScopeInformers.  That is how the lemmas about each cache carry over.    *)
(***************************************************************************)
EXTENDS ScopedCache, TLAPS

\* What was proved of the two caches.  As far as the cluster cache can tell, no
\* informer has a watch error handler: it never reads or sets one.
NSP == INSTANCE NamespaceScopedCacheWatchProofs
       WITH Slots <- NsSlots, namespaces <- nsNamespaces, gvks <- nsGvks,
            infAt <- nsInfAt, started <- nsStarted
CLP == INSTANCE ClusterScopedCacheProofs
       WITH Slots <- ClSlots, gvks <- clGvks, infAt <- clInfAt,
            started <- clStarted, watchErrorHandler <- [i \in Inf |-> Nil]

-----------------------------------------------------------------------------
(* The operations that those proofs are about are the ones composed here.  *)

LEMMA NsRemovalIsItsOwn ==
    ASSUME NEW s, NEW d, NEW force, NS!Removal(s, d, force)
    PROVE  NSP!Removal(s, d, force)
BY DEF NS!Removal, NS!Without, NS!Deletes, NS!Terminate, NS!DeleteEmptyMaps,
       NS!NsGvk, NSP!Removal, NSP!Without, NSP!Deletes, NSP!Terminate,
       NSP!DeleteEmptyMaps, NSP!NsGvk

LEMMA NsAddInformerIsItsOwn ==
    ASSUME NEW s, NEW d, NEW i, NS!AddInformer(s, d, i)
    PROVE  NSP!AddInformer(s, d, i)
BY DEF NS!AddInformer, NS!Offered, NS!NewScopeInformer, NS!NsGvk,
       NS!AddDependent, NS!SetWatchErrorHandler, NS!RunIfStarted,
       NSP!AddInformer, NSP!Offered, NSP!NewScopeInformer, NSP!NsGvk,
       NSP!AddDependent, NSP!SetWatchErrorHandler, NSP!RunIfStarted

LEMMA NsRemoveInformerIsItsOwn ==
    ASSUME NEW s, NEW d, NEW force, NS!RemoveInformer(s, d, force)
    PROVE  NSP!RemoveInformer(s, d, force)
BY NsRemovalIsItsOwn DEF NS!RemoveInformer, NS!infVars, NSP!RemoveInformer, NSP!infVars

LEMMA NsHandleWatchErrorIsItsOwn ==
    ASSUME NEW i, NS!HandleWatchError(i)
    PROVE  NSP!HandleWatchError(i)
BY NsRemovalIsItsOwn DEF NS!HandleWatchError, NS!HandlerReturns,
                         NSP!HandleWatchError, NSP!HandlerReturns

LEMMA ClAddInformerIsItsOwn ==
    ASSUME NEW s, NEW d, NEW i, CL!AddInformer(s, d, i)
    PROVE  CLP!AddInformer(s, d, i)
BY DEF CL!AddInformer, CL!Offered, CL!NewScopeInformer, CL!AddDependent,
       CL!infVars, CLP!AddInformer, CLP!Offered, CLP!NewScopeInformer,
       CLP!AddDependent, CLP!infVars

LEMMA ClRemoveInformerIsItsOwn ==
    ASSUME NEW s, NEW d, NEW force, CL!RemoveInformer(s, d, force)
    PROVE  CLP!RemoveInformer(s, d, force)
BY DEF CL!RemoveInformer, CL!Without, CL!Deletes, CL!Terminate,
       CL!DeleteEmptyMap, CL!infVars, CLP!RemoveInformer, CLP!Without,
       CLP!Deletes, CLP!Terminate, CLP!DeleteEmptyMap, CLP!infVars

LEMMA StartIsItsOwn ==
    /\ NS!Start => NSP!Start
    /\ CL!Start => CLP!Start
BY DEF NS!Start, NS!Cached, NS!siVars, NS!infVars, NSP!Start, NSP!Cached,
       NSP!siVars, NSP!infVars, CL!Start, CL!Cached, CL!siVars, CL!infVars,
       CLP!Start, CLP!Cached, CLP!siVars, CLP!infVars

LEMMA InformerNextIsItsOwn ==
    InformerNext => NSP!InformerNext /\ CLP!InformerNext
BY DEF InformerNext, Run, Stop, Sync, WatchFails, ChangePermission, siVars, infVars,
       NSP!InformerNext, NSP!Run, NSP!Stop, NSP!Sync, NSP!WatchFails,
       NSP!ChangePermission, NSP!siVars, NSP!infVars,
       CLP!InformerNext, CLP!Run, CLP!Stop, CLP!Sync, CLP!WatchFails,
       CLP!ChangePermission, CLP!siVars, CLP!infVars

LEMMA IgnoreWatchErrorIsItsOwn ==
    ASSUME NEW i, CL!IgnoreWatchError(i)
    PROVE  CLP!IgnoreWatchError(i)
BY DEF CL!IgnoreWatchError, CL!HandlerReturns, CLP!IgnoreWatchError,
       CLP!HandlerReturns

-----------------------------------------------------------------------------
(* The two caches together.                                                *)

\* Each cache is as it would be alone, and no ScopeInformer is in both.
CachesTypeOK ==
    /\ NSP!TypeOK
    /\ CLP!TypeOK
    /\ \A s \in NsSlots, t \in ClSlots : nsInfAt[s] = clInfAt[t] => nsInfAt[s] = Nil

CachesOK ==
    /\ CachesTypeOK
    /\ NSP!NoEmptyMaps
    /\ CLP!NoEmptyMaps

LEMMA SlotsArePartitioned ==
    /\ \A s \in NsSlots : s \in Slots /\ s \notin ClSlots
    /\ \A s \in ClSlots : s \in Slots /\ s \notin NsSlots
    /\ \A s \in Slots : s \in NsSlots \/ s \in ClSlots
BY DEF NsSlots, ClSlots

\* What it says of InformerAt, and of ScopeInformers.
LEMMA CachesTypes ==
    ASSUME CachesTypeOK
    PROVE  /\ InformerTypeOK
           /\ watchErrorHandler \in [Inf -> NsSlots \cup {Nil}]
           /\ nsInfAt \in [NsSlots -> SI \cup {Nil}]
           /\ clInfAt \in [ClSlots -> SI \cup {Nil}]
           /\ nsStarted \in BOOLEAN /\ clStarted \in BOOLEAN
           /\ \A s \in Slots : InformerAt(s) # Nil =>
                 InformerAt(s) \in SI /\ informer[InformerAt(s)] \in Inf
           /\ \A s, t \in Occupied : InformerAt(s) = InformerAt(t) => s = t
<1>1. InformerTypeOK /\ watchErrorHandler \in [Inf -> NsSlots \cup {Nil}]
  BY SlotsArePartitioned
     DEF CachesTypeOK, NSP!TypeOK, NSP!InformerTypeOK, NSP!Phase, InformerTypeOK, Phase
<1>2. /\ nsInfAt \in [NsSlots -> SI \cup {Nil}]
      /\ clInfAt \in [ClSlots -> SI \cup {Nil}]
      /\ nsStarted \in BOOLEAN /\ clStarted \in BOOLEAN
  BY DEF CachesTypeOK, NSP!TypeOK, CLP!TypeOK
<1>3. ASSUME NEW s \in Slots, InformerAt(s) # Nil
      PROVE  InformerAt(s) \in SI /\ informer[InformerAt(s)] \in Inf
  BY <1>1, <1>2, <1>3, SlotsArePartitioned
     DEF CachesTypeOK, NSP!TypeOK, CLP!TypeOK, InformerAt, InformerTypeOK
<1>4. ASSUME NEW s \in Occupied, NEW t \in Occupied, InformerAt(s) = InformerAt(t)
      PROVE  s = t
  BY <1>4, SlotsArePartitioned
     DEF CachesTypeOK, NSP!TypeOK, CLP!TypeOK, InformerAt, Occupied
<1> QED
  BY <1>1, <1>2, <1>3, <1>4

\* What a cache does not take part in leaves it in order, if no ScopeInformer
\* that it has becomes unused.
LEMMA NsStandsBy ==
    ASSUME NSP!TypeOK, UNCHANGED nsVars, NSP!InformerTypeOK',
           \A x \in SI : informer[x] # Nil => informer'[x] # Nil
    PROVE  NSP!TypeOK'
BY DEF NSP!TypeOK, NSP!NsGvk, nsVars

LEMMA ClStandsBy ==
    ASSUME CLP!TypeOK, UNCHANGED clVars, CLP!InformerTypeOK',
           \A x \in SI : informer[x] # Nil => informer'[x] # Nil
    PROVE  CLP!TypeOK'
BY DEF CLP!TypeOK, clVars

\* They speak of the same informers.
LEMMA SameInformers ==
    /\ NSP!InformerTypeOK' => CLP!InformerTypeOK'
    /\ CachesTypeOK /\ CLP!InformerTypeOK' /\ UNCHANGED watchErrorHandler
          => NSP!InformerTypeOK'
BY DEF CachesTypeOK, NSP!TypeOK, NSP!InformerTypeOK, CLP!InformerTypeOK,
       NSP!Phase, CLP!Phase

-----------------------------------------------------------------------------
(* What the operations do.                                                 *)

\* Some x is at s, which was there before or is new; every other slot keeps
\* what it had, and x is run if its cache is started.
LEMMA AddInformerEffect ==
    ASSUME CachesTypeOK,
           NEW s \in Slots, NEW d \in UID, NEW i \in Inf, AddInformer(s, d, i)
    PROVE  \E x \in SI :
              /\ InformerAt(s)' = x
              /\ \A t \in Slots : t # s => InformerAt(t)' = InformerAt(t)
              /\ \/ InformerAt(s) = x /\ UNCHANGED informer
                 \/ /\ InformerAt(s) = Nil /\ informer[x] = Nil
                    /\ i \in Shared \/ \A y \in SI : informer[y] # i
                    /\ informer' = [informer EXCEPT ![x] = i]
              /\ \A y \in SI : informer[y] # Nil => informer'[y] = informer[y]
              /\ goRun' = IF (IF s \in NsSlots THEN nsStarted ELSE clStarted)
                          THEN goRun \cup {x} ELSE goRun
              /\ UNCHANGED <<nsStarted, clStarted, cancelled, phase, stopCh, synced>>
<1>1. CASE s \in NsSlots
  <2>1. NSP!AddInformer(s, d, i) /\ UNCHANGED clVars
    BY <1>1, SlotsArePartitioned, NsAddInformerIsItsOwn DEF AddInformer
  <2>2. PICK x \in SI :
           /\ nsInfAt' = [nsInfAt EXCEPT ![s] = x]
           /\ \/ nsInfAt[s] = x /\ UNCHANGED informer
              \/ /\ nsInfAt[s] = Nil /\ informer[x] = Nil /\ i \in NSP!Offered
                 /\ informer' = [informer EXCEPT ![x] = i]
           /\ \A y \in SI : informer[y] # Nil => informer'[y] = informer[y]
           /\ NSP!RunIfStarted(x)
           /\ UNCHANGED <<nsStarted, cancelled, phase, stopCh, synced>>
    BY <1>1, <2>1, NSP!AddInformerEffect, NilAssumption, SlotsAssumption,
       SlotsArePartitioned DEF CachesTypeOK
  <2> QED
    BY <1>1, <2>1, <2>2, CachesTypes, SlotsArePartitioned
       DEF InformerAt, clVars, NSP!RunIfStarted, NSP!Offered
<1>2. CASE s \in ClSlots
  <2>1. CLP!AddInformer(s, d, i) /\ UNCHANGED nsVars
    BY <1>2, SlotsArePartitioned, ClAddInformerIsItsOwn DEF AddInformer
  <2>2. PICK x \in SI :
           /\ clInfAt' = [clInfAt EXCEPT ![s] = x]
           /\ \/ clInfAt[s] = x /\ UNCHANGED informer
              \/ /\ clInfAt[s] = Nil /\ informer[x] = Nil /\ i \in CLP!Offered
                 /\ informer' = [informer EXCEPT ![x] = i]
           /\ \A y \in SI : informer[y] # Nil => informer'[y] = informer[y]
           /\ goRun' = IF clStarted THEN goRun \cup {x} ELSE goRun
           /\ UNCHANGED <<clStarted, cancelled, phase, stopCh, synced>>
    BY <1>2, <2>1, CLP!AddInformerEffect, NilAssumption, SlotsAssumption,
       SlotsArePartitioned DEF CachesTypeOK
  <2> QED
    BY <1>2, <2>1, <2>2, CachesTypes, SlotsArePartitioned
       DEF InformerAt, nsVars, CLP!Offered
<1> QED
  BY <1>1, <1>2, SlotsArePartitioned

\* A slot is emptied, if anything, and what it loses is cancelled.
Leaves(s) ==
    /\ InformerAt(s)' \in {InformerAt(s), Nil}
    /\ \A t \in Slots : t # s => InformerAt(t)' = InformerAt(t)
    /\ cancelled' \in [SI -> BOOLEAN]
    /\ \A x \in SI : cancelled'[x] <=>
          cancelled[x] \/ (x = InformerAt(s) /\ InformerAt(s)' = Nil)

LEMMA RemovalEffect ==
    ASSUME CachesTypeOK, NEW s \in NsSlots, NEW d, NEW force,
           NSP!Removal(s, d, force), UNCHANGED clVars
    PROVE  Leaves(s)
BY NSP!RemovalEffect, CachesTypes, NilAssumption, SlotsAssumption, SlotsArePartitioned
   DEF Leaves, InformerAt, clVars, CachesTypeOK

LEMMA RemoveInformerEffect ==
    ASSUME CachesTypeOK, NEW s \in Slots, NEW d, NEW force,
           RemoveInformer(s, d, force)
    PROVE  /\ Leaves(s)
           /\ UNCHANGED <<nsStarted, clStarted, informer, goRun, phase, stopCh,
                          watchErrorHandler, synced>>
<1>1. CASE s \in NsSlots
  <2>1. /\ NSP!Removal(s, d, force) /\ UNCHANGED clVars
        /\ UNCHANGED <<nsStarted, informer, goRun, phase, stopCh,
                       watchErrorHandler, synced>>
    BY <1>1, SlotsArePartitioned, NsRemovalIsItsOwn
       DEF RemoveInformer, NS!RemoveInformer, NS!infVars
  <2> QED
    BY <1>1, <2>1, RemovalEffect DEF clVars
<1>2. CASE s \in ClSlots
  <2>1. CLP!RemoveInformer(s, d, force) /\ UNCHANGED <<nsVars, watchErrorHandler>>
    BY <1>2, SlotsArePartitioned, ClRemoveInformerIsItsOwn
       DEF RemoveInformer, CL!RemoveInformer, CL!infVars
  <2>2. /\ cancelled' \in [SI -> BOOLEAN]
        /\ \A x \in SI : x # clInfAt[s] => cancelled'[x] = cancelled[x]
        /\ \A t \in ClSlots : t # s => clInfAt'[t] = clInfAt[t]
        /\ \/ clInfAt[s] = Nil /\ UNCHANGED <<clInfAt, cancelled>>
           \/ clInfAt[s] # Nil /\ clInfAt'[s] = Nil /\ cancelled'[clInfAt[s]]
           \/ clInfAt[s] # Nil /\ UNCHANGED <<clInfAt, cancelled>>
        /\ UNCHANGED <<clStarted, informer, goRun, phase, stopCh, synced>>
    BY <1>2, <2>1, CLP!RemoveInformerEffect, NilAssumption, SlotsAssumption,
       SlotsArePartitioned DEF CachesTypeOK
  <2>3. \A x \in SI : cancelled'[x] <=>
           cancelled[x] \/ (x = clInfAt[s] /\ clInfAt'[s] = Nil)
    BY <2>2, NilAssumption
  <2>4. Leaves(s)
    BY <1>2, <2>1, <2>2, <2>3, SlotsArePartitioned DEF Leaves, InformerAt, nsVars
  <2> QED
    BY <2>1, <2>2, <2>4 DEF nsVars
<1> QED
  BY <1>1, <1>2, SlotsArePartitioned

\* A watch error handler removes at most the informer at one slot, of the
\* namespace cache.
LEMMA OnWatchErrorEffect ==
    ASSUME CachesTypeOK, NEW i \in Inf, OnWatchError(i)
    PROVE  /\ \/ \E s \in NsSlots : Leaves(s)
              \/ UNCHANGED <<nsInfAt, clInfAt, cancelled>>
           /\ phase[i] \in {"forbidden", "failed"}
           /\ phase' = [phase EXCEPT ![i] = IF cancelled'[stopCh[i]]
                                            THEN "stopped" ELSE "running"]
           /\ UNCHANGED <<nsStarted, clStarted, clVars, informer, goRun, stopCh,
                          watchErrorHandler, synced>>
<1>1. ASSUME NS!HandleWatchError(i), watchErrorHandler[i] # Nil, UNCHANGED clVars
      PROVE  /\ \/ \E s \in NsSlots : Leaves(s)
                \/ UNCHANGED <<nsInfAt, clInfAt, cancelled>>
  <2>1. watchErrorHandler[i] \in NsSlots
    BY <1>1, CachesTypes
  <2>2. \/ \E d \in UID : NSP!Removal(watchErrorHandler[i], d, TRUE)
        \/ UNCHANGED <<nsInfAt, cancelled>>
    BY <1>1, NsRemovalIsItsOwn DEF NS!HandleWatchError
  <2> QED
    BY <1>1, <2>1, <2>2, RemovalEffect DEF clVars
<1>2. ASSUME CL!IgnoreWatchError(i), UNCHANGED <<nsVars, clVars>>
      PROVE  UNCHANGED <<nsInfAt, clInfAt, cancelled>>
  BY <1>2 DEF CL!IgnoreWatchError, nsVars, clVars
<1>3. /\ \/ \E s \in NsSlots : Leaves(s)
         \/ UNCHANGED <<nsInfAt, clInfAt, cancelled>>
  BY <1>1, <1>2 DEF OnWatchError
<1>4. /\ phase[i] \in {"forbidden", "failed"}
      /\ phase' = [phase EXCEPT ![i] = IF cancelled'[stopCh[i]]
                                       THEN "stopped" ELSE "running"]
      /\ UNCHANGED <<nsStarted, clStarted, clVars, informer, goRun, stopCh,
                     watchErrorHandler, synced>>
  BY DEF OnWatchError, NS!HandleWatchError, NS!HandlerReturns, CL!IgnoreWatchError,
         CL!HandlerReturns, nsVars, clVars
<1> QED
  BY <1>3, <1>4

\* Whatever happens to the caches, request or not.
CacheStep ==
    \/ \E s \in Slots, d \in UID, i \in Inf : AddInformer(s, d, i)
    \/ \E s \in Slots, d \in UID \cup {Nil}, force \in BOOLEAN :
          RemoveInformer(s, d, force)
    \/ StartCluster
    \/ StartNamespaces
    \/ \E i \in Inf : OnWatchError(i)
    \/ InformerNext /\ UNCHANGED <<nsVars, clVars>>
    \/ UNCHANGED cacheVars

\* A start changes nothing that is in a cache, but it runs it.
LEMMA StartEffect ==
    ASSUME StartCluster \/ StartNamespaces
    PROVE  /\ UNCHANGED <<nsNamespaces, nsGvks, nsInfAt, clGvks, clInfAt, siVars,
                          infVars>>
           /\ \/ /\ clStarted' = TRUE /\ UNCHANGED nsStarted
                 /\ goRun' = goRun \cup CL!Cached
              \/ /\ nsStarted' = TRUE /\ UNCHANGED clStarted
                 /\ goRun' = goRun \cup NS!Cached
BY DEF StartCluster, StartNamespaces, CL!Start, NS!Start, nsVars, clVars, siVars,
       infVars, CL!siVars, NS!siVars, CL!infVars, NS!infVars

\* The goroutines of informers create nothing and cancel nothing.
LEMMA InformerStepEffect ==
    ASSUME InformerNext
    PROVE  UNCHANGED <<siVars, watchErrorHandler>>
BY DEF InformerNext, Run, Stop, Sync, WatchFails, ChangePermission, siVars, infVars

\* Whether there are ScopeInformers at the same slots.
SameSlots == \A s \in Slots : InformerAt(s)' = InformerAt(s)

LEMMA SameSlotsIfUnchanged ==
    ASSUME UNCHANGED <<nsInfAt, clInfAt>> PROVE SameSlots
BY DEF SameSlots, InformerAt

\* What no step undoes: a wrapper stays with its informer, a context stays
\* cancelled, what has synced or stopped has done so, and a ScopeInformer leaves
\* its slot cancelled, and before another one gets it.
LEMMA Permanent ==
    ASSUME CachesTypeOK, CacheStep
    PROVE  /\ \A x \in SI : informer[x] # Nil => informer'[x] = informer[x]
           /\ \A x \in SI : cancelled[x] => cancelled'[x]
           /\ \A i \in Inf : synced[i] => synced'[i]
           /\ \A i \in Inf : phase[i] # "idle" =>
                 phase'[i] # "idle" /\ stopCh'[i] = stopCh[i]
           /\ \A i \in Inf : phase[i] = "stopped" => phase'[i] = "stopped"
           /\ \A s \in Slots : InformerAt(s) # Nil /\ InformerAt(s)' # InformerAt(s)
                 => InformerAt(s)' = Nil /\ cancelled'[InformerAt(s)]
<1> DEFINE Goal ==
      /\ \A x \in SI : informer[x] # Nil => informer'[x] = informer[x]
      /\ \A x \in SI : cancelled[x] => cancelled'[x]
      /\ \A i \in Inf : synced[i] => synced'[i]
      /\ \A i \in Inf : phase[i] # "idle" =>
            phase'[i] # "idle" /\ stopCh'[i] = stopCh[i]
      /\ \A i \in Inf : phase[i] = "stopped" => phase'[i] = "stopped"
      /\ \A s \in Slots : InformerAt(s) # Nil /\ InformerAt(s)' # InformerAt(s)
            => InformerAt(s)' = Nil /\ cancelled'[InformerAt(s)]
<1>1. ASSUME NEW s \in Slots, NEW d \in UID, NEW i \in Inf, AddInformer(s, d, i)
      PROVE  Goal
  BY <1>1, AddInformerEffect
<1>2. ASSUME NEW s \in Slots, Leaves(s)
      PROVE  /\ \A x \in SI : cancelled[x] => cancelled'[x]
             /\ \A t \in Slots : InformerAt(t) # Nil /\ InformerAt(t)' # InformerAt(t)
                   => InformerAt(t)' = Nil /\ cancelled'[InformerAt(t)]
  BY <1>2, CachesTypes DEF Leaves
<1>3. ASSUME NEW s \in Slots, NEW d \in UID \cup {Nil}, NEW force \in BOOLEAN,
             RemoveInformer(s, d, force)
      PROVE  Goal
  BY <1>2, <1>3, RemoveInformerEffect
<1>4. CASE StartCluster \/ StartNamespaces
  BY <1>4, StartEffect, SameSlotsIfUnchanged DEF SameSlots, siVars, infVars
<1>5. ASSUME NEW i \in Inf, OnWatchError(i) PROVE Goal
  <2>1. /\ \A x \in SI : cancelled[x] => cancelled'[x]
        /\ \A t \in Slots : InformerAt(t) # Nil /\ InformerAt(t)' # InformerAt(t)
              => InformerAt(t)' = Nil /\ cancelled'[InformerAt(t)]
    BY <1>2, <1>5, OnWatchErrorEffect, SlotsArePartitioned, SameSlotsIfUnchanged
       DEF SameSlots
  <2>2. \A j \in Inf : /\ phase[j] # "idle" => phase'[j] # "idle"
                       /\ phase[j] = "stopped" => phase'[j] = "stopped"
    BY <1>5, OnWatchErrorEffect, CachesTypes DEF InformerTypeOK
  <2> QED
    BY <1>5, <2>1, <2>2, OnWatchErrorEffect
<1>6. CASE InformerNext /\ UNCHANGED <<nsVars, clVars>>
  <2>1. UNCHANGED <<informer, cancelled>> /\ SameSlots
    BY <1>6, InformerStepEffect, SameSlotsIfUnchanged DEF siVars, nsVars, clVars
  <2>2. \A i \in Inf :
           /\ phase[i] # "idle" => phase'[i] # "idle" /\ stopCh'[i] = stopCh[i]
           /\ phase[i] = "stopped" => phase'[i] = "stopped"
    BY <1>6, CachesTypes DEF InformerNext, Run, Stop, Sync, WatchFails,
             ChangePermission, infVars, InformerTypeOK
  <2>3. \A i \in Inf : synced[i] => synced'[i]
    BY <1>6, CachesTypes DEF InformerNext, Run, Stop, Sync, WatchFails,
             ChangePermission, infVars, InformerTypeOK
  <2> QED
    BY <2>1, <2>2, <2>3 DEF SameSlots
<1>7. CASE UNCHANGED cacheVars
  BY <1>7, SameSlotsIfUnchanged
     DEF cacheVars, nsVars, clVars, informerVars, siVars, infVars, SameSlots
<1> QED
  BY <1>1, <1>3, <1>4, <1>5, <1>6, <1>7 DEF CacheStep

-----------------------------------------------------------------------------
(* Types.                                                                  *)

\* No ScopeInformer is at two slots, of whichever caches.
Apart == \A s, t \in Occupied : InformerAt(s) = InformerAt(t) => s = t

LEMMA ApartInAStep ==
    /\ CachesTypeOK => Apart
    /\ NSP!TypeOK' /\ CLP!TypeOK' /\ Apart' => CachesTypeOK'
<1>1. CachesTypeOK => Apart
  BY CachesTypes DEF Apart
<1>2. NSP!TypeOK' /\ CLP!TypeOK' /\ Apart' => CachesTypeOK'
  BY SlotsArePartitioned DEF CachesTypeOK, Apart, Occupied, InformerAt
<1> QED
  BY <1>1, <1>2

LEMMA AddInformerTypes ==
    ASSUME CachesTypeOK,
           NEW s \in Slots, NEW d \in UID, NEW i \in Inf, AddInformer(s, d, i)
    PROVE  CachesTypeOK'
<1>1. PICK x \in SI :
         /\ InformerAt(s)' = x
         /\ \A t \in Slots : t # s => InformerAt(t)' = InformerAt(t)
         /\ InformerAt(s) = x \/ informer[x] = Nil
         /\ \A y \in SI : informer[y] # Nil => informer'[y] = informer[y]
  BY AddInformerEffect
<1>2. Apart'
  <2> SUFFICES ASSUME NEW t \in Slots, NEW u \in Slots, InformerAt(t)' # Nil,
                      InformerAt(t)' = InformerAt(u)'
               PROVE  t = u
    BY DEF Apart, Occupied
  <2>1. ASSUME NEW w \in Slots, InformerAt(w) = x PROVE w = s
    BY <1>1, <2>1, CachesTypes, NilAssumption DEF Occupied
  <2> QED
    BY <1>1, <2>1, CachesTypes DEF Occupied
<1>3. CASE s \in NsSlots
  <2>1. NSP!AddInformer(s, d, i) /\ UNCHANGED clVars
    BY <1>3, SlotsArePartitioned, NsAddInformerIsItsOwn DEF AddInformer
  <2>2. NSP!TypeOK'
    BY <1>3, <2>1, NSP!AddInformerType, NilAssumption, SlotsAssumption,
       SlotsArePartitioned DEF CachesTypeOK
  <2>3. CLP!InformerTypeOK'
    BY <2>2, SameInformers DEF NSP!TypeOK
  <2>4. CLP!TypeOK'
    BY <1>1, <2>1, <2>3, ClStandsBy DEF CachesTypeOK
  <2> QED
    BY <1>2, <2>2, <2>4, ApartInAStep
<1>4. CASE s \in ClSlots
  <2>1. CLP!AddInformer(s, d, i) /\ UNCHANGED <<nsVars, watchErrorHandler>>
    BY <1>4, SlotsArePartitioned, ClAddInformerIsItsOwn
       DEF AddInformer, CL!AddInformer, CL!infVars
  <2>2. CLP!TypeOK'
    BY <1>4, <2>1, CLP!AddInformerType, NilAssumption, SlotsAssumption,
       SlotsArePartitioned DEF CachesTypeOK
  <2>3. NSP!InformerTypeOK'
    BY <2>1, <2>2, SameInformers DEF CLP!TypeOK
  <2>4. NSP!TypeOK'
    BY <1>1, <2>1, <2>3, NsStandsBy DEF CachesTypeOK
  <2> QED
    BY <1>2, <2>2, <2>4, ApartInAStep
<1> QED
  BY <1>3, <1>4, SlotsArePartitioned

LEMMA RemoveInformerTypes ==
    ASSUME CachesTypeOK, NEW s \in Slots, NEW d, NEW force,
           RemoveInformer(s, d, force)
    PROVE  NSP!TypeOK' /\ CLP!TypeOK'
<1>1. UNCHANGED informer
  BY RemoveInformerEffect
<1>2. CASE s \in NsSlots
  <2>1. NSP!RemoveInformer(s, d, force) /\ UNCHANGED clVars
    BY <1>2, SlotsArePartitioned, NsRemoveInformerIsItsOwn DEF RemoveInformer
  <2>2. NSP!TypeOK'
    BY <1>2, <2>1, NSP!RemoveInformerType, NilAssumption, SlotsAssumption,
       SlotsArePartitioned DEF CachesTypeOK
  <2>3. CLP!InformerTypeOK'
    BY <2>2, SameInformers DEF NSP!TypeOK
  <2> QED
    BY <1>1, <2>1, <2>2, <2>3, ClStandsBy DEF CachesTypeOK
<1>3. CASE s \in ClSlots
  <2>1. CLP!RemoveInformer(s, d, force) /\ UNCHANGED <<nsVars, watchErrorHandler>>
    BY <1>3, SlotsArePartitioned, ClRemoveInformerIsItsOwn
       DEF RemoveInformer, CL!RemoveInformer, CL!infVars
  <2>2. CLP!TypeOK'
    BY <1>3, <2>1, CLP!RemoveInformerType, NilAssumption, SlotsAssumption,
       SlotsArePartitioned DEF CachesTypeOK
  <2>3. NSP!InformerTypeOK'
    BY <2>1, <2>2, SameInformers DEF CLP!TypeOK
  <2> QED
    BY <1>1, <2>1, <2>2, <2>3, NsStandsBy DEF CachesTypeOK
<1> QED
  BY <1>2, <1>3, SlotsArePartitioned

\* A handler of the namespace cache, or client-go's own.
LEMMA OnWatchErrorTypes ==
    ASSUME CachesTypeOK, NEW i \in Inf, OnWatchError(i)
    PROVE  NSP!TypeOK' /\ CLP!TypeOK'
<1>1. UNCHANGED <<informer, clVars>>
  BY OnWatchErrorEffect
<1>2. NSP!HandleWatchError(i)
  <2>1. CASE NS!HandleWatchError(i)
    BY <2>1, NsHandleWatchErrorIsItsOwn
  <2>2. CASE watchErrorHandler[i] = Nil /\ CL!IgnoreWatchError(i) /\ UNCHANGED nsVars
    BY <2>2 DEF CL!IgnoreWatchError, CL!HandlerReturns, NSP!HandleWatchError,
                NSP!HandlerReturns, nsVars
  <2> QED
    BY <2>1, <2>2 DEF OnWatchError
<1>3. NSP!TypeOK'
  BY <1>2, NSP!HandleWatchErrorType, NilAssumption, SlotsAssumption,
     SlotsArePartitioned DEF CachesTypeOK
<1>4. CLP!InformerTypeOK'
  BY <1>3, SameInformers DEF NSP!TypeOK
<1> QED
  BY <1>1, <1>3, <1>4, ClStandsBy DEF CachesTypeOK

LEMMA StartTypes ==
    ASSUME CachesTypeOK, StartCluster \/ StartNamespaces
    PROVE  NSP!TypeOK' /\ CLP!TypeOK'
<1>1. UNCHANGED <<informer, watchErrorHandler>>
  BY StartEffect DEF siVars, infVars
<1>2. CASE StartCluster
  <2>1. CLP!Start /\ UNCHANGED nsVars
    BY <1>2, StartIsItsOwn DEF StartCluster
  <2>2. CLP!TypeOK'
    BY <2>1, CLP!StartType, NilAssumption, SlotsAssumption, SlotsArePartitioned
       DEF CachesTypeOK
  <2>3. NSP!InformerTypeOK'
    BY <1>1, <2>2, SameInformers DEF CLP!TypeOK
  <2> QED
    BY <1>1, <2>1, <2>2, <2>3, NsStandsBy DEF CachesTypeOK
<1>3. CASE StartNamespaces
  <2>1. NSP!Start /\ UNCHANGED clVars
    BY <1>3, StartIsItsOwn DEF StartNamespaces
  <2>2. NSP!TypeOK'
    BY <2>1, NSP!NextType, NilAssumption, SlotsAssumption, SlotsArePartitioned
       DEF CachesTypeOK, NSP!Next, NSP!CallerNext
  <2>3. CLP!InformerTypeOK'
    BY <2>2, SameInformers DEF NSP!TypeOK
  <2> QED
    BY <1>1, <2>1, <2>2, <2>3, ClStandsBy DEF CachesTypeOK
<1> QED
  BY <1>2, <1>3

LEMMA InformerNextTypes ==
    ASSUME CachesTypeOK, InformerNext, UNCHANGED <<nsVars, clVars>>
    PROVE  NSP!TypeOK' /\ CLP!TypeOK'
<1>1. NSP!TypeOK'
  BY NSP!InformerNextType, InformerNextIsItsOwn, NilAssumption, SlotsAssumption,
     SlotsArePartitioned DEF CachesTypeOK, NSP!cacheVars, nsVars
<1>2. CLP!InformerTypeOK'
  BY <1>1, SameInformers DEF NSP!TypeOK
<1> QED
  BY <1>1, <1>2, ClStandsBy, InformerStepEffect DEF CachesTypeOK, siVars

LEMMA StepTypes == CachesTypeOK /\ CacheStep => CachesTypeOK'
<1> SUFFICES ASSUME CachesTypeOK, CacheStep PROVE CachesTypeOK'
  OBVIOUS
\* Where nothing is added, it is enough that every slot keeps what it has or
\* loses it.
<1>1. ASSUME NSP!TypeOK', CLP!TypeOK',
             \A s \in Slots : InformerAt(s)' \in {InformerAt(s), Nil}
      PROVE  CachesTypeOK'
  <2>1. Apart'
    BY <1>1, CachesTypes DEF Apart, Occupied
  <2> QED
    BY <1>1, <2>1, ApartInAStep
<1>2. ASSUME NEW s \in Slots, NEW d \in UID \cup {Nil}, NEW force \in BOOLEAN,
             RemoveInformer(s, d, force)
      PROVE  CachesTypeOK'
  BY <1>1, <1>2, RemoveInformerTypes, RemoveInformerEffect DEF Leaves
<1>3. CASE StartCluster \/ StartNamespaces
  BY <1>1, <1>3, StartTypes, StartEffect, SameSlotsIfUnchanged DEF SameSlots
<1>4. ASSUME NEW i \in Inf, OnWatchError(i) PROVE CachesTypeOK'
  BY <1>1, <1>4, OnWatchErrorTypes, OnWatchErrorEffect, SameSlotsIfUnchanged,
     SlotsArePartitioned DEF SameSlots, Leaves
<1>5. CASE InformerNext /\ UNCHANGED <<nsVars, clVars>>
  BY <1>1, <1>5, InformerNextTypes, SameSlotsIfUnchanged DEF SameSlots, nsVars, clVars
<1>6. CASE UNCHANGED cacheVars
  <2>1. NSP!TypeOK'
    BY <1>6 DEF cacheVars, nsVars, informerVars, siVars, infVars, CachesTypeOK,
                NSP!TypeOK, NSP!InformerTypeOK, NSP!NsGvk
  <2>2. CLP!InformerTypeOK'
    BY <2>1, SameInformers DEF NSP!TypeOK
  <2>3. CLP!TypeOK'
    BY <1>6, <2>2, ClStandsBy DEF cacheVars, informerVars, siVars, CachesTypeOK
  <2> QED
    BY <1>1, <1>6, <2>1, <2>3, SameSlotsIfUnchanged
       DEF SameSlots, cacheVars, nsVars, clVars
<1> QED
  BY <1>2, <1>3, <1>4, <1>5, <1>6, AddInformerTypes DEF CacheStep

-----------------------------------------------------------------------------
(* The maps.                                                               *)

\* A step of one cache does not touch the map of the other.
LEMMA StepMaps == CachesOK /\ CacheStep => NSP!NoEmptyMaps' /\ CLP!NoEmptyMaps'
<1> SUFFICES ASSUME CachesOK, CacheStep PROVE NSP!NoEmptyMaps' /\ CLP!NoEmptyMaps'
  OBVIOUS
<1>1. UNCHANGED <<nsNamespaces, nsGvks, nsInfAt>> => NSP!NoEmptyMaps'
  BY DEF CachesOK, NSP!NoEmptyMaps, NSP!NsGvk
<1>2. UNCHANGED <<clGvks, clInfAt>> => CLP!NoEmptyMaps'
  BY DEF CachesOK, CLP!NoEmptyMaps
<1>3. ASSUME NEW s \in NsSlots, NEW d, NEW force, NSP!Removal(s, d, force)
      PROVE  NSP!NoEmptyMaps'
  BY <1>3, NSP!RemovalMaps, NilAssumption, SlotsAssumption, SlotsArePartitioned
     DEF CachesOK, CachesTypeOK
<1>4. ASSUME NEW s \in Slots, NEW d \in UID, NEW i \in Inf, AddInformer(s, d, i)
      PROVE  NSP!NoEmptyMaps' /\ CLP!NoEmptyMaps'
  <2>1. CASE s \in NsSlots
    <3>1. NSP!AddInformer(s, d, i) /\ UNCHANGED clVars
      BY <1>4, <2>1, SlotsArePartitioned, NsAddInformerIsItsOwn DEF AddInformer
    <3>2. NSP!NoEmptyMaps'
      BY <2>1, <3>1, NSP!AddInformerMaps, NilAssumption, SlotsAssumption,
         SlotsArePartitioned DEF CachesOK, CachesTypeOK
    <3> QED
      BY <1>2, <3>1, <3>2 DEF clVars
  <2>2. CASE s \in ClSlots
    <3>1. CLP!AddInformer(s, d, i) /\ UNCHANGED nsVars
      BY <1>4, <2>2, SlotsArePartitioned, ClAddInformerIsItsOwn DEF AddInformer
    <3>2. CLP!NoEmptyMaps'
      BY <2>2, <3>1, CLP!AddInformerMaps, NilAssumption, SlotsAssumption,
         SlotsArePartitioned DEF CachesOK, CachesTypeOK
    <3> QED
      BY <1>1, <3>1, <3>2 DEF nsVars
  <2> QED
    BY <2>1, <2>2, SlotsArePartitioned
<1>5. ASSUME NEW s \in Slots, NEW d \in UID \cup {Nil}, NEW force \in BOOLEAN,
             RemoveInformer(s, d, force)
      PROVE  NSP!NoEmptyMaps' /\ CLP!NoEmptyMaps'
  <2>1. CASE s \in NsSlots
    <3>1. NSP!Removal(s, d, force) /\ UNCHANGED clVars
      BY <1>5, <2>1, SlotsArePartitioned, NsRemovalIsItsOwn
         DEF RemoveInformer, NS!RemoveInformer
    <3> QED
      BY <1>2, <1>3, <2>1, <3>1 DEF clVars
  <2>2. CASE s \in ClSlots
    <3>1. CLP!RemoveInformer(s, d, force) /\ UNCHANGED nsVars
      BY <1>5, <2>2, SlotsArePartitioned, ClRemoveInformerIsItsOwn DEF RemoveInformer
    <3>2. CLP!NoEmptyMaps'
      BY <2>2, <3>1, CLP!RemoveInformerMaps, NilAssumption, SlotsAssumption,
         SlotsArePartitioned DEF CachesOK, CachesTypeOK
    <3> QED
      BY <1>1, <3>1, <3>2 DEF nsVars
  <2> QED
    BY <2>1, <2>2, SlotsArePartitioned
<1>6. ASSUME NEW i \in Inf, OnWatchError(i)
      PROVE  NSP!NoEmptyMaps' /\ CLP!NoEmptyMaps'
  <2>1. UNCHANGED clVars
    BY <1>6, OnWatchErrorEffect DEF CachesOK
  <2>2. \/ \E d \in UID : watchErrorHandler[i] \in NsSlots
                          /\ NSP!Removal(watchErrorHandler[i], d, TRUE)
        \/ UNCHANGED <<nsNamespaces, nsGvks, nsInfAt>>
    BY <1>6, NsRemovalIsItsOwn, CachesTypes
       DEF CachesOK, OnWatchError, NS!HandleWatchError, nsVars
  <2> QED
    BY <1>1, <1>2, <1>3, <2>1, <2>2 DEF clVars
<1>7. CASE StartCluster \/ StartNamespaces
  BY <1>1, <1>2, <1>7, StartEffect
<1>8. CASE UNCHANGED <<nsVars, clVars>>
  BY <1>1, <1>2, <1>8 DEF nsVars, clVars
<1> QED
  BY <1>4, <1>5, <1>6, <1>7, <1>8 DEF CacheStep, cacheVars

LEMMA StepCaches == CachesOK /\ CacheStep => CachesOK'
BY StepTypes, StepMaps DEF CachesOK

-----------------------------------------------------------------------------
(* The request.                                                            *)

\* A step of a request finds a request of the right kind.
RequestOK ==
    /\ req \in Reads \cup Lookups \cup Waits \cup {Nil}
    /\ pc = "idle" <=> req = Nil
    /\ pc \in {"review", "route", "look", "evict", "readNamespace", "readCluster"}
          => req \in Reads
    /\ pc \in {"lookup", "create", "reread"} => req \in Lookups
    /\ pc \in {"waitCluster", "waitNamespaces"} => req \in Waits
    /\ permitted \in BOOLEAN

\* The loop and the history are about informers that are there.
VisitsOK ==
    /\ toVisit \subseteq {s \in NsSlots : nsInfAt[s] # Nil}
    /\ steady \subseteq Occupied

LEMMA NextRequest == RequestOK /\ [Next]_vars => RequestOK'
<1> SUFFICES ASSUME RequestOK, [Next]_vars PROVE RequestOK'
  OBVIOUS
<1>1. ASSUME NEW r \in Reads, Begin(r, "review") PROVE RequestOK'
  BY <1>1, RequestsAssumption DEF Begin, RequestOK
<1>2. ASSUME NEW r \in Lookups, Begin(r, "lookup") PROVE RequestOK'
  BY <1>2, RequestsAssumption DEF Begin, RequestOK
<1>3. ASSUME NEW r \in Waits, Begin(r, "waitCluster") PROVE RequestOK'
  BY <1>3, RequestsAssumption DEF Begin, RequestOK
<1>4. CASE Review \/ Route \/ Look \/ Evicted \/ ReadNamespace \/ ReadCluster
  BY <1>4 DEF Review, Route, RouteTo, Look, Evicted, ReadNamespace, ReadCluster,
              Go, Goto, Finish, RequestOK
<1>5. CASE \E s \in NsSlots : Evict(s)
  BY <1>5 DEF Evict, RequestOK
<1>6. CASE Lookup \/ Create \/ Reread
  BY <1>6 DEF Lookup, Create, Reread, Go, Goto, Finish, RequestOK
<1>7. CASE WaitCluster \/ WaitNamespaces
  BY <1>7 DEF WaitCluster, WaitNamespaces, Go, Goto, Finish, RequestOK
<1>8. CASE Alongside \/ UNCHANGED vars
  BY <1>8 DEF Alongside, vars, reqVars, RequestOK
<1>9. CASE Return
  BY <1>9 DEF Return, RequestOK
<1> QED
  BY <1>1, <1>2, <1>3, <1>4, <1>5, <1>6, <1>7, <1>8, <1>9 DEF Next, Step

LEMMA NextIsCacheStep == RequestOK /\ [Next]_vars => CacheStep
<1> SUFFICES ASSUME RequestOK, [Next]_vars PROVE CacheStep
  OBVIOUS
<1>1. ASSUME NEW s \in NsSlots, Evict(s) PROVE CacheStep
  BY <1>1, SlotsArePartitioned DEF Evict, CacheStep
<1>2. CASE Create
  <2>1. req.slot \in Slots
    BY <1>2 DEF Create, RequestOK, Lookups
  <2> QED
    BY <1>2, <2>1 DEF Create, Finish, CacheStep
<1>3. CASE \/ Review \/ Route \/ Look \/ Evicted \/ ReadNamespace \/ ReadCluster
           \/ Lookup \/ Reread \/ WaitCluster \/ WaitNamespaces \/ Return
           \/ (\E r : \E first : Begin(r, first)) \/ UNCHANGED vars
  BY <1>3 DEF Review, Route, RouteTo, Look, Evicted, ReadNamespace, ReadCluster,
              Lookup, Reread, WaitCluster, WaitNamespaces, Return, Begin,
              Go, Goto, Finish, vars, CacheStep
<1>4. CASE Others
  BY <1>4 DEF Others, NS!ForceArgs, CacheStep
<1> QED
  BY <1>1, <1>2, <1>3, <1>4 DEF Next, Step

\* toVisit and steady only ever lose what has changed, but at the beginning of
\* a loop and of a request.
LEMMA NextVisits ==
    CachesOK /\ RequestOK /\ VisitsOK /\ [Next]_vars => VisitsOK'
<1> SUFFICES ASSUME CachesOK, RequestOK, VisitsOK, [Next]_vars PROVE VisitsOK'
  OBVIOUS
<1>1. ASSUME NEW t \in toVisit, InformerAt(t)' = InformerAt(t)
      PROVE  t \in NsSlots /\ nsInfAt'[t] # Nil
  BY <1>1 DEF VisitsOK, InformerAt
<1>2. toVisit' = StillThere => toVisit' \subseteq {s \in NsSlots : nsInfAt'[s] # Nil}
  BY <1>1 DEF StillThere
<1>3. UNCHANGED <<toVisit, nsInfAt>>
         => toVisit' \subseteq {s \in NsSlots : nsInfAt'[s] # Nil}
  BY DEF VisitsOK
<1>4. toVisit' \subseteq {s \in NsSlots : nsInfAt'[s] # Nil}
  <2>1. CASE Look
    BY <2>1 DEF Look, Evictable, cacheVars, nsVars
  <2>2. ASSUME NEW s \in NsSlots, Evict(s) PROVE toVisit' = StillThere
    BY <2>2 DEF Evict
  <2>3. CASE Create
    <3>1. CASE Finish("Error")
      BY <1>3, <3>1 DEF Finish, cacheVars, nsVars
    <3>2. ASSUME NEW d \in UID, NEW i \in Inf, AddInformer(req.slot, d, i),
                 UNCHANGED toVisit
          PROVE  toVisit' \subseteq {s \in NsSlots : nsInfAt'[s] # Nil}
      <4>1. req.slot \in Slots
        BY <2>3 DEF Create, RequestOK, Lookups
      <4>2. \A t \in Slots : InformerAt(t) # Nil => InformerAt(t)' # Nil
        BY <3>2, <4>1, AddInformerEffect, NilAssumption DEF CachesOK
      <4> QED
        BY <3>2, <4>2, SlotsArePartitioned DEF VisitsOK, InformerAt
    <3> QED
      BY <2>3, <3>1, <3>2 DEF Create
  <2>4. CASE \/ Review \/ Route \/ Evicted \/ ReadNamespace \/ ReadCluster
             \/ Lookup \/ Reread \/ WaitCluster \/ WaitNamespaces \/ Return
             \/ (\E r : \E first : Begin(r, first)) \/ UNCHANGED vars
    <3>1. UNCHANGED <<toVisit, nsInfAt>>
      BY <2>4 DEF Review, Route, RouteTo, Evicted, ReadNamespace, ReadCluster,
                  Lookup, Reread, WaitCluster, WaitNamespaces, Return, Begin,
                  Go, Goto, Finish, vars, reqVars, cacheVars, nsVars
    <3> QED
      BY <1>3, <3>1
  <2>5. CASE Alongside
    BY <1>2, <2>5 DEF Alongside
  <2> QED
    BY <1>2, <2>1, <2>2, <2>3, <2>4, <2>5 DEF Next, Step
<1>5. steady' \subseteq Occupied'
  <2>1. CASE Observe
    BY <2>1 DEF Observe, VisitsOK, Occupied
  <2>2. CASE Return
    BY <2>2 DEF Return
  <2>3. CASE UNCHANGED vars
    BY <2>3, SameSlotsIfUnchanged
       DEF vars, cacheVars, nsVars, clVars, VisitsOK, Occupied, SameSlots
  <2>4. ASSUME NEW r, NEW first, Begin(r, first) PROVE steady' \subseteq Occupied'
    BY <2>4, SameSlotsIfUnchanged
       DEF Begin, cacheVars, nsVars, clVars, Occupied, SameSlots
  <2> QED
    BY <2>1, <2>2, <2>3, <2>4 DEF Next, Alongside
<1> QED
  BY <1>4, <1>5 DEF VisitsOK

LEMMA InitCaches == Init => CachesOK
<1> SUFFICES ASSUME Init PROVE CachesOK
  OBVIOUS
<1>1. NSP!TypeOK
  BY NilAssumption, SlotsArePartitioned
     DEF Init, InformerInit, NSP!TypeOK, NSP!InformerTypeOK, NSP!Phase
<1>2. CLP!TypeOK
  BY NilAssumption, SlotsArePartitioned
     DEF Init, InformerInit, CLP!TypeOK, CLP!InformerTypeOK, CLP!Phase
<1>3. NSP!NoEmptyMaps /\ CLP!NoEmptyMaps
  BY DEF Init, NSP!NoEmptyMaps, CLP!NoEmptyMaps
<1> QED
  BY <1>1, <1>2, <1>3 DEF Init, CachesOK, CachesTypeOK

\* The inductive invariant the rest is added to.
THEOREM Invariance == Spec => [](CachesOK /\ RequestOK /\ VisitsOK)
<1>1. Init => CachesOK /\ RequestOK /\ VisitsOK
  BY InitCaches DEF Init, NoRequest, RequestOK, VisitsOK
<1>2. CachesOK /\ RequestOK /\ VisitsOK /\ [Next]_vars
         => (CachesOK /\ RequestOK /\ VisitsOK)'
  BY NextRequest, NextIsCacheStep, StepCaches, NextVisits
<1> QED
  BY <1>1, <1>2, PTL DEF Spec

\* The types; no ScopeInformer is in both caches, or in one of them twice; and
\* neither cache is left with a level of its map without an informer, whatever
\* requests and handlers do to both.
THEOREM TypeCorrect == Spec => []TypeOK
<1>1. CachesOK /\ RequestOK /\ VisitsOK => TypeOK
  <2> SUFFICES ASSUME CachesOK, RequestOK, VisitsOK PROVE TypeOK
    OBVIOUS
  <2>1. NS!NoEmptyMaps /\ CL!NoEmptyMaps
    BY DEF CachesOK, NS!NoEmptyMaps, NS!NsGvk, NSP!NoEmptyMaps, NSP!NsGvk,
           CL!NoEmptyMaps, CLP!NoEmptyMaps
  <2>2. \A s \in Slots : InformerAt(s) \in {x \in SI : informer[x] # Nil} \cup {Nil}
    BY CachesTypes, NilAssumption DEF CachesOK
  <2> QED
    BY <2>1, <2>2, CachesTypes DEF CachesOK, RequestOK, VisitsOK, TypeOK
<1> QED
  BY <1>1, Invariance, PTL

-----------------------------------------------------------------------------
(* What is cancelled.                                                      *)

\* There is no Terminate that spares the map: in the caches of a ScopedCache,
\* too, a ScopeInformer is cancelled as soon as, and not before, it leaves.
CancelledOnLeaving ==
    \A x \in SI :
        /\ informer[x] = Nil => ~cancelled[x]
        /\ informer[x] # Nil => (~cancelled[x] <=> \E s \in Slots : InformerAt(s) = x)

\* As in each cache: the context that stops an informer is that of a wrapper of
\* it, and nothing else stops it.
StoppedByItsWrapper ==
    \A i \in Inf :
        /\ stopCh[i] # Nil => informer[stopCh[i]] = i
        /\ phase[i] = "stopped" => cancelled[stopCh[i]]

LEMMA StepCancelled ==
    CachesTypeOK /\ CancelledOnLeaving /\ CacheStep => CancelledOnLeaving'
<1> SUFFICES ASSUME CachesTypeOK, CancelledOnLeaving, CacheStep
             PROVE  CancelledOnLeaving'
  OBVIOUS
<1>1. ASSUME NEW s \in Slots, NEW d \in UID, NEW i \in Inf, AddInformer(s, d, i)
      PROVE  CancelledOnLeaving'
  <2>1. PICK x \in SI :
           /\ InformerAt(s)' = x
           /\ \A t \in Slots : t # s => InformerAt(t)' = InformerAt(t)
           /\ \/ InformerAt(s) = x /\ UNCHANGED informer
              \/ /\ InformerAt(s) = Nil /\ informer[x] = Nil
                 /\ informer' = [informer EXCEPT ![x] = i]
           /\ UNCHANGED cancelled
    BY <1>1, AddInformerEffect
  <2>2. CASE InformerAt(s) = x /\ UNCHANGED informer
    <3>1. \A t \in Slots : InformerAt(t)' = InformerAt(t)
      BY <2>1, <2>2
    <3> QED
      BY <2>1, <2>2, <3>1 DEF CancelledOnLeaving
  <2>3. CASE /\ InformerAt(s) = Nil /\ informer[x] = Nil
             /\ informer' = [informer EXCEPT ![x] = i]
    <3>1. informer'[x] = i /\ \A y \in SI : y # x => informer'[y] = informer[y]
      BY <2>3, CachesTypes DEF InformerTypeOK
    <3>2. \A y \in SI : y # x =>
             ((\E t \in Slots : InformerAt(t)' = y) <=> \E t \in Slots : InformerAt(t) = y)
      BY <2>1, <2>3, NilAssumption
    <3> QED
      BY <2>1, <2>3, <3>1, <3>2, NilAssumption DEF CancelledOnLeaving
  <2> QED
    BY <2>1, <2>2, <2>3
<1>2. ASSUME NEW s \in Slots, Leaves(s), UNCHANGED informer
      PROVE  CancelledOnLeaving'
  <2> SUFFICES ASSUME NEW x \in SI
               PROVE  /\ informer[x] = Nil => ~cancelled'[x]
                      /\ informer[x] # Nil =>
                            (~cancelled'[x] <=> \E t \in Slots : InformerAt(t)' = x)
    BY <1>2 DEF CancelledOnLeaving
  <2>1. cancelled'[x] <=> cancelled[x] \/ (x = InformerAt(s) /\ InformerAt(s)' = Nil)
    BY <1>2 DEF Leaves
  <2>2. x = InformerAt(s) => informer[x] # Nil
    BY CachesTypes, NilAssumption
  <2>3. ASSUME NEW t \in Slots, InformerAt(t) = x, x = InformerAt(s) PROVE t = s
    BY <2>3, CachesTypes, NilAssumption DEF Occupied
  <2>4. (\E t \in Slots : InformerAt(t)' = x) <=>
           /\ \E t \in Slots : InformerAt(t) = x
           /\ ~(x = InformerAt(s) /\ InformerAt(s)' = Nil)
    BY <1>2, <2>3, NilAssumption DEF Leaves
  <2> QED
    BY <2>1, <2>2, <2>4 DEF CancelledOnLeaving
<1>3. ASSUME SameSlots, UNCHANGED <<informer, cancelled>> PROVE CancelledOnLeaving'
  BY <1>3 DEF CancelledOnLeaving, SameSlots
<1>4. ASSUME NEW s \in Slots, NEW d \in UID \cup {Nil}, NEW force \in BOOLEAN,
             RemoveInformer(s, d, force)
      PROVE  CancelledOnLeaving'
  BY <1>2, <1>4, RemoveInformerEffect
<1>5. ASSUME NEW i \in Inf, OnWatchError(i) PROVE CancelledOnLeaving'
  BY <1>2, <1>3, <1>5, OnWatchErrorEffect, SlotsArePartitioned, SameSlotsIfUnchanged
<1>6. CASE StartCluster \/ StartNamespaces
  BY <1>3, <1>6, StartEffect, SameSlotsIfUnchanged DEF siVars
<1>7. CASE InformerNext /\ UNCHANGED <<nsVars, clVars>>
  BY <1>3, <1>7, InformerStepEffect, SameSlotsIfUnchanged DEF siVars, nsVars, clVars
<1>8. CASE UNCHANGED cacheVars
  BY <1>3, <1>8, SameSlotsIfUnchanged
     DEF cacheVars, nsVars, clVars, informerVars, siVars
<1> QED
  BY <1>1, <1>4, <1>5, <1>6, <1>7, <1>8 DEF CacheStep

LEMMA StepStopped ==
    CachesTypeOK /\ StoppedByItsWrapper /\ CacheStep => StoppedByItsWrapper'
<1> SUFFICES ASSUME CachesTypeOK, StoppedByItsWrapper, CacheStep
             PROVE  StoppedByItsWrapper'
  OBVIOUS
\* It is enough that no informer is given a context, or stops without reason.
<1>1. ASSUME UNCHANGED stopCh,
             \A i \in Inf : phase'[i] = "stopped" =>
                phase[i] = "stopped" \/ cancelled'[stopCh[i]]
      PROVE  StoppedByItsWrapper'
  <2> SUFFICES ASSUME NEW i \in Inf
               PROVE  /\ stopCh'[i] # Nil => informer'[stopCh'[i]] = i
                      /\ phase'[i] = "stopped" => cancelled'[stopCh'[i]]
    BY DEF StoppedByItsWrapper
  <2>1. stopCh[i] \in SI \cup {Nil} /\ (stopCh[i] = Nil <=> phase[i] = "idle")
    BY CachesTypes DEF InformerTypeOK
  <2>2. stopCh'[i] # Nil => informer'[stopCh'[i]] = i
    BY <1>1, <2>1, Permanent, NilAssumption DEF StoppedByItsWrapper
  <2>3. phase[i] = "stopped" => stopCh[i] \in SI /\ cancelled'[stopCh[i]]
    BY <2>1, Permanent DEF StoppedByItsWrapper
  <2> QED
    BY <1>1, <2>2, <2>3
<1>2. ASSUME UNCHANGED <<phase, stopCh>> PROVE StoppedByItsWrapper'
  BY <1>1, <1>2
<1>3. ASSUME NEW i \in Inf, OnWatchError(i) PROVE StoppedByItsWrapper'
  BY <1>1, <1>3, OnWatchErrorEffect, CachesTypes DEF InformerTypeOK
<1>4. ASSUME NEW x \in SI, Run(x) PROVE StoppedByItsWrapper'
  BY <1>4, CachesTypes, NilAssumption
     DEF Run, siVars, StoppedByItsWrapper, InformerTypeOK
<1>5. ASSUME NEW i \in Inf, Stop(i) PROVE StoppedByItsWrapper'
  BY <1>1, <1>5, CachesTypes DEF Stop, siVars, InformerTypeOK
<1>6. ASSUME NEW i \in Inf, NEW err \in {"forbidden", "failed"}, WatchFails(i, err)
      PROVE  StoppedByItsWrapper'
  BY <1>1, <1>6, CachesTypes DEF WatchFails, InformerTypeOK
<1>7. ASSUME NEW i \in Inf, Sync(i) \/ ChangePermission(i) PROVE StoppedByItsWrapper'
  BY <1>2, <1>7 DEF Sync, ChangePermission, infVars
<1>8. \A s \in Slots, d \in UID, i \in Inf :
         AddInformer(s, d, i) => UNCHANGED <<phase, stopCh>>
  BY AddInformerEffect
<1>9. \A s \in Slots, d \in UID \cup {Nil}, force \in BOOLEAN :
         RemoveInformer(s, d, force) => UNCHANGED <<phase, stopCh>>
  BY RemoveInformerEffect
<1>10. StartCluster \/ StartNamespaces \/ UNCHANGED cacheVars
         => UNCHANGED <<phase, stopCh>>
  BY StartEffect DEF infVars, cacheVars, informerVars
<1> QED
  BY <1>2, <1>3, <1>4, <1>5, <1>6, <1>7, <1>8, <1>9, <1>10 DEF CacheStep, InformerNext

\* Nothing that runs, or is about to, is out of reach of the caches and not told
\* to stop, whichever request, handler or caller has taken it out of which.
THEOREM NoWatchLeaks == Spec => []NoOrphanWatch
<1> DEFINE Accounts == CachesOK /\ RequestOK /\ CancelledOnLeaving /\ StoppedByItsWrapper
<1>1. Init => Accounts
  BY InitCaches, NilAssumption
     DEF Init, InformerInit, NoRequest, RequestOK, CancelledOnLeaving, StoppedByItsWrapper
<1>2. Accounts /\ [Next]_vars => Accounts'
  BY NextRequest, NextIsCacheStep, StepCaches, StepCancelled, StepStopped DEF CachesOK
<1>3. Accounts => NoOrphanWatch
  <2> SUFFICES ASSUME CachesOK, CancelledOnLeaving, StoppedByItsWrapper, NEW x \in SI,
                      x \in goRun \/ (\E i \in Inf : Live(i) /\ stopCh[i] = x),
                      ~cancelled[x]
               PROVE  x \in NS!Cached \cup CL!Cached
    BY DEF NoOrphanWatch
  <2>1. informer[x] # Nil
    BY CachesTypes, NilAssumption DEF CachesOK, InformerTypeOK, StoppedByItsWrapper
  <2>2. PICK s \in Slots : InformerAt(s) = x
    BY <2>1 DEF CancelledOnLeaving
  <2> QED
    BY <2>2, SlotsArePartitioned, NilAssumption DEF InformerAt, NS!Cached, CL!Cached
<1> QED
  BY <1>1, <1>2, <1>3, PTL DEF Spec

-----------------------------------------------------------------------------
(* What is run.                                                            *)

\* Whether the cache that a slot is in has been started.
StartedFor(s) == IF s \in NsSlots THEN nsStarted ELSE clStarted

\* Start or AddInformer has run, or is running, whatever is there.
OccupantsAreRun ==
    \A s \in Occupied : StartedFor(s) =>
        \/ InformerAt(s) \in goRun
        \/ phase[informer[InformerAt(s)]] # "idle"

\* An informer that is not shared is wrapped once, in whichever cache.
Exclusive ==
    \A x, y \in SI :
        informer[x] = informer[y] /\ informer[x] \in Inf \ Shared => x = y

LEMMA StepExclusive == CachesTypeOK /\ Exclusive /\ CacheStep => Exclusive'
<1> SUFFICES ASSUME CachesTypeOK, Exclusive, CacheStep PROVE Exclusive'
  OBVIOUS
<1>1. UNCHANGED informer => Exclusive'
  BY DEF Exclusive
<1>2. ASSUME NEW s \in Slots, NEW d \in UID, NEW i \in Inf, AddInformer(s, d, i)
      PROVE  Exclusive'
  <2>1. \/ UNCHANGED informer
        \/ \E x \in SI : /\ i \in Shared \/ \A y \in SI : informer[y] # i
                         /\ informer' = [informer EXCEPT ![x] = i]
    BY <1>2, AddInformerEffect
  <2> QED
    BY <1>1, <2>1, CachesTypes DEF Exclusive, InformerTypeOK
<1>3. /\ StartCluster \/ StartNamespaces \/ UNCHANGED cacheVars => UNCHANGED informer
      /\ \A i \in Inf : OnWatchError(i) => UNCHANGED informer
      /\ \A s \in Slots, d \in UID \cup {Nil}, force \in BOOLEAN :
            RemoveInformer(s, d, force) => UNCHANGED informer
      /\ InformerNext => UNCHANGED informer
  BY StartEffect, OnWatchErrorEffect, RemoveInformerEffect, InformerStepEffect
     DEF siVars, cacheVars, informerVars
<1> QED
  BY <1>1, <1>2, <1>3 DEF CacheStep

LEMMA StepRuns == CachesTypeOK /\ OccupantsAreRun /\ CacheStep => OccupantsAreRun'
<1> SUFFICES ASSUME CachesTypeOK, OccupantsAreRun, CacheStep,
                    NEW s \in Slots, InformerAt(s)' # Nil, StartedFor(s)',
                    InformerAt(s)' \notin goRun'
             PROVE  phase'[informer'[InformerAt(s)']] # "idle"
  BY DEF OccupantsAreRun, Occupied
\* It is enough that it was there, started, and has lost no goroutine.
<1>1. ASSUME InformerAt(s)' = InformerAt(s), StartedFor(s), InformerAt(s) \notin goRun
      PROVE  phase'[informer'[InformerAt(s)']] # "idle"
  <2>1. InformerAt(s) \in SI /\ informer[InformerAt(s)] \in Inf /\ s \in Occupied
    BY <1>1, CachesTypes DEF Occupied
  <2>2. informer'[InformerAt(s)] = informer[InformerAt(s)]
    BY <2>1, Permanent, NilAssumption
  <2> QED
    BY <1>1, <2>1, <2>2, Permanent DEF OccupantsAreRun
<1>2. UNCHANGED <<nsStarted, clStarted>> => StartedFor(s)
  BY DEF StartedFor
<1>3. ASSUME NEW t \in Slots, NEW d \in UID, NEW i \in Inf, AddInformer(t, d, i)
      PROVE  phase'[informer'[InformerAt(s)']] # "idle"
  <2>1. PICK x \in SI :
           /\ InformerAt(t)' = x
           /\ \A u \in Slots : u # t => InformerAt(u)' = InformerAt(u)
           /\ goRun' = IF (IF t \in NsSlots THEN nsStarted ELSE clStarted)
                       THEN goRun \cup {x} ELSE goRun
           /\ UNCHANGED <<nsStarted, clStarted>>
    BY <1>3, AddInformerEffect
  <2>2. s # t
    BY <1>2, <2>1 DEF StartedFor
  <2> QED
    BY <1>1, <1>2, <2>1, <2>2
<1>4. ASSUME NEW t \in Slots, NEW d \in UID \cup {Nil}, NEW force \in BOOLEAN,
             RemoveInformer(t, d, force)
      PROVE  phase'[informer'[InformerAt(s)']] # "idle"
  BY <1>1, <1>2, <1>4, RemoveInformerEffect DEF Leaves
<1>5. ASSUME NEW i \in Inf, OnWatchError(i)
      PROVE  phase'[informer'[InformerAt(s)']] # "idle"
  BY <1>1, <1>2, <1>5, OnWatchErrorEffect, SameSlotsIfUnchanged, SlotsArePartitioned
     DEF SameSlots, Leaves
<1>6. CASE StartCluster \/ StartNamespaces
  <2>1. InformerAt(s)' = InformerAt(s) /\ InformerAt(s) \notin goRun
    BY <1>6, StartEffect, SameSlotsIfUnchanged DEF SameSlots
  <2>2. s \in NsSlots => InformerAt(s) \in NS!Cached
    BY <2>1 DEF InformerAt, NS!Cached
  <2>3. s \notin NsSlots => InformerAt(s) \in CL!Cached
    BY <2>1, SlotsArePartitioned DEF InformerAt, CL!Cached
  <2>4. CASE clStarted' = TRUE /\ UNCHANGED nsStarted /\ goRun' = goRun \cup CL!Cached
    <3>1. s \in NsSlots
      BY <2>1, <2>3, <2>4
    <3> QED
      BY <1>1, <2>1, <2>4, <3>1 DEF StartedFor
  <2>5. CASE nsStarted' = TRUE /\ UNCHANGED clStarted /\ goRun' = goRun \cup NS!Cached
    <3>1. s \notin NsSlots
      BY <2>1, <2>2, <2>5
    <3> QED
      BY <1>1, <2>1, <2>5, <3>1 DEF StartedFor
  <2> QED
    BY <1>6, <2>4, <2>5, StartEffect
<1>7. CASE InformerNext /\ UNCHANGED <<nsVars, clVars>>
  <2>1. InformerAt(s)' = InformerAt(s) /\ StartedFor(s)
    BY <1>2, <1>7, SameSlotsIfUnchanged DEF SameSlots, nsVars, clVars
  <2>2. CASE InformerAt(s) \in goRun
    <3>1. Run(InformerAt(s)) /\ InformerAt(s) \in SI
      BY <1>7, <2>1, <2>2, CachesTypes
         DEF InformerNext, Run, Stop, Sync, WatchFails, ChangePermission
    <3>2. informer' = informer /\ informer[InformerAt(s)] \in Inf
      BY <2>1, <3>1, CachesTypes DEF Run, siVars
    <3> QED
      BY <2>1, <3>1, <3>2, CachesTypes DEF Run, InformerTypeOK
  <2> QED
    BY <1>1, <2>1, <2>2
<1>8. CASE UNCHANGED cacheVars
  BY <1>1, <1>2, <1>8, SameSlotsIfUnchanged
     DEF SameSlots, cacheVars, nsVars, clVars, informerVars
<1> QED
  BY <1>3, <1>4, <1>5, <1>6, <1>7, <1>8 DEF CacheStep

WatchInv ==
    /\ CancelledOnLeaving
    /\ StoppedByItsWrapper
    /\ Exclusive
    /\ OccupantsAreRun

LEMMA InitWatches == Init => WatchInv
<1> SUFFICES ASSUME Init PROVE WatchInv
  OBVIOUS
<1>1. Occupied = {}
  BY SlotsArePartitioned DEF Init, Occupied, InformerAt
<1> QED
  BY <1>1, NilAssumption
     DEF Init, InformerInit, WatchInv, CancelledOnLeaving, StoppedByItsWrapper,
         Exclusive, OccupantsAreRun

LEMMA StepWatches == CachesOK /\ WatchInv /\ CacheStep => WatchInv'
BY StepCancelled, StepStopped, StepExclusive, StepRuns DEF CachesOK, WatchInv

\* What is in a started cache watches, or is about to, under its own context,
\* if it is not shared.
LEMMA OccupantsWatch ==
    ASSUME CachesTypeOK, WatchInv, NEW s \in Occupied,
           informer[InformerAt(s)] \notin Shared
    PROVE  /\ phase[informer[InformerAt(s)]] # "stopped"
           /\ StartedFor(s) => \/ InformerAt(s) \in goRun
                               \/ /\ Live(informer[InformerAt(s)])
                                  /\ stopCh[informer[InformerAt(s)]] = InformerAt(s)
<1> DEFINE x == InformerAt(s)
           i == informer[x]
<1>1. x \in SI /\ i \in Inf /\ s \in Slots
  BY CachesTypes DEF Occupied
<1>2. ~cancelled[x]
  BY <1>1, NilAssumption DEF WatchInv, CancelledOnLeaving
<1>3. ASSUME phase[i] # "idle" PROVE stopCh[i] = x
  <2>1. stopCh[i] \in SI /\ informer[stopCh[i]] = i
    BY <1>1, <1>3, CachesTypes DEF InformerTypeOK, WatchInv, StoppedByItsWrapper
  <2> QED
    BY <1>1, <2>1 DEF WatchInv, Exclusive
<1>4. phase[i] # "stopped"
  BY <1>1, <1>2, <1>3 DEF WatchInv, StoppedByItsWrapper
<1>5. phase[i] # "idle" => Live(i)
  BY <1>1, <1>4, CachesTypes DEF InformerTypeOK, Phase, Live
<1>6. StartedFor(s) => x \in goRun \/ phase[i] # "idle"
  BY DEF WatchInv, OccupantsAreRun
<1> QED
  BY <1>3, <1>4, <1>5, <1>6
=============================================================================

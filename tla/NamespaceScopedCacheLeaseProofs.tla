------------------- MODULE NamespaceScopedCacheLeaseProofs -------------------
(***************************************************************************)
(* The NamespaceScopedCache implements InformerLease: each of its steps is *)
(* an Acquire, a Release or an Evict of one slot, or no step of the lease  *)
(* at all, for any numbers of informers, slots and dependents.             *)
(*                                                                         *)
(* The refinement mapping reads HasInformer, which looks at all levels of  *)
(* the map; NoEmptyMaps turns it into a question about the last one.       *)
(***************************************************************************)
EXTENDS NamespaceScopedCacheWatchProofs

\* The refinement mapping, as in the definition of Lease.
Registered == {s \in Slots : HasInformer(s)}
Holders    == [s \in Slots |-> IF HasInformer(s) THEN dependents[infAt[s]] ELSE {}]
Evictable  == {s \in Slots : \/ s \in Forced
                             \/ \E i \in Inf : /\ phase[i] = "forbidden"
                                               /\ watchErrorHandler[i] = s}

\* What is left of it if no map is empty.
MapsByInformers ==
    /\ Registered = {s \in Slots : infAt[s] # Nil}
    /\ Holders = [s \in Slots |-> IF infAt[s] # Nil THEN dependents[infAt[s]] ELSE {}]

LEMMA Mapping == NoEmptyMaps => MapsByInformers
<1> SUFFICES ASSUME NoEmptyMaps PROVE MapsByInformers
  OBVIOUS
<1>1. \A s \in Slots : infAt[s] # Nil =>
         /\ NsGvk(s) \in gvks
         /\ NsGvk(s)[1] \in namespaces
  BY DEF NoEmptyMaps
<1>2. \A s \in Slots : NsGvk(s)[1] = s.Namespace
  BY DEF NsGvk
<1>3. \A s \in Slots : HasInformer(s) <=> infAt[s] # Nil
  BY <1>1, <1>2 DEF HasInformer
<1> QED
  BY <1>3 DEF MapsByInformers, Registered, Holders

LEMMA MappingInAStep ==
    ASSUME NoEmptyMaps, NoEmptyMaps' PROVE MapsByInformers /\ MapsByInformers'
BY Mapping, PTL

\* Nothing happens to the lease if the last level of the map and the
\* dependents stay as they are.
LEMMA LeaseStutters ==
    ASSUME NoEmptyMaps, NoEmptyMaps', UNCHANGED <<infAt, dependents>>
    PROVE  UNCHANGED <<Registered, Holders>>
BY MappingInAStep DEF MapsByInformers

-----------------------------------------------------------------------------
(* A new ScopeInformer has no dependents.                                  *)

NewHaveNone == \A x \in SI : informer[x] = Nil => dependents[x] = {}

LEMMA NextNew == IInv /\ NewHaveNone /\ [Next]_vars => NewHaveNone'
<1> SUFFICES ASSUME IInv, NewHaveNone, [Next]_vars PROVE NewHaveNone'
  OBVIOUS
<1>1. ASSUME UNCHANGED <<informer, dependents>> PROVE NewHaveNone'
  BY <1>1 DEF NewHaveNone
<1>2. ASSUME NEW s \in Slots, NEW d \in UID, NEW i \in Inf, AddInformer(s, d, i)
      PROVE  NewHaveNone'
  <2>1. PICK x \in SI :
           /\ informer'[x] \in Inf
           /\ \/ UNCHANGED informer
              \/ informer' = [informer EXCEPT ![x] = i]
           /\ dependents' = [dependents EXCEPT ![x] = @ \cup {d}]
    BY <1>2, AddInformerEffect DEF IInv
  <2> QED
    BY <2>1, NilAssumption DEF NewHaveNone, IInv, TypeOK, InformerTypeOK
<1>3. ASSUME NEW s \in Slots, NEW d, NEW force, Removal(s, d, force),
             UNCHANGED informer
      PROVE  NewHaveNone'
  <2>1. \A x \in SI : x # infAt[s] => dependents'[x] = dependents[x]
    BY <1>3, RemovalEffect DEF IInv
  <2>2. infAt[s] \in SI => informer[infAt[s]] # Nil
    BY NilAssumption DEF IInv, TypeOK
  <2> QED
    BY <1>3, <2>1, <2>2 DEF NewHaveNone
<1>4. ASSUME NEW s \in Slots, NEW d \in UID, NEW force \in ForceArgs(s),
             RemoveInformer(s, d, force)
      PROVE  NewHaveNone'
  BY <1>3, <1>4 DEF RemoveInformer
<1>5. ASSUME NEW i \in Inf, HandleWatchError(i) PROVE NewHaveNone'
  <2>1. UNCHANGED informer
    BY <1>5 DEF HandleWatchError
  <2>2. ASSUME NEW d \in UID, Removal(watchErrorHandler[i], d, TRUE),
               watchErrorHandler[i] # Nil
        PROVE  NewHaveNone'
    BY <1>3, <2>1, <2>2 DEF IInv, TypeOK, InformerTypeOK
  <2> QED
    BY <1>1, <1>5, <2>1, <2>2 DEF HandleWatchError
<1>6. InformerNext => UNCHANGED <<informer, dependents>>
  BY InformerStepEffect DEF siVars
<1>7. Start \/ TerminateCache \/ UNCHANGED vars => UNCHANGED <<informer, dependents>>
  BY DEF Start, TerminateCache, vars, informerVars, siVars
<1> QED
  BY <1>1, <1>2, <1>4, <1>5, <1>6, <1>7 DEF Next, CallerNext

-----------------------------------------------------------------------------
(* The operations of the cache as steps of the lease.                      *)

\* AddInformer acquires.
LEMMA AddInformerAcquires ==
    ASSUME IInv, NewHaveNone, NoEmptyMaps, NoEmptyMaps',
           NEW s \in Slots, NEW d \in UID, NEW i \in Inf, AddInformer(s, d, i)
    PROVE  /\ Registered' = Registered \cup {s}
           /\ Holders' = [Holders EXCEPT ![s] = @ \cup {d}]
<1>1. PICK x \in SI :
         /\ infAt' = [infAt EXCEPT ![s] = x]
         /\ \/ infAt[s] = x
            \/ infAt[s] = Nil /\ informer[x] = Nil
         /\ dependents' = [dependents EXCEPT ![x] = @ \cup {d}]
  BY AddInformerEffect DEF IInv
<1>2. /\ infAt'[s] = x
      /\ x # Nil
      /\ \A t \in Slots : t # s => infAt'[t] = infAt[t]
  BY <1>1, NilAssumption DEF IInv, TypeOK
<1>3. ASSUME NEW t \in Slots, t # s, infAt[t] # Nil
      PROVE  dependents'[infAt[t]] = dependents[infAt[t]]
  BY <1>1, <1>2, <1>3 DEF IInv, TypeOK, InformerTypeOK
<1>4. dependents'[x] = dependents[x] \cup {d}
  BY <1>1 DEF IInv, TypeOK, InformerTypeOK
<1>5. infAt[s] = Nil => dependents[x] = {}
  BY <1>1, <1>2 DEF NewHaveNone
<1>6. Registered' = Registered \cup {s}
  BY <1>2, MappingInAStep DEF MapsByInformers
<1> DEFINE Acquired == [Holders EXCEPT ![s] = @ \cup {d}]
<1>7. Holders'[s] = Holders[s] \cup {d}
  BY <1>1, <1>2, <1>4, <1>5, MappingInAStep DEF MapsByInformers
<1>8. ASSUME NEW t \in Slots, t # s PROVE Holders'[t] = Holders[t]
  BY <1>2, <1>3, <1>8, MappingInAStep DEF MapsByInformers
<1>9. DOMAIN Holders' = Slots /\ Holders' = [t \in Slots |-> Holders'[t]]
  BY DEF Holders
<1>10. Holders' = Acquired
  BY <1>7, <1>8, <1>9 DEF Holders
<1> QED
  BY <1>6, <1>10

\* RemoveInformer releases, or evicts by force, or finds nothing.
LEMMA RemovalReleases ==
    ASSUME IInv, NoEmptyMaps, NoEmptyMaps',
           NEW s \in Slots, NEW d \in UID, NEW force, Removal(s, d, force)
    PROVE  \/ UNCHANGED <<Registered, Holders>>
           \/ /\ s \in Registered
              /\ Holders' = [Holders EXCEPT ![s] = @ \ {d}]
              /\ Registered' = IF Holders[s] \ {d} = {} THEN Registered \ {s}
                                                         ELSE Registered
           \/ /\ force
              /\ Registered' = Registered \ {s}
              /\ Holders' = [Holders EXCEPT ![s] = {}]
<1>1. CASE infAt[s] = Nil
  BY <1>1, LeaseStutters DEF Removal
<1>2. CASE infAt[s] # Nil
  <2> DEFINE x == infAt[s]
  <2>1. /\ x \in SI
        /\ dependents' = [dependents EXCEPT ![x] = Without(x, d)]
        /\ \/ /\ Deletes(x, d, force)
              /\ infAt' = [infAt EXCEPT ![s] = Nil]
           \/ /\ ~Deletes(x, d, force)
              /\ UNCHANGED infAt
    BY <1>2 DEF Removal, IInv, TypeOK
  <2>2. \A t \in Slots : t # s => infAt'[t] = infAt[t]
    BY <2>1 DEF IInv, TypeOK
  <2>3. ASSUME NEW t \in Slots, t # s, infAt[t] # Nil
        PROVE  dependents'[infAt[t]] = dependents[infAt[t]]
    BY <1>2, <2>1, <2>3 DEF IInv, TypeOK, InformerTypeOK
  <2>4. dependents'[x] = dependents[x] \ {d}
    BY <2>1 DEF Without, IInv, TypeOK, InformerTypeOK
  <2>5. s \in Registered /\ Holders[s] = dependents[x]
    BY <1>2, MappingInAStep DEF MapsByInformers
  <2>6. ASSUME NEW t \in Slots, t # s PROVE Holders'[t] = Holders[t]
    BY <2>2, <2>3, <2>6, MappingInAStep DEF MapsByInformers
  <2>7. Holders' = [t \in Slots |-> Holders'[t]]
    BY DEF Holders
  <2>8. CASE Deletes(x, d, force)
    <3>1. infAt'[s] = Nil
      BY <2>1, <2>8 DEF IInv, TypeOK
    <3>2. Registered' = Registered \ {s}
      BY <2>2, <3>1, MappingInAStep DEF MapsByInformers
    <3>3. Holders'[s] = {}
      BY <3>1, MappingInAStep DEF MapsByInformers
    <3>4. Holders' = [Holders EXCEPT ![s] = {}]
      BY <2>6, <2>7, <3>3 DEF Holders
    <3>5. Holders[s] \ {d} = {} \/ force
      BY <2>5, <2>8 DEF Deletes, Without
    <3> QED
      BY <2>5, <3>2, <3>4, <3>5
  <2>9. CASE ~Deletes(x, d, force)
    <3>1. UNCHANGED infAt /\ Holders[s] \ {d} # {}
      BY <2>1, <2>5, <2>9 DEF Deletes, Without
    <3>2. Registered' = Registered
      BY <3>1, MappingInAStep DEF MapsByInformers
    <3>3. Holders'[s] = Holders[s] \ {d}
      BY <1>2, <2>4, <2>5, <3>1, MappingInAStep DEF MapsByInformers
    <3>4. Holders' = [Holders EXCEPT ![s] = @ \ {d}]
      BY <2>6, <2>7, <3>3 DEF Holders
    <3> QED
      BY <2>5, <3>1, <3>2, <3>4
  <2> QED
    BY <2>8, <2>9
<1> QED
  BY <1>1, <1>2

\* Every step of the cache is one of the lease, or none.
LEMMA NextIsLeaseStep ==
    ASSUME IInv, NewHaveNone, NoEmptyMaps, [Next]_vars
    PROVE  [Lease!Next]_(Lease!leaseVars)
<1>1. NoEmptyMaps'
  BY NextMaps DEF IInv
<1>2. ASSUME UNCHANGED <<Registered, Holders>> PROVE UNCHANGED Lease!leaseVars
  BY <1>2 DEF Registered, Holders, Lease!leaseVars
<1>3. ASSUME UNCHANGED <<infAt, dependents>> PROVE UNCHANGED Lease!leaseVars
  BY <1>1, <1>2, <1>3, LeaseStutters
<1>4. ASSUME NEW s \in Slots, NEW d \in UID, NEW i \in Inf, AddInformer(s, d, i)
      PROVE  Lease!Next
  <2>1. Lease!Acquire(s, d)
    BY <1>1, <1>4, AddInformerAcquires DEF Registered, Holders, Lease!Acquire
  <2> QED
    BY <2>1 DEF Lease!Next
<1>5. ASSUME NEW s \in Slots, NEW d \in UID, NEW force, Removal(s, d, force),
             force => s \in Evictable
      PROVE  Lease!Next \/ UNCHANGED Lease!leaseVars
  <2>1. CASE UNCHANGED <<Registered, Holders>>
    BY <1>2, <2>1
  <2>2. CASE /\ s \in Registered
             /\ Holders' = [Holders EXCEPT ![s] = @ \ {d}]
             /\ Registered' = IF Holders[s] \ {d} = {} THEN Registered \ {s}
                                                        ELSE Registered
    <3>1. Lease!Release(s, d)
      BY <2>2 DEF Registered, Holders, Lease!Release
    <3> QED
      BY <3>1 DEF Lease!Next
  <2>3. CASE /\ s \in Evictable
             /\ Registered' = Registered \ {s}
             /\ Holders' = [Holders EXCEPT ![s] = {}]
    <3>1. Lease!Evict(s)
      BY <2>3 DEF Registered, Holders, Evictable, Lease!Evict
    <3> QED
      BY <3>1 DEF Lease!Next
  <2> QED
    BY <1>1, <1>5, <2>1, <2>2, <2>3, RemovalReleases
<1>6. ASSUME NEW s \in Slots, NEW d \in UID, NEW force \in ForceArgs(s),
             RemoveInformer(s, d, force)
      PROVE  Lease!Next \/ UNCHANGED Lease!leaseVars
  BY <1>5, <1>6 DEF RemoveInformer, ForceArgs, Evictable
<1>7. ASSUME NEW i \in Inf, HandleWatchError(i)
      PROVE  Lease!Next \/ UNCHANGED Lease!leaseVars
  <2>1. ASSUME NEW d \in UID, phase[i] = "forbidden", watchErrorHandler[i] # Nil,
               Removal(watchErrorHandler[i], d, TRUE)
        PROVE  Lease!Next \/ UNCHANGED Lease!leaseVars
    <3>1. watchErrorHandler[i] \in Slots
      BY <2>1 DEF IInv, TypeOK, InformerTypeOK
    <3>2. watchErrorHandler[i] \in Evictable
      BY <2>1, <3>1 DEF Evictable
    <3> QED
      BY <1>5, <2>1, <3>1, <3>2
  <2> QED
    BY <1>3, <1>7, <2>1 DEF HandleWatchError
<1>8. InformerNext /\ UNCHANGED cacheVars => UNCHANGED <<infAt, dependents>>
  BY InformerStepEffect DEF siVars, cacheVars
<1>9. Start \/ TerminateCache \/ UNCHANGED vars => UNCHANGED <<infAt, dependents>>
  BY DEF Start, TerminateCache, vars, cacheVars, informerVars, siVars
<1> QED
  BY <1>3, <1>4, <1>6, <1>7, <1>8, <1>9 DEF Next, CallerNext

\* An informer is there from its first dependent to its last, unless a caller
\* forces it out or a watch that was set up for its slot is refused.
THEOREM ImplementsLease == Spec => LeaseSpec
<1>1. Init => Lease!Init
  BY DEF Init, Lease!Init, HasInformer
<1>2. Init => NewHaveNone
  BY DEF Init, InformerInit, NewHaveNone
<1> QED
  BY <1>1, <1>2, NextNew, NextIsLeaseStep, Invariance, MapsAreNeverEmpty, PTL
     DEF Spec, LeaseSpec, Lease!Spec

=============================================================================

---------------------- MODULE HandlersAndIndexersProofs ----------------------
(***************************************************************************)
(* Theorems about event handlers and indexers, for any numbers of callers, *)
(* handlers, informers and slots: the types, HandlersHear,                 *)
(* RegisteredOncePerKey and IndexedMeansIndexed.                           *)
(*                                                                         *)
(* Whatever is attached to the informers, the caches take no other steps   *)
(* than those of the ScopedCache, so that what was proved of every         *)
(* CacheStep holds here too.                                               *)
(***************************************************************************)
EXTENDS HandlersAndIndexers, ScopedCacheProofs, FiniteSetTheorems

LEMMA HNextIsCacheStep == [HNext]_allVars => CacheStep
<1> SUFFICES ASSUME [HNext]_allVars PROVE CacheStep
  OBVIOUS
<1>1. CASE InformersChange
  BY <1>1 DEF InformersChange, CacheStep, InformerNext
<1>2. CASE UNCHANGED cacheVars
  BY <1>2 DEF CacheStep
<1>3. IndexField => UNCHANGED cacheVars
  BY DEF IndexField, RangeOver, AllIndexed, AddIndexers, Finish
<1>4. UNCHANGED vars \/ UNCHANGED allVars \/ Return => UNCHANGED cacheVars
  BY DEF vars, allVars, Return
<1>5. \A r : Begin(r, "range") => UNCHANGED cacheVars
  BY DEF Begin
<1> QED
  BY <1>1, <1>2, <1>3, <1>4, <1>5 DEF HNext

\* The caches and their informers are in order.
THEOREM CachesInvariance == HSpec => [](CachesOK /\ WatchInv)
<1>1. HInit => CachesOK /\ WatchInv
  BY InitCaches, InitWatches DEF HInit
<1>2. CachesOK /\ WatchInv /\ [HNext]_allVars => (CachesOK /\ WatchInv)'
  BY HNextIsCacheStep, StepCaches, StepWatches
<1> QED
  BY <1>1, <1>2, PTL DEF HSpec

-----------------------------------------------------------------------------
(* Types.                                                                  *)

CallRecords == [at : {"record", "register", "returned"}, si : SI,
                handler : Handlers, key : Keys]

\* What callers have done and are doing is about informers and their own keys.
CallsOK ==
    /\ eventListeners \in [SI -> SUBSET Keys]
    /\ listeners \in [Inf -> SUBSET Callers]
    /\ \A i \in Inf : \A c \in listeners[i] :
          call[c].at = "returned" /\ informer[call[c].si] = i
    /\ raced \subseteq SI \X Keys
    /\ call \in [Callers -> CallRecords \cup {NoCall}]
    /\ \A c \in Callers : call[c] # NoCall =>
          /\ informer[call[c].si] # Nil
          /\ call[c].key \in KeysOf(call[c].handler)

\* The request, if any, is for indexes; what it has yet to visit is there.
IndexOK ==
    /\ req = Nil => pc = "idle"
    /\ toVisit # {} => pc = "index" /\ toVisit \subseteq ToIndex
    /\ steady \subseteq Occupied
    /\ indexed \subseteq {informer[x] : x \in SI} \ {Nil}

LEMMA KeysAreKeys == \A h \in Handlers : KeysOf(h) \subseteq Keys
BY HashAssumption DEF KeysOf, Keys

LEMMA CheckType ==
    ASSUME CallsOK, NEW c \in Callers, NEW x \in SI, NEW h \in Handlers,
           NEW k \in KeysOf(h), Check(c, x, h, k), UNCHANGED informer
    PROVE  CallsOK'
<1> DEFINE new == [at |-> IF k \in eventListeners[x] THEN "returned" ELSE "record",
                   si |-> x, handler |-> h, key |-> k]
<1>1. new \in CallRecords /\ new # NoCall /\ call' = [call EXCEPT ![c] = new]
  BY KeysAreKeys DEF Check, CallRecords, NoCall
<1>4. raced' \subseteq SI \X Keys
  BY KeysAreKeys DEF Check, CallsOK
<1>5. \A i \in Inf : \A d \in listeners'[i] :
         call'[d].at = "returned" /\ informer'[call'[d].si] = i
  BY <1>1 DEF Check, CallsOK, NoCall
<1>6. call' \in [Callers -> CallRecords \cup {NoCall}]
  BY <1>1 DEF CallsOK
<1>7. \A d \in Callers : call'[d] # NoCall =>
         /\ informer'[call'[d].si] # Nil
         /\ call'[d].key \in KeysOf(call'[d].handler)
  BY <1>1 DEF Check, CallsOK
<1> QED
  BY <1>4, <1>5, <1>6, <1>7 DEF Check, CallsOK

LEMMA RecordType ==
    ASSUME CallsOK, NEW c \in Callers, Record(c), UNCHANGED informer
    PROVE  CallsOK'
<1>1. call[c] \in CallRecords
  BY DEF Record, CallsOK, NoCall
<1>2. call' = [call EXCEPT ![c] = [call[c] EXCEPT !.at = "register"]]
  BY DEF Record
<1>3. [call[c] EXCEPT !.at = "register"] \in CallRecords
  BY <1>1 DEF CallRecords
<1>4. \A i \in Inf : \A d \in listeners'[i] :
         call'[d].at = "returned" /\ informer'[call'[d].si] = i
  BY DEF Record, CallsOK
<1>5. eventListeners' \in [SI -> SUBSET Keys]
  BY <1>1 DEF Record, CallsOK, CallRecords
<1>6. \A d \in Callers : call'[d] # NoCall =>
         /\ informer'[call'[d].si] # Nil
         /\ call'[d].key \in KeysOf(call'[d].handler)
  <2>1. call[c] # NoCall
    BY DEF Record, NoCall
  <2>2. call'[c].si = call[c].si /\ call'[c].key = call[c].key
        /\ call'[c].handler = call[c].handler
    BY <1>1, <1>2 DEF CallRecords, CallsOK
  <2> QED
    BY <1>2, <2>1, <2>2 DEF CallsOK
<1>7. call' \in [Callers -> CallRecords \cup {NoCall}]
  BY <1>2, <1>3 DEF CallsOK
<1> QED
  BY <1>4, <1>5, <1>6, <1>7 DEF Record, CallsOK

LEMMA RegisterType ==
    ASSUME CachesTypeOK, CallsOK, NEW c \in Callers, Register(c), UNCHANGED informer
    PROVE  CallsOK'
<1>1. call[c] \in CallRecords
  BY DEF Register, CallsOK, NoCall
<1>2. call' = [call EXCEPT ![c] = [call[c] EXCEPT !.at = "returned"]]
  BY DEF Register
<1>3. [call[c] EXCEPT !.at = "returned"] \in CallRecords
  BY <1>1 DEF CallRecords
<1>6. informer[call[c].si] \in Inf /\ call[c].handler \in Handlers
  BY <1>1, CachesTypes DEF CallsOK, CallRecords, NoCall, Register, InformerTypeOK
<1>7. /\ listeners' \in [Inf -> SUBSET Callers]
      /\ \A i \in Inf : listeners'[i] \subseteq listeners[i] \cup {c}
      /\ \A i \in Inf : c \in listeners'[i] => i = informer[call[c].si]
  BY <1>6 DEF Register, CallsOK
<1>8. \A i \in Inf : \A d \in listeners'[i] :
         call'[d].at = "returned" /\ informer'[call'[d].si] = i
  BY <1>1, <1>2, <1>7 DEF Register, CallsOK, CallRecords
<1>9. \A d \in Callers : call'[d] # NoCall =>
         /\ informer'[call'[d].si] # Nil
         /\ call'[d].key \in KeysOf(call'[d].handler)
  <2>1. call[c] # NoCall
    BY DEF Register, NoCall
  <2>2. call'[c].si = call[c].si /\ call'[c].key = call[c].key
        /\ call'[c].handler = call[c].handler
    BY <1>1, <1>2 DEF CallRecords, CallsOK
  <2> QED
    BY <1>2, <2>1, <2>2 DEF CallsOK
<1>10. call' \in [Callers -> CallRecords \cup {NoCall}]
  BY <1>2, <1>3 DEF CallsOK
<1> QED
  BY <1>7, <1>8, <1>9, <1>10 DEF Register, CallsOK

\* Nothing else touches handlers, and informers stay with their wrappers.
LEMMA OtherSteps ==
    ASSUME CachesOK, [HNext]_allVars
    PROVE  /\ \/ UNCHANGED handlerVars
              \/ \E c \in Callers : AddEventHandler(c) /\ UNCHANGED <<vars, indexed>>
           /\ \A x \in SI : informer[x] # Nil => informer'[x] = informer[x]
<1>1. \A x \in SI : informer[x] # Nil => informer'[x] = informer[x]
  BY HNextIsCacheStep, Permanent DEF CachesOK
<1> QED
  BY <1>1 DEF HNext, allVars

LEMMA NextCalls == CachesOK /\ CallsOK /\ [HNext]_allVars => CallsOK'
<1> SUFFICES ASSUME CachesOK, CallsOK, [HNext]_allVars PROVE CallsOK'
  OBVIOUS
<1>1. ASSUME UNCHANGED handlerVars PROVE CallsOK'
  <2>1. \A c \in Callers : call[c] # NoCall =>
           informer[call[c].si] # Nil /\ informer'[call[c].si] = informer[call[c].si]
    <3> TAKE c \in Callers
    <3>1. call[c] # NoCall => call[c].si \in SI /\ informer[call[c].si] # Nil
      BY DEF CallsOK, CallRecords
    <3> QED
      BY <3>1, OtherSteps
  <2>2. \A i \in Inf : \A c \in listeners[i] : c \in Callers /\ call[c] # NoCall
    BY DEF CallsOK, NoCall
  <2> QED
    BY <1>1, <2>1, <2>2 DEF handlerVars, CallsOK
<1>2. ASSUME NEW c \in Callers, AddEventHandler(c), UNCHANGED vars PROVE CallsOK'
  <2>1. UNCHANGED informer
    BY <1>2 DEF vars, cacheVars, informerVars, siVars
  <2>2. CASE Record(c)
    BY <2>1, <2>2, RecordType
  <2>3. CASE Register(c)
    BY <2>1, <2>3, RegisterType DEF CachesOK
  <2>4. ASSUME NEW x \in SI, NEW h \in Handlers, NEW k \in KeysOf(h), Check(c, x, h, k)
        PROVE  CallsOK'
    BY <2>1, <2>4, CheckType
  <2> QED
    BY <1>2, <2>2, <2>3, <2>4 DEF AddEventHandler
<1> QED
  BY <1>1, <1>2, OtherSteps

\* Every step takes from the history only what has changed, as long as the
\* request goes on.
LEMMA HLater ==
    ASSUME IndexOK, [HNext]_allVars, req # Nil, ~Return
    PROVE  /\ req' = req
           /\ steady' \subseteq steady
           /\ \A s \in steady' : InformerAt(s)' = InformerAt(s)
<1>1. CASE UNCHANGED vars
  BY <1>1, SameSlotsIfUnchanged DEF vars, reqVars, cacheVars, nsVars, clVars, SameSlots,
                                    IndexOK, Occupied
<1>2. CASE Observe /\ UNCHANGED req
  BY <1>2 DEF Observe
<1>3. \A r, first : ~Begin(r, first)
  BY DEF Begin
<1>4. IndexField => UNCHANGED req
  BY DEF IndexField, RangeOver, AllIndexed, AddIndexers, Finish
<1> QED
  BY <1>1, <1>2, <1>3, <1>4 DEF HNext, Alongside, allVars

LEMMA NextIndex == CachesOK /\ IndexOK /\ [HNext]_allVars => IndexOK'
<1> SUFFICES ASSUME CachesOK, IndexOK, [HNext]_allVars PROVE IndexOK'
  OBVIOUS
<1> DEFINE Wrapped == {informer[x] : x \in SI} \ {Nil}
<1>1. Wrapped \subseteq Wrapped'
  <2>1. \A x \in SI : informer[x] # Nil => informer'[x] = informer[x]
    BY OtherSteps
  <2> QED
    BY <2>1
<1>2. Observe => steady' \subseteq Occupied'
  BY DEF Observe, IndexOK, Occupied
<1>3. UNCHANGED <<nsInfAt, clInfAt>> => Occupied' = Occupied
  BY DEF Occupied, InformerAt
<1>4. CASE UNCHANGED <<vars, indexed>>
  BY <1>3, <1>4
     DEF vars, reqVars, cacheVars, nsVars, clVars, informerVars, siVars, IndexOK,
         ToIndex
<1>5. ASSUME NEW r \in IndexFields, Begin(r, "range"), UNCHANGED indexed PROVE IndexOK'
  BY <1>3, <1>5, <1>1, IndexFieldsAssumption
     DEF Begin, cacheVars, nsVars, clVars, IndexOK, ToIndex
<1>6. CASE Return /\ UNCHANGED indexed
  BY <1>3, <1>6, <1>1 DEF Return, cacheVars, nsVars, clVars, IndexOK, ToIndex
<1>7. CASE Alongside /\ UNCHANGED indexed
  <2>1. toVisit' \subseteq ToIndex \/ toVisit' = {}
    BY <1>7 DEF Alongside, StillThere, IndexOK
  <2>2. toVisit' # {} => pc' = "index" /\ toVisit' \subseteq ToIndex'
    BY <1>7, <2>1 DEF Alongside, StillThere, IndexOK, ToIndex, Occupied
  <2> QED
    BY <1>1, <1>2, <1>7, <2>2 DEF Alongside, IndexOK
<1>8. CASE IndexField /\ Observe
  <2>1. CASE RangeOver
    BY <1>1, <1>2, <1>3, <1>8, <2>1
       DEF RangeOver, cacheVars, nsVars, clVars, IndexOK, ToIndex
  <2>2. CASE AllIndexed
    BY <1>1, <1>2, <1>8, <2>2 DEF AllIndexed, Finish, IndexOK
  <2>3. ASSUME NEW s \in Slots, AddIndexers(s) PROVE IndexOK'
    <3>1. UNCHANGED <<req, cacheVars>> /\ pc = "index"
      BY <2>3 DEF AddIndexers
    <3>2. informer[InformerAt(s)] \in Wrapped
      BY <2>3, CachesTypes, NilAssumption DEF AddIndexers, ToIndex, Occupied, CachesOK
    <3>3. indexed' \subseteq Wrapped
      BY <2>3, <3>2 DEF AddIndexers, IndexOK
    <3>4. toVisit' # {} => pc' = "index" /\ toVisit' \subseteq ToIndex'
      BY <1>3, <2>3, <3>1 DEF AddIndexers, IndexOK, ToIndex, cacheVars, nsVars, clVars
    <3>5. req' = Nil => pc' = "idle"
      BY <2>3, <3>1 DEF IndexOK
    <3> QED
      BY <1>1, <1>2, <1>8, <3>3, <3>4, <3>5 DEF IndexOK
  <2> QED
    BY <1>8, <2>1, <2>2, <2>3 DEF IndexField
<1> QED
  BY <1>4, <1>5, <1>6, <1>7, <1>8 DEF HNext, allVars

LEMMA InitTypes == HInit => CallsOK /\ IndexOK
<1> SUFFICES ASSUME HInit PROVE CallsOK /\ IndexOK
  OBVIOUS
<1> QED
  BY DEF HInit, Init, NoRequest, CallsOK, IndexOK, NoCall

\* Everything has its type, and handlers and indexers are where they belong.
THEOREM HandlersTypeCorrect == HSpec => []HandlersTypeOK
<1>1. CachesOK /\ CallsOK /\ IndexOK /\ [HNext]_allVars => (CallsOK /\ IndexOK)'
  BY NextCalls, NextIndex
<1>2. CachesOK /\ CallsOK /\ IndexOK => HandlersTypeOK
  <2> SUFFICES ASSUME CachesOK, CallsOK, IndexOK PROVE HandlersTypeOK
    OBVIOUS
  <2>1. \A c \in Callers : call[c] # NoCall =>
          call[c].at \in {"record", "register", "returned"}
    BY DEF CallsOK, CallRecords
  <2> QED
    BY <2>1, CachesTypes DEF CachesOK, CallsOK, IndexOK, HandlersTypeOK
<1> QED
  BY <1>1, <1>2, InitTypes, CachesInvariance, PTL DEF HSpec

-----------------------------------------------------------------------------
(* Handlers.                                                               *)

\* Whoever is past Record, or returned at once, has its key in the map.
KeysRecorded ==
    \A c \in Callers : call[c].at \in {"register", "returned"} =>
        call[c].key \in eventListeners[call[c].si]

\* Handler h is registered with i, unless i had stopped.
Hears(i, h) == Registered(i, h) \/ phase[i] = "stopped"

\* A key in the map stands for a handler that is registered or about to be.
KeysHear ==
    \A x \in SI : \A k \in eventListeners[x] :
        /\ informer[x] # Nil
        /\ \/ \E o \in Callers : At(o, "register", x, k)
           \/ \E h \in Handlers : k \in KeysOf(h) /\ Hears(informer[x], h)

LEMMA NextKeysRecorded ==
    CallsOK /\ KeysRecorded /\ [HNext]_allVars => KeysRecorded'
<1> SUFFICES ASSUME CallsOK, KeysRecorded, [HNext]_allVars PROVE KeysRecorded'
  OBVIOUS
<1>1. CASE UNCHANGED handlerVars
  BY <1>1 DEF handlerVars, KeysRecorded
<1>2. ASSUME NEW c \in Callers, AddEventHandler(c) PROVE KeysRecorded'
  <2>1. ASSUME NEW x \in SI, NEW h \in Handlers, NEW k \in KeysOf(h), Check(c, x, h, k)
        PROVE  KeysRecorded'
    BY <2>1 DEF Check, KeysRecorded, CallsOK
  <2>2. ASSUME call[c].at # "start" PROVE call[c] \in CallRecords
    BY <2>2 DEF CallsOK, NoCall
  <2>3. CASE Record(c)
    <3>1. call[c] \in CallRecords
      BY <2>2, <2>3 DEF Record
    <3>2. /\ call'[c].key = call[c].key /\ call'[c].si = call[c].si
          /\ \A d \in Callers : d # c => call'[d] = call[d]
      BY <2>3, <3>1 DEF Record, CallsOK, CallRecords
    <3>3. /\ call[c].key \in eventListeners'[call[c].si]
          /\ \A x \in SI : eventListeners[x] \subseteq eventListeners'[x]
      BY <2>3, <3>1 DEF Record, CallsOK, CallRecords
    <3>4. \A d \in Callers : call[d].at \in {"register", "returned"} => call[d].si \in SI
      BY DEF CallsOK, CallRecords, NoCall
    <3> QED
      BY <3>2, <3>3, <3>4 DEF KeysRecorded
  <2>4. CASE Register(c)
    <3>1. call[c] \in CallRecords
      BY <2>2, <2>4 DEF Register
    <3> QED
      BY <2>4, <3>1 DEF Register, KeysRecorded, CallsOK, CallRecords
  <2> QED
    BY <1>2, <2>1, <2>3, <2>4 DEF AddEventHandler
<1> QED
  BY <1>1, <1>2 DEF HNext, allVars

\* Neither a registration nor the end of an informer is undone.
LEMMA HearsStays ==
    ASSUME CachesOK, CallsOK, [HNext]_allVars, NEW i \in Inf, NEW h \in Handlers,
           Hears(i, h)
    PROVE  Hears(i, h)'
<1>1. phase[i] = "stopped" => phase'[i] = "stopped"
  BY HNextIsCacheStep, Permanent DEF CachesOK
<1>2. listeners[i] \subseteq listeners'[i]
  <2>1. \A c \in Callers : Register(c) => listeners[i] \subseteq listeners'[i]
    BY DEF Register, CallsOK
  <2> QED
    BY <2>1, OtherSteps DEF AddEventHandler, Check, Record, handlerVars
<1>3. \A c \in listeners[i] : call'[c] = call[c]
  <2>1. \A c \in listeners[i] : c \in Callers /\ call[c].at = "returned"
    BY DEF CallsOK
  <2>2. \A c \in Callers : AddEventHandler(c) =>
           \A d \in Callers : call[d].at = "returned" => call'[d] = call[d]
    BY DEF AddEventHandler, Check, Record, Register, CallsOK, NoCall
  <2> QED
    BY <2>1, <2>2, OtherSteps DEF handlerVars
<1> QED
  BY <1>1, <1>2, <1>3 DEF Hears, Registered

LEMMA NextKeysHear ==
    CachesOK /\ CallsOK /\ KeysHear /\ [HNext]_allVars => KeysHear'
<1> SUFFICES ASSUME CachesOK, CallsOK, KeysHear, [HNext]_allVars,
                    NEW x \in SI, NEW k \in eventListeners'[x]
             PROVE  /\ informer'[x] # Nil
                    /\ \/ \E o \in Callers : At(o, "register", x, k)'
                       \/ \E h \in Handlers : k \in KeysOf(h) /\ Hears(informer[x], h)'
  BY DEF KeysHear
<1> DEFINE Goal == /\ informer'[x] # Nil
                   /\ \/ \E o \in Callers : At(o, "register", x, k)'
                      \/ \E h \in Handlers : k \in KeysOf(h) /\ Hears(informer[x], h)'
<1>1. \A y \in SI : informer[y] # Nil => informer[y] \in Inf
  BY CachesTypes DEF CachesOK, InformerTypeOK
\* What has been heard of before still is.
<1>2. ASSUME k \in eventListeners[x],
             \A o \in Callers : At(o, "register", x, k) => At(o, "register", x, k)'
      PROVE  Goal
  <2>1. informer[x] \in Inf /\ informer'[x] = informer[x]
    BY <1>1, <1>2, OtherSteps DEF KeysHear
  <2>2. \A h \in Handlers : Hears(informer[x], h) => Hears(informer[x], h)'
    <3> TAKE h \in Handlers
    <3>1. Hears(informer[x], h) => \A i \in Inf : i = informer[x] => Hears(i, h)'
      BY HearsStays
    <3> QED
      BY <2>1, <3>1 DEF Hears, Registered
  <2> QED
    BY <1>2, <2>1, <2>2, NilAssumption DEF KeysHear
<1>3. ASSUME UNCHANGED handlerVars PROVE Goal
  BY <1>2, <1>3 DEF handlerVars, At
<1>4. ASSUME NEW c \in Callers, AddEventHandler(c), UNCHANGED vars PROVE Goal
  <2>1. UNCHANGED <<informer, phase>>
    BY <1>4 DEF vars, cacheVars, informerVars, siVars, infVars
  <2>2. \A d \in Callers : call[d].at # "start" =>
          /\ call[d] \in CallRecords
          /\ informer[call[d].si] # Nil /\ call[d].key \in KeysOf(call[d].handler)
    BY DEF CallsOK, NoCall
  <2>3. ASSUME NEW y \in SI, NEW h \in Handlers, NEW l \in KeysOf(h), Check(c, y, h, l)
        PROVE  Goal
    BY <1>2, <2>3 DEF Check, At, CallsOK, NoCall
  <2>4. CASE Record(c)
    <3>1. call[c] \in CallRecords /\ informer[call[c].si] # Nil
      BY <2>2, <2>4 DEF Record
    <3>2. call'[c].at = "register" /\ call'[c].si = call[c].si /\ call'[c].key = call[c].key
      BY <2>4, <3>1 DEF Record, CallsOK, CallRecords
    <3>3. CASE x = call[c].si /\ k = call[c].key
      BY <2>1, <3>1, <3>2, <3>3 DEF At
    <3>4. CASE k \in eventListeners[x]
      BY <1>2, <2>4, <3>4 DEF Record, At, CallsOK
    <3> QED
      BY <2>4, <3>1, <3>3, <3>4 DEF Record, CallsOK, CallRecords
  <2>5. CASE Register(c)
    <3>1. k \in eventListeners[x]
      BY <2>5 DEF Register
    <3>2. CASE At(c, "register", x, k)
      <4>1. /\ call[c] \in CallRecords /\ k \in KeysOf(call[c].handler)
            /\ call[c].handler \in Handlers /\ informer[x] \in Inf
        BY <1>1, <2>2, <2>5, <3>2 DEF Register, At, CallRecords
      <4>2. call'[c].handler = call[c].handler
        BY <2>5, <4>1 DEF Register, CallsOK, CallRecords
      <4>3. phase[informer[x]] = "stopped" \/ c \in listeners'[informer[x]]
        BY <2>5, <3>2, <4>1 DEF Register, At, CallsOK
      <4>4. \A h \in Handlers : h = call[c].handler => Hears(informer[x], h)'
        BY <2>1, <4>2, <4>3 DEF Hears, Registered
      <4> QED
        BY <2>1, <4>1, <4>4, NilAssumption
    <3>3. CASE ~At(c, "register", x, k)
      BY <1>2, <2>5, <3>1, <3>3 DEF Register, At, CallsOK
    <3> QED
      BY <3>2, <3>3
  <2> QED
    BY <1>4, <2>3, <2>4, <2>5 DEF AddEventHandler
<1> QED
  BY <1>3, <1>4, OtherSteps

\* A handler that has been added, and is told from the others by its key, is or
\* will be registered with an informer that is in its cache and is not shared,
\* and that watches, or is about to, if its cache is started.
THEOREM HandlersHearAlways == HSpec => []HandlersHear
<1>1. HInit => CallsOK /\ KeysRecorded /\ KeysHear
  <2> SUFFICES ASSUME HInit PROVE CallsOK /\ KeysRecorded /\ KeysHear
    OBVIOUS
  <2>1. KeysRecorded /\ KeysHear
    BY DEF HInit, KeysRecorded, KeysHear, NoCall
  <2> QED
    BY <2>1, InitTypes
<1>2. /\ CachesOK /\ CallsOK /\ KeysRecorded /\ KeysHear /\ [HNext]_allVars
      => (CallsOK /\ KeysRecorded /\ KeysHear)'
  BY NextCalls, NextKeysRecorded, NextKeysHear
<1>3. CachesOK /\ WatchInv /\ CallsOK /\ KeysRecorded /\ KeysHear => HandlersHear
  <2> SUFFICES ASSUME CachesOK, WatchInv, CallsOK, KeysRecorded, KeysHear,
                      NEW c \in Callers, NEW s \in Occupied,
                      call[c].at = "returned", call[c].si = InformerAt(s),
                      informer[call[c].si] \notin Shared,
                      Unambiguous(call[c].key, call[c].handler)
               PROVE  LET x == call[c].si  h == call[c].handler  i == informer[x] IN
                      /\ \/ Registered(i, h)
                         \/ \E o \in Callers : At(o, "register", x, call[c].key)
                      /\ (IF s \in NsSlots THEN nsStarted ELSE clStarted)
                            => x \in goRun \/ Live(i)
    BY DEF HandlersHear
  <2> DEFINE x == call[c].si  h == call[c].handler  i == informer[x]
  <2>1. x \in SI /\ call[c].key \in eventListeners[x]
    BY DEF KeysRecorded, CallsOK, CallRecords, NoCall
  <2>2. /\ phase[i] # "stopped"
        /\ (IF s \in NsSlots THEN nsStarted ELSE clStarted) => x \in goRun \/ Live(i)
    BY OccupantsWatch DEF CachesOK, StartedFor
  <2>3. \/ \E o \in Callers : At(o, "register", x, call[c].key)
        \/ Registered(i, h)
    BY <2>1, <2>2 DEF KeysHear, Hears, Unambiguous
  <2> QED
    BY <2>2, <2>3
<1> QED
  BY <1>1, <1>2, <1>3, CachesInvariance, PTL DEF HSpec

-----------------------------------------------------------------------------
(* Handlers, once for each key.                                            *)

\* Caller c has found its key absent, and has or will have registered.
Adds(c) == \/ call[c].at \in {"record", "register"}
           \/ \E i \in Inf : c \in listeners[i]

\* Two callers both do so for one key only if they overlapped.
OverlapIsSeen ==
    \A c, d \in Callers :
        /\ c # d
        /\ Adds(c) /\ Adds(d)
        /\ call[c].si = call[d].si /\ call[c].key = call[d].key
        => <<call[c].si, call[c].key>> \in raced

KeysAreFinite == \A x \in SI : IsFiniteSet(eventListeners[x])

\* Only Check makes a caller one that adds, and it goes on with the same key.
LEMMA AddsStays ==
    ASSUME CallsOK, [HNext]_allVars, NEW c \in Callers, Adds(c)',
           \A x \in SI, h \in Handlers : \A k \in KeysOf(h) : ~Check(c, x, h, k)
    PROVE  Adds(c) /\ call'[c].si = call[c].si /\ call'[c].key = call[c].key
<1>1. CASE UNCHANGED handlerVars
  BY <1>1 DEF handlerVars, Adds
<1>2. ASSUME NEW d \in Callers, d # c, AddEventHandler(d)
      PROVE  Adds(c) /\ call'[c].si = call[c].si /\ call'[c].key = call[c].key
  <2>1. call'[c] = call[c]
    BY <1>2 DEF AddEventHandler, Check, Record, Register, CallsOK
  <2>2. \A i \in Inf : c \in listeners'[i] => c \in listeners[i]
    BY <1>2 DEF AddEventHandler, Check, Record, Register, CallsOK
  <2> QED
    BY <2>1, <2>2 DEF Adds
<1>3. CASE Record(c) \/ Register(c)
  <2>1. call[c] \in CallRecords /\ call[c].at \in {"record", "register"}
    BY <1>3 DEF Record, Register, CallsOK, NoCall
  <2> QED
    BY <1>3, <2>1 DEF Record, Register, CallsOK, CallRecords, Adds
<1>4. AddEventHandler(c) => Record(c) \/ Register(c)
  BY DEF AddEventHandler
<1> QED
  BY <1>1, <1>2, <1>3, <1>4 DEF HNext, allVars

\* A caller that finds the key absent overlaps with every other that adds it.
LEMMA CheckSees ==
    ASSUME CallsOK, KeysRecorded, OverlapIsSeen,
           NEW c \in Callers, NEW x \in SI, NEW h \in Handlers, NEW k \in KeysOf(h),
           Check(c, x, h, k),
           NEW d \in Callers, d # c, Adds(c)', Adds(d)',
           call'[c].si = call'[d].si, call'[c].key = call'[d].key
    PROVE  <<x, k>> \in raced'
<1>1. /\ call'[c].si = x /\ call'[c].key = k /\ call'[d] = call[d]
      /\ call'[c].at = IF k \in eventListeners[x] THEN "returned" ELSE "record"
      /\ UNCHANGED listeners
  BY DEF Check, CallsOK
<1>2. k \notin eventListeners[x]
  BY <1>1 DEF Check, Adds, CallsOK, NoCall
<1>3. Adds(d)
  BY <1>1 DEF Adds
<1>4. call[d].at \notin {"register", "returned"}
  BY <1>1, <1>2 DEF KeysRecorded
<1>5. At(d, "record", x, k)
  BY <1>1, <1>3, <1>4 DEF Adds, At, CallsOK
<1> QED
  BY <1>5 DEF Check

LEMMA NextOverlap ==
    /\ CachesOK /\ CallsOK /\ KeysRecorded /\ OverlapIsSeen /\ [HNext]_allVars
    => OverlapIsSeen'
<1> SUFFICES ASSUME CachesOK, CallsOK, KeysRecorded, OverlapIsSeen, [HNext]_allVars,
                    NEW c \in Callers, NEW d \in Callers, c # d, Adds(c)', Adds(d)',
                    call'[c].si = call'[d].si, call'[c].key = call'[d].key
             PROVE  <<call'[c].si, call'[c].key>> \in raced'
  BY DEF OverlapIsSeen, Adds
<1>1. raced \subseteq raced'
  BY OtherSteps DEF handlerVars, AddEventHandler, Check, Record, Register
<1>2. ASSUME NEW x \in SI, NEW h \in Handlers, NEW k \in KeysOf(h),
             Check(c, x, h, k) \/ Check(d, x, h, k)
      PROVE  <<call'[c].si, call'[c].key>> \in raced'
  <2>1. <<x, k>> \in raced'
    BY <1>2, CheckSees
  <2>2. call'[c].si = x /\ call'[c].key = k
    BY <1>2 DEF Check, CallsOK
  <2> QED
    BY <2>1, <2>2
<1>3. CASE \A x \in SI, h \in Handlers : \A k \in KeysOf(h) :
              ~Check(c, x, h, k) /\ ~Check(d, x, h, k)
  BY <1>1, <1>3, AddsStays DEF OverlapIsSeen
<1> QED
  BY <1>2, <1>3

LEMMA NextFinite == CallsOK /\ KeysAreFinite /\ [HNext]_allVars => KeysAreFinite'
<1> SUFFICES ASSUME CallsOK, KeysAreFinite, [HNext]_allVars, NEW x \in SI
             PROVE  IsFiniteSet(eventListeners'[x])
  BY DEF KeysAreFinite
<1>1. \/ eventListeners'[x] = eventListeners[x]
      \/ \E c \in Callers : eventListeners'[x] = eventListeners[x] \cup {call[c].key}
  BY DEF HNext, allVars, handlerVars, AddEventHandler, Check, Record, Register, CallsOK
<1> QED
  BY <1>1, FS_AddElement DEF KeysAreFinite

\* An informer that is not shared calls no more handlers than there are keys
\* recorded with its wrapper, unless two calls overlapped.
THEOREM RegisteredOnceAlways == HSpec => []RegisteredOncePerKey
<1>1. HInit => CallsOK /\ KeysRecorded /\ OverlapIsSeen /\ KeysAreFinite
  <2> SUFFICES ASSUME HInit PROVE CallsOK /\ KeysRecorded /\ OverlapIsSeen /\ KeysAreFinite
    OBVIOUS
  <2>1. KeysRecorded /\ OverlapIsSeen
    BY DEF HInit, KeysRecorded, OverlapIsSeen, Adds, NoCall
  <2>2. KeysAreFinite
    BY FS_EmptySet DEF HInit, KeysAreFinite
  <2> QED
    BY <2>1, <2>2, InitTypes
<1>2. /\ CachesOK /\ CallsOK /\ KeysRecorded /\ OverlapIsSeen /\ KeysAreFinite
      /\ [HNext]_allVars
      => (CallsOK /\ KeysRecorded /\ OverlapIsSeen /\ KeysAreFinite)'
  BY NextCalls, NextKeysRecorded, NextOverlap, NextFinite
<1>3. /\ CachesOK /\ WatchInv /\ CallsOK /\ KeysRecorded /\ OverlapIsSeen /\ KeysAreFinite
      => RegisteredOncePerKey
  <2> SUFFICES ASSUME CachesOK, WatchInv, CallsOK, KeysRecorded, OverlapIsSeen,
                      KeysAreFinite,
                      NEW x \in SI, informer[x] \in Inf \ Shared,
                      \A k \in Keys : <<x, k>> \notin raced
               PROVE  Cardinality(listeners[informer[x]]) <= Cardinality(eventListeners[x])
    BY DEF RegisteredOncePerKey
  <2> DEFINE S == listeners[informer[x]]
             T == eventListeners[x]
             keyOf == [c \in S |-> call[c].key]
  <2>1. \A c \in S : /\ c \in Callers /\ call[c].at = "returned" /\ call[c] \in CallRecords
                     /\ informer[call[c].si] = informer[x]
    BY DEF CallsOK, NoCall
  <2>2. \A c \in S : call[c].si = x /\ call[c].key \in Keys
    BY <2>1 DEF CallRecords, WatchInv, Exclusive
  <2>3. \A c \in S : call[c].key \in T
    BY <2>1, <2>2 DEF KeysRecorded
  <2>4. \A c, d \in S : call[c].key = call[d].key => c = d
    BY <2>1, <2>2 DEF OverlapIsSeen, Adds
  <2>5. keyOf \in Injection(S, T)
    BY <2>3, <2>4 DEF Injection, IsInjective
  <2>6. IsFiniteSet(T)
    BY DEF KeysAreFinite
  <2> HIDE DEF S, T, keyOf
  <2>7. Cardinality(S) <= Cardinality(T)
    BY <2>5, <2>6, FS_Injection
  <2> QED
    BY <2>7 DEF S, T
<1> QED
  BY <1>1, <1>2, <1>3, CachesInvariance, PTL DEF HSpec

-----------------------------------------------------------------------------
(* Indexers.                                                               *)

Matching(s) == s.Namespace = req.Namespace /\ s.Gvk = req.Gvk

\* The loop has added the indexer to what it has been through.
IndexingOK ==
    pc = "index" => \A s \in steady : Matching(s) =>
        s \in toVisit \/ informer[InformerAt(s)] \in indexed

LEMMA NextIndexed ==
    CachesOK /\ IndexOK /\ IndexingOK /\ IndexedMeansIndexed /\ [HNext]_allVars
        => IndexingOK' /\ IndexedMeansIndexed'
<1> SUFFICES ASSUME CachesOK, IndexOK, IndexingOK, IndexedMeansIndexed, [HNext]_allVars
             PROVE  IndexingOK' /\ IndexedMeansIndexed'
  OBVIOUS
<1>1. pc' \notin {"index", "done"} => IndexingOK' /\ IndexedMeansIndexed'
  BY DEF IndexingOK, IndexedMeansIndexed
<1>2. ASSUME req # Nil, ~Return, NEW s \in steady'
      PROVE  /\ s \in steady /\ s \in Occupied /\ InformerAt(s)' = InformerAt(s)
             /\ informer'[InformerAt(s)] = informer[InformerAt(s)]
             /\ req' = req
  <2>1. s \in steady /\ s \in Occupied /\ InformerAt(s)' = InformerAt(s) /\ req' = req
    BY <1>2, HLater DEF IndexOK
  <2>2. InformerAt(s) \in SI /\ informer[InformerAt(s)] # Nil
    BY <2>1, CachesTypes, NilAssumption DEF CachesOK, Occupied
  <2> QED
    BY <2>1, <2>2, OtherSteps
\* Nothing is unvisited, and no indexer is lost, by what happens alongside.
<1>3. ASSUME UNCHANGED <<pc, answer>>, indexed \subseteq indexed', pc \in {"index", "done"},
             toVisit' = StillThere \/ toVisit' = toVisit
      PROVE  IndexingOK' /\ IndexedMeansIndexed'
  <2>1. req # Nil /\ ~Return
    BY <1>3 DEF IndexOK, Return
  <2>2. ASSUME NEW s \in steady', s \in toVisit PROVE s \in toVisit'
    BY <1>2, <1>3, <2>1, <2>2 DEF StillThere
  <2> QED
    BY <1>2, <1>3, <2>1, <2>2 DEF IndexingOK, IndexedMeansIndexed, Matching
<1>4. CASE IndexField /\ Observe
  <2>1. CASE RangeOver
    <3>1. req # Nil /\ ~Return
      BY <2>1 DEF RangeOver, IndexOK, Return
    <3> QED
      BY <1>2, <2>1, <3>1 DEF RangeOver, ToIndex, IndexingOK, IndexedMeansIndexed, Matching
  <2>2. CASE AllIndexed
    <3>1. req # Nil /\ ~Return
      BY <2>2 DEF AllIndexed, IndexOK, Return
    <3> QED
      BY <1>2, <2>2, <3>1
         DEF AllIndexed, Finish, IndexingOK, IndexedMeansIndexed, Matching
  <2>3. ASSUME NEW t \in Slots, AddIndexers(t)
        PROVE  IndexingOK' /\ IndexedMeansIndexed'
    <3>1. req # Nil /\ ~Return
      BY <2>3 DEF AddIndexers, IndexOK, Return
    <3>2. CASE pc' = "index"
      <4>1. /\ informer[InformerAt(t)] \in indexed' /\ indexed \subseteq indexed'
            /\ toVisit' = toVisit \ {t} /\ pc = "index"
        BY <2>3, <3>2 DEF AddIndexers
      <4> QED
        BY <1>2, <3>1, <3>2, <4>1 DEF IndexingOK, IndexedMeansIndexed, Matching
    <3>3. CASE pc' = "done" /\ answer' = "Error"
      BY <3>3 DEF IndexingOK, IndexedMeansIndexed
    <3> QED
      BY <2>3, <3>2, <3>3 DEF AddIndexers
  <2> QED
    BY <1>4, <2>1, <2>2, <2>3 DEF IndexField
<1>5. CASE UNCHANGED indexed /\ (UNCHANGED vars \/ Alongside)
  BY <1>1, <1>3, <1>5 DEF vars, reqVars, Alongside
<1>6. CASE Return \/ \E r \in IndexFields : Begin(r, "range")
  BY <1>1, <1>6 DEF Return, Begin
<1> QED
  BY <1>4, <1>5, <1>6 DEF HNext, allVars

\* An IndexField that returns no error has added its indexer to every informer
\* it is about that was in the cache from beginning to end.
THEOREM IndexedMeansIndexedAlways == HSpec => []IndexedMeansIndexed
<1>1. HInit => IndexOK /\ IndexingOK /\ IndexedMeansIndexed
  BY InitTypes DEF HInit, Init, NoRequest, IndexingOK, IndexedMeansIndexed
<1>2. /\ CachesOK /\ IndexOK /\ IndexingOK /\ IndexedMeansIndexed /\ [HNext]_allVars
      => (IndexOK /\ IndexingOK /\ IndexedMeansIndexed)'
  BY NextIndex, NextIndexed
<1> QED
  BY <1>1, <1>2, CachesInvariance, PTL DEF HSpec
=============================================================================

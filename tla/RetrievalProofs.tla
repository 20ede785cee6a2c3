--------------------------- MODULE RetrievalProofs ---------------------------
(***************************************************************************)
(* Theorems about Get and List, for any informers and objects: the types,  *)
(* ListIsRegular and GetIsRegular, and what DeduplicateList returns.       *)
(*                                                                         *)
(* A request meets the informers one by one, in any order, while their     *)
(* stores change.  What it has collected is at any time between the two    *)
(* bounds that the history keeps, always and ever, but for the informers   *)
(* that it has yet to ask.                                                 *)
(***************************************************************************)
EXTENDS Retrieval, FiniteSetTheorems, SequenceTheorems, TLAPS

-----------------------------------------------------------------------------
(* Sequences.                                                              *)

LEMMA LeastElement ==
    ASSUME NEW S, S \subseteq Nat, S # {}
    PROVE  \E m \in S : \A n \in S : m <= n
<1>1. PICK m \in S : \A n \in S : <<n, m>> \notin OpToRel(<, Nat)
  BY WFMin, NatLessThanWellFounded, Zenon
<1>2. \A n \in S : ~ (n < m)
  BY <1>1 DEF OpToRel
<1> QED
  BY <1>2

\* DeduplicateList drops nothing from any list, duplicates or not, as no UID is
\* ever put into uidMap; the comments of both Lists say that results are
\* deduplicated.  By induction over its rounds: there is no first one after
\* which the two differ.
THEOREM DeduplicateListIsIdentity ==
    ASSUME NEW S, NEW list \in Seq(S)
    PROVE  DeduplicateList(list) = list
<1> DEFINE N == 0..Len(list)
           Round(f, n) == IF n = 0 THEN <<>>
                          ELSE IF list[n].Uid \notin {}
                               THEN Append(f[n - 1], list[n]) ELSE f[n - 1]
           Visits(f) == f = [n \in N |-> Round(f, n)]
           objList == CHOOSE f : Visits(f)
           upTo == [n \in N |-> SubSeq(list, 1, n)]
<1>1. DeduplicateList(list) = objList[Len(list)] /\ Len(list) \in Nat
  BY DEF DeduplicateList
<1>2. /\ upTo[0] = <<>>
      /\ \A n \in N \ {0} : upTo[n] = Append(upTo[n - 1], list[n])
  <2> SUFFICES ASSUME NEW n \in 1..Len(list)
               PROVE  SubSeq(list, 1, n) = Append(SubSeq(list, 1, n - 1), list[n])
    BY <1>1
  <2>1. SubSeq(list, 1, n) = SubSeq(list, 1, n - 1) \o <<list[n]>>
    BY SubSeqRecursiveSecond
  <2> QED
    BY <2>1
<1>3. upTo[Len(list)] = list
  BY <1>1, SubSeqFull
<1>4. upTo = [n \in N |-> upTo[n]]
  OBVIOUS
<1> HIDE DEF upTo
<1>5. Visits(upTo)
  <2>1. \A n \in N : Round(upTo, n) = upTo[n]
    BY <1>2
  <2> QED
    BY <1>4, <2>1
<1>6. Visits(objList)
  BY <1>5
<1> HIDE DEF objList
<1>7. \A n \in N : objList[n] = Round(objList, n)
  <2> HIDE DEF Round
  <2> QED
    BY <1>6
\* Whatever else makes these rounds is the same function.
<1>8. \A n \in N : objList[n] = upTo[n]
  <2> DEFINE wrong == {n \in N : objList[n] # upTo[n]}
  <2> SUFFICES ASSUME wrong # {} PROVE FALSE
    OBVIOUS
  <2>1. wrong \subseteq Nat
    OBVIOUS
  <2> HIDE DEF wrong
  <2>2. PICK m \in wrong : \A n \in wrong : m <= n
    BY <2>1, LeastElement
  <2> USE DEF wrong
  <2>3. m # 0
    BY <1>2, <1>7
  <2>4. m - 1 \in N /\ m - 1 \notin wrong
    BY <1>1, <2>2, <2>3
  <2> QED
    BY <1>2, <1>7, <2>3, <2>4
<1> QED
  BY <1>1, <1>3, <1>8

\* SetToSeq lists the elements of a finite set.
LEMMA SetToSeqLists ==
    ASSUME NEW S, IsFiniteSet(S)
    PROVE  /\ SetToSeq(S) \in Seq(S)
           /\ ToSet(SetToSeq(S)) = S
           /\ Len(SetToSeq(S)) = Cardinality(S)
<1> DEFINE n == Cardinality(S)
           seq == SetToSeq(S)
<1>1. n \in Nat /\ ExistsBijection(1..n, S)
  BY FS_CardinalityType
<1>2. \E f \in [1..n -> S] : IsInjective(f)
  BY <1>1 DEF ExistsBijection, Bijection, Injection
<1>3. seq \in [1..n -> S] /\ IsInjective(seq)
  BY <1>2 DEF SetToSeq
<1>4. seq \in Injection(1..n, S)
  BY <1>3 DEF Injection
<1>5. Cardinality(1..n) = n
  BY <1>1, FS_Interval
<1>6. seq \in Surjection(1..n, S)
  BY <1>4, <1>5, FS_Injection
<1>7. ToSet(seq) = S
  BY <1>3, <1>6 DEF ToSet, Surjection
<1>8. seq \in Seq(S) /\ Len(seq) = n
  BY <1>1, <1>3
<1> QED
  BY <1>7, <1>8

\* What is in the concatenation.
LEMMA ToSetConcat ==
    ASSUME NEW S, NEW s \in Seq(S), NEW t \in Seq(S)
    PROVE  /\ s \o t \in Seq(S)
           /\ ToSet(s \o t) = ToSet(s) \cup ToSet(t)
           /\ Len(s \o t) = Len(s) + Len(t)
<1>1. Range(s \o t) = Range(s) \cup Range(t)
  BY RangeConcatenation
<1>2. ToSet(s \o t) = ToSet(s) \cup ToSet(t)
  BY <1>1 DEF ToSet, Range
<1> QED
  BY <1>2, ConcatProperties

-----------------------------------------------------------------------------
(* Types.                                                                  *)

\* An indexer has one object for a key, and it is finite, as it was filled one
\* object at a time.
StoresOK ==
    \A s \in Slots :
        /\ IsFiniteSet(store[s])
        /\ \A o, p \in store[s] : StoreKey(o) = StoreKey(p) => o = p

\* RetrievalTypeOK with what makes it inductive.
Types == RetrievalTypeOK /\ StoresOK /\ objs \in Seq(Objects)

\* What others do to the informers is none of the request's business.
LEMMA AskedStays ==
    ASSUME NEW s \in Slots, AddInformer(s) \/ RemoveInformer(s), call # None
    PROVE  Asked(call)' = Asked(call) /\ s \notin Asked(call)
BY DEF AddInformer, RemoveInformer, Locked, Asked, requestVars

LEMMA MatchesAreListed ==
    ASSUME Types, NEW s \in Slots, call # None
    PROVE  /\ Matches(s, call) \subseteq store[s]
           /\ IsFiniteSet(Matches(s, call))
           /\ SetToSeq(Matches(s, call)) \in Seq(Objects)
           /\ ToSet(SetToSeq(Matches(s, call))) = Matches(s, call)
           /\ Len(SetToSeq(Matches(s, call))) = Cardinality(Matches(s, call))
<1>1. Matches(s, call) \subseteq store[s] /\ store[s] \subseteq Objects
  BY DEF Matches, SiGet, SiList, Types, RetrievalTypeOK
<1>2. IsFiniteSet(Matches(s, call))
  BY <1>1, FS_Subset DEF Types, StoresOK
<1>3. Seq(Matches(s, call)) \subseteq Seq(Objects)
  BY <1>1
<1> QED
  BY <1>1, <1>2, <1>3, SetToSeqLists

LEMMA AskInformerObjs ==
    ASSUME Types, NEW s \in Slots, AskInformer(s)
    PROVE  /\ objs' \in Seq(Objects)
           /\ ToSet(objs') = ToSet(objs) \cup Matches(s, call)
           /\ Len(objs') = Len(objs) + Cardinality(Matches(s, call))
           /\ objs' = <<>> <=> objs = <<>> /\ Matches(s, call) = {}
<1> DEFINE found == SetToSeq(Matches(s, call))
<1>1. objs \in Seq(Objects) /\ found \in Seq(Objects) /\ objs' = objs \o found
  BY MatchesAreListed DEF Types, AskInformer
<1>2. ToSet(found) = Matches(s, call) /\ Len(found) = Cardinality(Matches(s, call))
  BY MatchesAreListed DEF AskInformer
<1> HIDE DEF found
<1>3. /\ objs' \in Seq(Objects)
      /\ ToSet(objs') = ToSet(objs) \cup Matches(s, call)
      /\ Len(objs') = Len(objs) + Cardinality(Matches(s, call))
  <2>1. /\ objs \o found \in Seq(Objects)
        /\ ToSet(objs \o found) = ToSet(objs) \cup ToSet(found)
        /\ Len(objs \o found) = Len(objs) + Len(found)
    BY <1>1, ToSetConcat
  <2> QED
    BY <1>1, <1>2, <2>1
<1>4. \A seq \in Seq(Objects) : Len(seq) \in Nat /\ (seq = <<>> <=> Len(seq) = 0)
  OBVIOUS
<1>5. /\ Cardinality(Matches(s, call)) \in Nat
      /\ Cardinality(Matches(s, call)) = 0 <=> Matches(s, call) = {}
  BY MatchesAreListed, FS_CardinalityType, FS_EmptySet DEF AskInformer
<1> QED
  BY <1>1, <1>3, <1>4, <1>5

LEMMA NextTypes == Types /\ [Next]_vars => Types'
<1> SUFFICES ASSUME Types, [Next]_vars PROVE Types'
  OBVIOUS
<1>1. ASSUME NEW c \in Gets \cup Lists, Begin(c) PROVE Types'
  <2>1. Asked(c)' = Asked(c) /\ ToSet(<<>>) = {} /\ c # None
    BY <1>1, RequestsAssumption DEF Begin, Asked, ToSet
  <2> QED
    BY <1>1, <2>1 DEF Begin, Types, RetrievalTypeOK, StoresOK, Asked
<1>2. ASSUME NEW s \in Slots, AskInformer(s) PROVE Types'
  <2>1. ToSet(objs') \subseteq Objects
    BY <1>2, AskInformerObjs, MatchesAreListed DEF AskInformer, Types, RetrievalTypeOK
  <2>2. left' \subseteq Asked(call) /\ Asked(call)' = Asked(call)
    BY <1>2 DEF AskInformer, Types, RetrievalTypeOK, Asked
  <2> QED
    BY <1>2, <2>1, <2>2, AskInformerObjs DEF AskInformer, Types, RetrievalTypeOK, StoresOK
<1>3. CASE Return
  <2>1. ToSet(<<>>) = {}
    BY DEF ToSet
  <2> QED
    BY <1>3, <2>1 DEF Return, Done, Types, RetrievalTypeOK, StoresOK
<1>4. ASSUME NEW s \in Slots, AddInformer(s) PROVE Types'
  BY <1>4, AskedStays DEF AddInformer, requestVars, Types, RetrievalTypeOK, StoresOK
<1>5. ASSUME NEW s \in Slots, RemoveInformer(s) PROVE Types'
  <2>1. store' \in [Slots -> SUBSET Objects] /\ StoresOK'
    BY <1>5, FS_EmptySet DEF RemoveInformer, Types, RetrievalTypeOK, StoresOK
  <2> QED
    BY <1>5, <2>1, AskedStays DEF RemoveInformer, requestVars, Types, RetrievalTypeOK
<1>6. ASSUME NEW s \in Slots, NEW o \in Objects, Deliver(s, o) PROVE Types'
  <2>1. PICK new \in {{}, {o}} :
          store' = [store EXCEPT ![s] = {p \in @ : StoreKey(p) # StoreKey(o)} \cup new]
    BY <1>6 DEF Deliver
  <2> DEFINE others == {p \in store[s] : StoreKey(p) # StoreKey(o)}
  <2>2. /\ store'[s] = others \cup new
        /\ \A t \in Slots : t # s => store'[t] = store[t]
    BY <2>1 DEF Types, RetrievalTypeOK
  <2>3. IsFiniteSet(others)
    BY FS_Subset DEF Types, StoresOK
  <2>4. IsFiniteSet(store'[s])
    <3>1. IsFiniteSet(others \cup {o})
      BY <2>3, FS_AddElement
    <3> QED
      BY <2>1, <2>2, <2>3, <3>1
  <2>5. StoresOK'
    <3>1. \A p, q \in store'[s] : StoreKey(p) = StoreKey(q) => p = q
      BY <2>1, <2>2 DEF Types, StoresOK
    <3> QED
      BY <2>2, <2>4, <3>1 DEF Types, StoresOK
  <2>6. /\ store' \in [Slots -> SUBSET Objects]
        /\ \A t \in Slots : \A p \in store'[t] : t \in informers /\ InScope(t, p)
    BY <1>6, <2>1, <2>2 DEF Deliver, Types, RetrievalTypeOK
  <2>7. call # None => Asked(call)' = Asked(call)
    BY <1>6 DEF Deliver, requestVars, Asked
  <2> QED
    BY <1>6, <2>5, <2>6, <2>7 DEF Deliver, requestVars, Types, RetrievalTypeOK
<1>7. CASE UNCHANGED vars
  BY <1>7 DEF vars, requestVars, Types, RetrievalTypeOK, StoresOK, Asked
<1> QED
  BY <1>1, <1>2, <1>3, <1>4, <1>5, <1>6, <1>7 DEF Next

LEMMA InitTypes == Init => Types
<1> SUFFICES ASSUME Init PROVE Types
  OBVIOUS
<1>1. IsFiniteSet({}) /\ ToSet(<<>>) = {}
  BY FS_EmptySet DEF ToSet
<1> QED
  BY <1>1 DEF Init, Types, RetrievalTypeOK, StoresOK

\* Nobody changes the map of informers that a request goes through, and an
\* informer holds only what it watches.
THEOREM TypeCorrect == Spec => []RetrievalTypeOK
<1>1. Types => RetrievalTypeOK
  BY DEF Types
<1> QED
  BY <1>1, InitTypes, NextTypes, PTL DEF Spec

-----------------------------------------------------------------------------
(* What a request finds.                                                   *)

\* History: what some informer had all along it has now, and what one has now
\* has been seen.
HistoryOK ==
    call # None => always \subseteq HadBy(call, store) /\ Seen(call, store) \subseteq ever

\* What has been collected was there, and what was there all along has been
\* collected or will be: for a Get, some object of that key.
FoundOK ==
    call # None =>
        /\ ToSet(objs) \subseteq {o \in ever : o.Gvk = call.Gvk}
        /\ call.op = "List" => \A h \in always :
              h[1] \in left \/ \E o \in ToSet(objs) : o.Namespace = h[2] /\ o.Name = h[3]
        /\ call.op = "Get" =>
              /\ objs # <<>> => left = {}
              /\ Len(objs) <= 1
              /\ call.Namespace # AllNamespaces =>
                    \A h \in always : h[1] \in left \/ objs # <<>>

Regular == HistoryOK /\ FoundOK

\* The lister answers with nothing but what is wanted, and all of it unless it
\* is asked for the key of an object without a namespace.
LEMMA MatchesAreWanted ==
    ASSUME Types, call # None, NEW s \in Slots
    PROVE  /\ Matches(s, call) \subseteq Wanted(call, store[s])
           /\ call.op = "List" \/ call.Namespace # AllNamespaces
                 => Wanted(call, store[s]) \subseteq Matches(s, call)
           /\ call.op = "Get" => Cardinality(Matches(s, call)) <= 1
<1>1. /\ call \in Gets \cup Lists
      /\ call \in Gets => call.op = "Get"
      /\ call \in Lists => call.op = "List"
  BY DEF Types, RetrievalTypeOK, Gets, Lists
<1>2. \A o \in store[s] : StoreKey(o) = LookupKey(call)
         => o.Namespace = call.Namespace /\ o.Name = call.Name
  <2>1. \A x, y, z : <<x>> # <<y, z>>
    OBVIOUS
  <2> QED
    BY <2>1 DEF StoreKey, LookupKey
<1>3. \A o \in store[s] :
         /\ o.Namespace = call.Namespace /\ o.Name = call.Name
         /\ call.Namespace # AllNamespaces
         => StoreKey(o) = LookupKey(call)
  BY DEF StoreKey, LookupKey
<1>4. CASE call.op = "List"
  BY <1>1, <1>4 DEF Matches, SiList, Wanted
<1>5. CASE call.op = "Get"
  <2>1. \A o, p \in Matches(s, call) : o = p
    BY <1>5 DEF Matches, SiGet, Types, StoresOK
  <2>2. Cardinality(Matches(s, call)) <= 1
    <3>1. CASE Matches(s, call) = {}
      BY <3>1, FS_EmptySet
    <3>2. ASSUME NEW o \in Matches(s, call) PROVE Cardinality(Matches(s, call)) <= 1
      <4>1. Matches(s, call) = {o}
        BY <2>1
      <4>2. Cardinality({o}) = 1
        BY FS_Singleton
      <4> QED
        BY <4>1, <4>2
    <3> QED
      BY <3>1, <3>2
  <2> QED
    BY <1>2, <1>3, <1>5, <2>2 DEF Matches, SiGet, Wanted
<1> QED
  BY <1>1, <1>4, <1>5

LEMMA NextHistory == Types /\ HistoryOK /\ [Next]_vars => HistoryOK'
<1> SUFFICES ASSUME Types, HistoryOK, [Next]_vars PROVE HistoryOK'
  OBVIOUS
<1>1. UNCHANGED <<informers, store, call, always, ever>> => HistoryOK'
  BY DEF HistoryOK, HadBy, Seen, Asked
<1>2. ASSUME NEW c \in Gets \cup Lists, Begin(c) PROVE HistoryOK'
  BY <1>2 DEF Begin, HistoryOK, HadBy, Seen, Asked
<1>3. CASE Return
  BY <1>3 DEF Return, HistoryOK
<1>4. ASSUME NEW s \in Slots, AddInformer(s) \/ RemoveInformer(s) PROVE HistoryOK'
  <2> SUFFICES ASSUME call # None
               PROVE  HadBy(call, store)' = HadBy(call, store)
                      /\ Seen(call, store)' = Seen(call, store)
    BY <1>4 DEF AddInformer, RemoveInformer, requestVars, HistoryOK
  <2>1. \A t \in Asked(call) : store'[t] = store[t]
    BY <1>4, AskedStays DEF AddInformer, RemoveInformer, Types, RetrievalTypeOK, Asked
  <2>2. \A t \in Asked(call) : Wanted(call, store'[t]) = Wanted(call, store[t])
    BY <2>1
  <2>3. UNCHANGED call /\ Asked(call)' = Asked(call)
    BY <1>4, AskedStays DEF AddInformer, RemoveInformer, requestVars
  <2> QED
    BY <2>2, <2>3 DEF HadBy, Seen, Wanted
<1>5. ASSUME NEW s \in Slots, NEW o \in Objects, Deliver(s, o) PROVE HistoryOK'
  BY <1>5 DEF Deliver, Observe, requestVars, HistoryOK, HadBy, Seen, Asked, Wanted
<1> QED
  BY <1>1, <1>2, <1>3, <1>4, <1>5 DEF Next, AskInformer, vars, requestVars

LEMMA AskInformerFinds ==
    ASSUME Types, HistoryOK, FoundOK, NEW s \in Slots, AskInformer(s)
    PROVE  FoundOK'
<1>1. /\ call \in Gets \cup Lists /\ call # None /\ s \in left /\ s \in Asked(call)
      /\ UNCHANGED <<call, always, ever, store>>
  BY DEF AskInformer, Types, RetrievalTypeOK
<1>2. /\ objs' \in Seq(Objects)
      /\ ToSet(objs') = ToSet(objs) \cup Matches(s, call)
      /\ Len(objs') = Len(objs) + Cardinality(Matches(s, call))
      /\ objs' = <<>> <=> objs = <<>> /\ Matches(s, call) = {}
  BY AskInformerObjs
<1>3. ToSet(objs') \subseteq {o \in ever : o.Gvk = call.Gvk}
  <2>1. Matches(s, call) \subseteq ever
    BY <1>1, MatchesAreWanted DEF HistoryOK, Seen
  <2>2. \A o \in Matches(s, call) : o.Gvk = call.Gvk
    BY <1>1, MatchesAreListed DEF Types, RetrievalTypeOK, InScope, Asked
  <2> QED
    BY <1>1, <1>2, <2>1, <2>2 DEF FoundOK
<1>4. ASSUME NEW h \in always, h[1] = s
      PROVE  \E o \in Wanted(call, store[s]) : o.Namespace = h[2] /\ o.Name = h[3]
  <2>1. h \in HadBy(call, store)
    BY <1>1 DEF HistoryOK
  <2>2. \E t \in Asked(call) : \E o \in Wanted(call, store[t]) :
           h = <<t, o.Namespace, o.Name>>
    BY <2>1 DEF HadBy
  <2> QED
    BY <1>4, <2>2
<1>5. CASE call.op = "List"
  <2>1. left' = left \ {s}
    BY <1>5 DEF AskInformer
  <2>2. Wanted(call, store[s]) \subseteq Matches(s, call)
    BY <1>1, <1>5, MatchesAreWanted
  <2>3. ASSUME NEW h \in always
        PROVE  \/ h[1] \in left'
               \/ \E o \in ToSet(objs') : o.Namespace = h[2] /\ o.Name = h[3]
    <3>1. CASE h[1] = s
      BY <1>2, <1>4, <2>2, <3>1
    <3>2. CASE h[1] # s
      BY <1>1, <1>2, <1>5, <2>1, <3>2 DEF FoundOK
    <3> QED
      BY <3>1, <3>2
  <2> QED
    BY <1>1, <1>3, <1>5, <2>3 DEF FoundOK
<1>6. CASE call.op = "Get"
  <2>1. objs = <<>>
    BY <1>1, <1>6 DEF FoundOK
  <2>2. /\ Matches(s, call) # {} => left' = {}
        /\ Matches(s, call) = {} => left' = left \ {s}
    BY <1>6 DEF AskInformer
  <2>3. Len(objs') <= 1
    <3>1. Len(objs) = 0
      BY <2>1
    <3>2. Cardinality(Matches(s, call)) \in Nat /\ Cardinality(Matches(s, call)) <= 1
      BY <1>1, <1>6, MatchesAreListed, MatchesAreWanted, FS_CardinalityType
    <3> QED
      BY <1>2, <3>1, <3>2
  <2>4. objs' # <<>> => left' = {}
    BY <1>2, <2>1, <2>2
  <2>5. ASSUME call.Namespace # AllNamespaces, NEW h \in always
        PROVE  h[1] \in left' \/ objs' # <<>>
    <3>1. h[1] = s => Matches(s, call) # {}
      BY <1>1, <1>4, <2>5, MatchesAreWanted
    <3>2. h[1] \in left
      BY <1>1, <1>6, <2>1, <2>5 DEF FoundOK
    <3> QED
      BY <1>2, <2>2, <3>1, <3>2
  <2> QED
    BY <1>1, <1>3, <1>6, <2>3, <2>4, <2>5 DEF FoundOK
<1> QED
  BY <1>1, <1>5, <1>6 DEF Gets, Lists

LEMMA NextFound == Types /\ HistoryOK /\ FoundOK /\ [Next]_vars => FoundOK'
<1> SUFFICES ASSUME Types, HistoryOK, FoundOK, [Next]_vars PROVE FoundOK'
  OBVIOUS
<1>1. /\ UNCHANGED requestVars
      /\ call # None => always' \subseteq always /\ ever \subseteq ever'
      => FoundOK'
  BY DEF requestVars, FoundOK
<1>2. ASSUME NEW c \in Gets \cup Lists, Begin(c) PROVE FoundOK'
  <2>1. \A h \in always' : h[1] \in left'
    BY <1>2 DEF Begin, HadBy
  <2>2. ToSet(objs') = {} /\ objs' = <<>> /\ Len(objs') = 0
    BY <1>2 DEF Begin, ToSet
  <2> QED
    BY <2>1, <2>2 DEF FoundOK
<1>3. ASSUME NEW s \in Slots, AskInformer(s) PROVE FoundOK'
  BY <1>3, AskInformerFinds
<1>4. CASE Return
  BY <1>4 DEF Return, FoundOK
<1>5. ASSUME NEW s \in Slots, AddInformer(s) \/ RemoveInformer(s) PROVE FoundOK'
  BY <1>1, <1>5 DEF AddInformer, RemoveInformer
<1>6. ASSUME NEW s \in Slots, NEW o \in Objects, Deliver(s, o) PROVE FoundOK'
  BY <1>1, <1>6 DEF Deliver, Observe
<1>7. UNCHANGED vars => FoundOK'
  BY <1>1 DEF vars
<1> QED
  BY <1>2, <1>3, <1>4, <1>5, <1>6, <1>7 DEF Next

LEMMA RegularInvariance == Spec => [](Types /\ Regular)
<1>1. Init => Types /\ Regular
  BY InitTypes DEF Init, Regular, HistoryOK, FoundOK
<1>2. Types /\ Regular /\ [Next]_vars => (Types /\ Regular)'
  BY NextTypes, NextHistory, NextFound DEF Regular
<1> QED
  BY <1>1, <1>2, PTL DEF Spec

\* A List answers with what was there: it misses no object that one informer
\* had all along, and returns none that no informer had.
THEOREM ListIsRegularAlways == Spec => []ListIsRegular
<1>1. Types /\ Regular => ListIsRegular
  <2> SUFFICES ASSUME Types, FoundOK, Done, call.op = "List"
               PROVE  /\ \A h \in always : \E o \in ToSet(Answer) :
                            o.Namespace = h[2] /\ o.Name = h[3]
                      /\ ToSet(Answer) \subseteq {o \in ever : o.Gvk = call.Gvk}
    BY DEF Regular, ListIsRegular
  <2>1. Answer = objs
    BY DeduplicateListIsIdentity DEF Answer, Types
  <2> QED
    BY <2>1 DEF Done, FoundOK
<1> QED
  BY <1>1, RegularInvariance, PTL

\* A Get for an object with a namespace answers with one that was there, and
\* finds one if some informer had it all along.
THEOREM GetIsRegularAlways == Spec => []GetIsRegular
<1>1. Types /\ Regular => GetIsRegular
  BY DEF Regular, Types, FoundOK, Done, Answer, GetIsRegular, GetsWhatIsThere
<1> QED
  BY <1>1, RegularInvariance, PTL
=============================================================================

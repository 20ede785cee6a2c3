----------------------- MODULE MCHandlersAndIndexers -----------------------
(***************************************************************************)
(* HandlersAndIndexers for TLC: two informer keys of one GVK in a          *)
(* namespace and one for the cluster.  There is one handler, which the    *)
(* two methods tell apart; or two, closures of one literal, with one hash. *)
(***************************************************************************)
EXTENDS HandlersAndIndexers, TLC

CONSTANTS ns1, pod, k1, k2, k3, h1, h2, a

Slot(ns, key) == [Namespace |-> ns, Gvk |-> pod, Key |-> key]

TwoKeysAndCluster == {Slot(ns1, k1), Slot(ns1, k2), Slot(AllNamespaces, k3)}
OneKey            == {Slot(ns1, k1)}

OneHandler  == h1 :> {a}
TwoClosures == h1 :> {a} @@ h2 :> {a}

Symmetry == Permutations(SI) \cup Permutations(Inf) \cup Permutations(Callers)
                \cup Permutations({k1, k2})
=============================================================================

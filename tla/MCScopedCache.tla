--------------------------- MODULE MCScopedCache ---------------------------
(***************************************************************************)
(* ScopedCache for TLC: two informer keys in a namespace and one for the   *)
(* cluster, all of one GVK.                                                *)
(***************************************************************************)
EXTENDS ScopedCache, TLC

CONSTANTS ns1, pod, k1, k2, k3

Slot(ns, key) == [Namespace |-> ns, Gvk |-> pod, Key |-> key]

NamespaceAndCluster == {Slot(ns1, k1), Slot(AllNamespaces, k3)}
TwoKeysAndCluster   == {Slot(ns1, k2)} \cup NamespaceAndCluster

AllOps == {"Get", "List", "GetInformer", "WaitForCacheSync"}

Symmetry == Permutations(SI) \cup Permutations(Inf) \cup Permutations({k1, k2})
=============================================================================

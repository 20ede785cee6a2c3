------------------------ MODULE MCClusterScopedCache ------------------------
(***************************************************************************)
(* ClusterScopedCache for TLC.  TwoSlots has two keys for one GVK;         *)
(* ManySlots adds a second GVK.                                            *)
(***************************************************************************)
EXTENDS ClusterScopedCache, TLC

CONSTANTS pod, cm, k1, k2

Slot(gvk, key) == [Gvk |-> gvk, Key |-> key]

ManySlots == {Slot(pod, k1), Slot(pod, k2), Slot(cm, k1)}
TwoSlots  == {Slot(pod, k1), Slot(pod, k2)}

Symmetry == Permutations(SI) \cup Permutations(Inf) \cup Permutations(UID)
=============================================================================

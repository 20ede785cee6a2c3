----------------------- MODULE MCNamespaceScopedCache -----------------------
(***************************************************************************)
(* NamespaceScopedCache for TLC.  ManySlots has two keys for one GVK and   *)
(* two GVKs for one namespace, so that a removal may leave each level of   *)
(* the map empty or not.                                                   *)
(***************************************************************************)
EXTENDS NamespaceScopedCache, TLC

CONSTANTS ns1, pod, cm, k1, k2

Slot(ns, gvk, key) == [Namespace |-> ns, Gvk |-> gvk, Key |-> key]

ManySlots == {Slot(ns1, pod, k1), Slot(ns1, pod, k2), Slot(ns1, cm, k1)}
TwoSlots  == {Slot(ns1, pod, k1), Slot(ns1, pod, k2)}
OneSlot   == {Slot(ns1, pod, k1)}

Symmetry == Permutations(SI) \cup Permutations(Inf \ Shared) \cup Permutations(UID)
=============================================================================

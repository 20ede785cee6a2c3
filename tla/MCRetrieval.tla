---------------------------- MODULE MCRetrieval ----------------------------
(***************************************************************************)
(* Retrieval for TLC.  Pods have a namespace; the pod a of ns1 is deleted  *)
(* and created again with another UID.  A node has none.                   *)
(***************************************************************************)
EXTENDS Retrieval

CONSTANTS ns1, ns2, pod, node, a, k1, k2, u1, u2, u3, u4

Slot(ns, gvk, key) == [Namespace |-> ns, Gvk |-> gvk, Key |-> key]
Object(ns, gvk, name, uid) ==
    [Namespace |-> ns, Gvk |-> gvk, Name |-> name, Uid |-> uid]

Pods  == {Object(ns1, pod, a, u1), Object(ns1, pod, a, u2),
          Object(ns2, pod, a, u3)}
Nodes == {Object(AllNamespaces, node, a, u4)}

\* Two informers in one namespace, one in another, and one for the cluster.
NamespaceSlots == {Slot(ns1, pod, k1), Slot(ns1, pod, k2), Slot(ns2, pod, k1)}
PodSlots       == NamespaceSlots \cup {Slot(AllNamespaces, pod, k1)}
NodeSlots      == {Slot(AllNamespaces, node, k1)}
=============================================================================

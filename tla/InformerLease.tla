--------------------------- MODULE InformerLease ---------------------------
(***************************************************************************)
(* What a scoped cache promises the dependents of its informers, and all   *)
(* that RemoveInformer's doc comment says of them: an informer is in the   *)
(* cache from the moment its first dependent asks for it until its last    *)
(* dependent gives it up, unless the removal is forced.  A dependent that  *)
(* asks again holds the informer once, and giving up what one does not     *)
(* hold changes nothing for the others.                                    *)
(*                                                                         *)
(* There are no maps, no locks, no client-go and no identities here: the   *)
(* caches are shown to implement this module.                              *)
(***************************************************************************)
CONSTANTS
    Slots,      \* where an informer can be
    UID         \* dependents

VARIABLES
    registered, \* the slots that have an informer
    holders,    \* the dependents of each informer
    evictable   \* the slots that may lose their informer by force now; an
                \* input, which this module never constrains

leaseVars == <<registered, holders>>

Init ==
    /\ registered = {}
    /\ holders = [s \in Slots |-> {}]

Acquire(s, d) ==
    /\ registered' = registered \cup {s}
    /\ holders' = [holders EXCEPT ![s] = @ \cup {d}]

\* The informer stays for the dependents that are left.
Release(s, d) ==
    /\ s \in registered
    /\ holders' = [holders EXCEPT ![s] = @ \ {d}]
    /\ registered' = IF holders[s] \ {d} = {} THEN registered \ {s}
                                              ELSE registered

\* By force: all its dependents lose the informer at once.
Evict(s) ==
    /\ s \in evictable
    /\ registered' = registered \ {s}
    /\ holders' = [holders EXCEPT ![s] = {}]

Next ==
    \E s \in Slots :
        \/ \E d \in UID : Acquire(s, d) \/ Release(s, d)
        \/ Evict(s)

Spec == Init /\ [][Next]_leaseVars
=============================================================================

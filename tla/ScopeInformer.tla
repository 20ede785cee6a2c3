--------------------------- MODULE ScopeInformer ---------------------------
(***************************************************************************)
(* The ScopeInformer of pkg/cache/components: the wrapper both caches keep *)
(* around a client-go informer, together with the part of client-go that  *)
(* it drives.                                                              *)
(*                                                                         *)
(* A ScopeInformer has a context of its own, and the client-go informer it *)
(* wraps stops when the context it was run with is cancelled.  Running is  *)
(* asynchronous: the caches execute "go si.Run()", so a goroutine exists   *)
(* before the informer is running, and anything may happen in between.     *)
(* The watch itself fails and is retried at any time, and a failure calls  *)
(* the informer's watch error handler from the informer's own goroutine.   *)
(*                                                                         *)
(* client-go is not part of the repository.  It is modelled from how the   *)
(* repository uses it: an informer runs at most once, ever, and refuses a  *)
(* watch error handler once it has been started                            *)
(* (scope_informer_test.go, "Should return an error if the informer is     *)
(* already started").                                                      *)
(***************************************************************************)
CONSTANTS
    SI,     \* identities of ScopeInformers; bounds how many are ever created
    Inf,    \* client-go informers (informers.GenericInformer)
    UID,    \* UIDs of dependents
    Slots,  \* where an informer can be put in a cache: the InformerOptions
            \* without the informer and its dependent
    Nil

ASSUME NilAssumption == Nil \notin SI /\ Nil \notin Inf /\ Nil \notin Slots

VARIABLES
    \* The fields of a ScopeInformer.
    informer,           \* the informer it wraps, Nil for an unused identity
    cancelled,          \* whether its context has been cancelled
    dependents,         \* the UIDs of its dependents
    \* Goroutines.
    goRun,              \* ScopeInformers with a "go si.Run()" not yet executed
    \* client-go.
    phase,              \* where the goroutine of an informer is
    stopCh,             \* the ScopeInformer whose context stops the informer
    watchErrorHandler,  \* the slot its watch error handler removes
    synced,             \* what HasSynced() returns
    \* The API server.
    forbidden           \* informers whose list and watch requests it refuses

siVars  == <<informer, cancelled, dependents>>
infVars == <<phase, stopCh, watchErrorHandler, synced>>
informerVars == <<siVars, goRun, infVars, forbidden>>

\* "idle": never run.  "running": listing or watching.  "forbidden" and
\* "failed": the request was answered with a Forbidden, or another, error and
\* the goroutine is about to call the watch error handler.  "stopped": Run
\* has returned.
Phase == {"idle", "running", "forbidden", "failed", "stopped"}

\* The informers with a live goroutine.
Live(i) == phase[i] \in {"running", "forbidden", "failed"}

InformerTypeOK ==
    /\ informer \in [SI -> Inf \cup {Nil}]
    /\ cancelled \in [SI -> BOOLEAN]
    /\ dependents \in [SI -> SUBSET UID]
    /\ goRun \in SUBSET {x \in SI : informer[x] # Nil}
    /\ phase \in [Inf -> Phase]
    /\ stopCh \in [Inf -> SI \cup {Nil}]
    /\ watchErrorHandler \in [Inf -> Slots \cup {Nil}]
    /\ synced \in [Inf -> BOOLEAN]
    /\ forbidden \in SUBSET Inf
    /\ \A i \in Inf : stopCh[i] = Nil <=> phase[i] = "idle"

InformerInit ==
    /\ informer = [x \in SI |-> Nil]
    /\ cancelled = [x \in SI |-> FALSE]
    /\ dependents = [x \in SI |-> {}]
    /\ goRun = {}
    /\ phase = [i \in Inf |-> "idle"]
    /\ stopCh = [i \in Inf |-> Nil]
    /\ watchErrorHandler = [i \in Inf |-> Nil]
    /\ synced = [i \in Inf |-> FALSE]
    /\ forbidden \in SUBSET Inf

-----------------------------------------------------------------------------
(* What the caches call while they hold their lock.                        *)

\* A new ScopeInformer wraps i; its context is fresh and it has no dependents.
\* Unused identities are all alike: which of them it gets makes no difference.
NewScopeInformer(x, i) ==
    /\ informer[x] = Nil
    /\ x = CHOOSE y \in SI : informer[y] = Nil
    /\ informer' = [informer EXCEPT ![x] = i]

AddDependent(x, d) == dependents' = [dependents EXCEPT ![x] = @ \cup {d}]

\* The dependents of x without d: what RemoveDependent leaves.
Without(x, d) == dependents[x] \ {d}

MutantTerminateNothing(X) == UNCHANGED cancelled

\* Cancels the contexts of all ScopeInformers in X.
Terminate(X) == cancelled' = [x \in SI |-> cancelled[x] \/ x \in X]

MutantSetNoHandler(i, s) == UNCHANGED watchErrorHandler

\* A started informer refuses the handler; the caches ignore that error.
SetWatchErrorHandler(i, s) ==
    watchErrorHandler' =
        IF phase[i] = "idle" THEN [watchErrorHandler EXCEPT ![i] = s]
                             ELSE watchErrorHandler

HasSynced(x) == synced[informer[x]]

-----------------------------------------------------------------------------
(* What happens on the goroutines of the informers.                        *)

MutantRunInALoop(x) ==
    LET i == informer[x] IN
    /\ x \in goRun
    /\ \/ /\ phase[i] = "idle"
          /\ phase' = [phase EXCEPT ![i] =
                          IF cancelled[x] THEN "stopped" ELSE "running"]
          /\ stopCh' = [stopCh EXCEPT ![i] = x]
       \/ /\ phase[i] # "idle"
          /\ UNCHANGED <<phase, stopCh>>
    /\ UNCHANGED <<siVars, goRun, watchErrorHandler, synced, forbidden>>

\* The goroutine "go si.Run()" gets to run.  An informer that was started
\* before, by whichever ScopeInformer, ignores the call; one whose context is
\* cancelled already returns at once, without a single request.
Run(x) ==
    LET i == informer[x] IN
    /\ x \in goRun
    /\ goRun' = goRun \ {x}
    /\ \/ /\ phase[i] = "idle"
          /\ phase' = [phase EXCEPT ![i] =
                          IF cancelled[x] THEN "stopped" ELSE "running"]
          /\ stopCh' = [stopCh EXCEPT ![i] = x]
       \/ /\ phase[i] # "idle"
          /\ UNCHANGED <<phase, stopCh>>
    /\ UNCHANGED <<siVars, watchErrorHandler, synced, forbidden>>

\* The informer notices that the context it runs with has been cancelled.
Stop(i) ==
    /\ phase[i] = "running"
    /\ cancelled[stopCh[i]]
    /\ phase' = [phase EXCEPT ![i] = "stopped"]
    /\ UNCHANGED <<siVars, goRun, stopCh, watchErrorHandler, synced, forbidden>>

\* The initial list has been delivered.
Sync(i) ==
    /\ phase[i] = "running"
    /\ i \notin forbidden
    /\ ~synced[i]
    /\ synced' = [synced EXCEPT ![i] = TRUE]
    /\ UNCHANGED <<siVars, goRun, phase, stopCh, watchErrorHandler, forbidden>>

\* A list or watch request fails, because it is refused or for any other
\* reason.  The answer may arrive when the context is already cancelled.
WatchFails(i, err) ==
    /\ phase[i] = "running"
    /\ err = "forbidden" => i \in forbidden
    /\ phase' = [phase EXCEPT ![i] = err]
    /\ UNCHANGED <<siVars, goRun, stopCh, watchErrorHandler, synced, forbidden>>

\* The handler has returned: the informer backs off and tries again, or stops
\* without another request if its context is cancelled by now.
HandlerReturns(i) ==
    phase' = [phase EXCEPT ![i] =
                 IF cancelled'[stopCh[i]] THEN "stopped" ELSE "running"]

\* A role binding is created or deleted.
ChangePermission(i) ==
    /\ forbidden' = (forbidden \ {i}) \cup ({i} \ forbidden)
    /\ UNCHANGED <<siVars, goRun, infVars>>

\* The steps that involve no cache.
InformerNext ==
    \/ \E x \in SI : Run(x)
    \/ \E i \in Inf : Stop(i)
    \/ \E i \in Inf : Sync(i)
    \/ \E i \in Inf, err \in {"forbidden", "failed"} : WatchFails(i, err)
    \/ \E i \in Inf : ChangePermission(i)
=============================================================================

------------------------------ MODULE Registry ------------------------------
(***************************************************************************)
(* The provider registry (provider/registry.go) for one source, and the    *)
(* part of the engine that keeps it (engine.go): capability probes, which  *)
(* ask every provider and mark the unusable ones, the capability cache and *)
(* its persisted copy.                                                     *)
(*                                                                         *)
(* A probe runs one goroutine per provider; its calls to the registry and  *)
(* to the cache are separate critical sections.  What a provider answers   *)
(* is arbitrary: "ok", "incompatible" (unsupported or version_incompatible *)
(* errors, which make it unusable) or "other" (permission, identity,       *)
(* deadline and the rest, which must stay visible to the caller).          *)
(***************************************************************************)
EXTENDS Integers, Sequences, FiniteSets

CONSTANTS
    Provider, Op,
    OpOrder,      \* the operations in the order of orderedOperations
    Supports,     \* [Provider -> SUBSET Op] descriptor.Operations
    HealthChecker,   \* providers that implement Health
    OpChecker,    \* providers that implement HealthOperation
    Probe,        \* probing calls of Capabilities
    Concurrency,  \* GlobalConcurrency
    None

Answer == {"ok", "incompatible", "other"}

\* What a probe found: Health's answer, and HealthOperation's for each operation.
Capability == [error : Answer, ops : [Op -> Answer \cup {None}]]

ASSUME RegistryAssumption ==
    /\ Supports \in [Provider -> SUBSET Op]
    /\ OpOrder \in [1 .. Cardinality(Op) -> Op]
    /\ Concurrency \in Nat \ {0}
    /\ None \notin Provider \cup Answer \cup Capability

VARIABLES
    running,        \* configuration is finished
    bySource,       \* registered providers in order of registration
    preferred, preferredByOp,
    unavailable,    \* [Provider -> None or the error's kind]
    unavailableOp,  \* [Provider -> [Op -> None or the error's kind]]
    capCache,       \* [Provider -> None or capability]
    persisted,      \* [Provider -> None or capability] in the session store
    pc, cap,        \* [Probe -> [Provider -> ...]] place and capability of a goroutine
    overlap         \* two probes ran at once since the start: for properties only

registry == <<bySource, preferred, preferredByOp, unavailable, unavailableOp>>
vars == <<running, registry, capCache, persisted, pc, cap, overlap>>

\* A capability before anything was asked.
Fresh == [error |-> "ok", ops |-> [o \in Op |-> None]]

NoMarks == /\ unavailable = [p \in Provider |-> None]
           /\ unavailableOp = [p \in Provider |-> [o \in Op |-> None]]

Init ==
    /\ running = FALSE
    /\ bySource = <<>> /\ preferred = None
    /\ preferredByOp = [o \in Op |-> None]
    /\ NoMarks
    /\ capCache = [p \in Provider |-> None] /\ persisted = capCache
    /\ pc = [k \in Probe |-> [p \in Provider |-> "idle"]]
    /\ cap = [k \in Probe |-> [p \in Provider |-> Fresh]]
    /\ overlap = FALSE

Registered == {bySource[i] : i \in DOMAIN bySource}

----------------------------------------------------------------------------
(* Configuration: Register and the routes. *)

Configure == ~running /\ UNCHANGED <<running, unavailable, unavailableOp, capCache,
                                      persisted, pc, cap, overlap>>

\* Register: the first provider of the source becomes its default.
Register(p, prefer) ==
    /\ Configure /\ p \notin Registered
    /\ bySource' = Append(bySource, p)
    /\ preferred' = IF prefer \/ preferred = None THEN p ELSE preferred
    /\ UNCHANGED preferredByOp

\* validateRouteLocked; a route for the whole source names no operation.
ValidRoute(p, ops) == p \in Registered /\ ops \subseteq Supports[p]

SetPreferred(p) ==
    /\ Configure /\ ValidRoute(p, {})
    /\ preferred' = p
    /\ UNCHANGED <<bySource, preferredByOp>>

SetPreferredForOperation(o, p) ==
    /\ Configure /\ ValidRoute(p, {o})
    /\ preferredByOp' = [preferredByOp EXCEPT ![o] = p]
    /\ UNCHANGED <<bySource, preferred>>

\* The engine starts with a configured registry.
Start ==
    /\ ~running /\ bySource # <<>>
    /\ running' = TRUE
    /\ UNCHANGED <<registry, capCache, persisted, pc, cap, overlap>>

----------------------------------------------------------------------------
(* Routing. *)

\* operationAvailableLocked.
Available(p, o) == unavailable[p] = None /\ unavailableOp[p][o] = None

\* ForOperation: the explicit route, the default, then any provider in order.
ForOperation(o) ==
    LET Fits(p) == Available(p, o) /\ o \in Supports[p]
        fitting == {i \in DOMAIN bySource : Fits(bySource[i])}
    IN CASE preferredByOp[o] # None /\ Available(preferredByOp[o], o) -> preferredByOp[o]
         [] preferred # None /\ Fits(preferred) -> preferred
         [] fitting # {} -> bySource[CHOOSE i \in fitting : \A j \in fitting : i <= j]
         [] OTHER -> None

\* Mutant: an unusable explicit route ends the search.
ForOperationExplicit(o) ==
    IF preferredByOp[o] # None
    THEN IF Available(preferredByOp[o], o) THEN preferredByOp[o] ELSE None
    ELSE ForOperation(o)

\* The provider a request for this operation is sent to.
Route(o) == ForOperation(o)

\* providerForRef: an explicit route, the provider that found the object unless
\* it is unusable as a whole, then ForOperation.
RouteForRef(found, o) ==
    CASE preferredByOp[o] # None /\ Available(preferredByOp[o], o) -> preferredByOp[o]
      [] found \in Registered /\ unavailable[found] = None /\ o \in Supports[found] -> found
      [] OTHER -> Route(o)

----------------------------------------------------------------------------
(* Capabilities with Probe set: one goroutine per provider. *)

Working(k) == \E p \in Provider : pc[k][p] # "idle"

Go(k, p, label) == pc' = [pc EXCEPT ![k][p] = label]

Busy(k) == Cardinality({p \in Provider : pc[k][p] \notin {"idle", "wait", "done"}})

Capabilities(k) ==
    /\ running /\ ~Working(k)
    /\ pc' = [pc EXCEPT ![k] = [p \in Provider |-> IF p \in Registered THEN "wait" ELSE "done"]]
    /\ cap' = [cap EXCEPT ![k] = [p \in Provider |-> Fresh]]
    /\ overlap' = (overlap \/ \E j \in Probe : Working(j))
    /\ UNCHANGED <<running, registry, capCache, persisted>>

Quiet == UNCHANGED <<running, bySource, preferred, preferredByOp, persisted, overlap>>

\* The semaphore, then Health.
Health(k, p) ==
    /\ pc[k][p] = "wait" /\ Busy(k) < Concurrency
    /\ \E answer \in IF p \in HealthChecker THEN Answer ELSE {"ok"} :
          /\ cap' = [cap EXCEPT ![k][p].error = answer]
          /\ Go(k, p, IF answer = "ok" THEN "clear" ELSE "cache")
    /\ Quiet /\ UNCHANGED <<unavailable, unavailableOp, capCache>>

\* A healthy provider's mark is removed before its operations are probed.
ClearUnavailable(k, p) ==
    /\ pc[k][p] = "clear"
    /\ unavailable' = [unavailable EXCEPT ![p] = None]
    /\ Go(k, p, IF p \in OpChecker /\ Supports[p] # {} THEN "operations" ELSE "cache")
    /\ Quiet /\ UNCHANGED <<unavailableOp, capCache, cap>>

\* The mark of an operation, set by a handshake failure and removed otherwise.
SetOperationUnavailable(p, o, answer) ==
    unavailableOp' = [unavailableOp EXCEPT ![p][o] =
                         IF answer = "incompatible" THEN answer ELSE None]

\* The operations of the provider that are left to probe, in order.
Unprobed(k, p) ==
    SelectSeq(OpOrder, LAMBDA o : o \in Supports[p] /\ cap[k][p].ops[o] = None)

\* HealthOperation, and the operation's mark by its answer.
HealthOperation(k, p) ==
    /\ pc[k][p] = "operations" /\ Unprobed(k, p) # <<>>
    /\ LET o == Head(Unprobed(k, p))
       IN \E answer \in Answer :
             /\ cap' = [cap EXCEPT ![k][p].ops[o] = answer]
             /\ SetOperationUnavailable(p, o, answer)
    /\ Go(k, p, IF Len(Unprobed(k, p)) = 1 THEN "cache" ELSE "operations")
    /\ Quiet /\ UNCHANGED <<unavailable, capCache>>

\* capCache is written in a critical section of its own, before the mark.
CacheCapability(k, p) ==
    /\ pc[k][p] = "cache"
    /\ capCache' = [capCache EXCEPT ![p] = cap[k][p]]
    /\ Go(k, p, "mark")
    /\ Quiet /\ UNCHANGED <<cap, unavailable, unavailableOp>>

\* Mutant: every failed probe makes the provider unusable.
MarkAny(error) == IF error = "ok" THEN None ELSE error

\* The mark that an error leaves in the registry.
MarkFor(error) == IF error = "incompatible" THEN error ELSE None

\* Mutant: a failed probe that is no handshake failure leaves the old mark.
RemarkKeep(p, error) == IF error = "incompatible" THEN error ELSE unavailable[p]

\* The provider's mark after its probe: a healthy one was cleared before.
Remark(p, error) == IF error = "ok" THEN unavailable[p] ELSE MarkFor(error)

MarkUnavailable(k, p) ==
    /\ pc[k][p] = "mark"
    /\ unavailable' = [unavailable EXCEPT ![p] = Remark(p, cap[k][p].error)]
    /\ Go(k, p, "done")
    /\ Quiet /\ UNCHANGED <<cap, unavailableOp, capCache>>

\* wg.Wait, then SaveCapabilities of the whole answer, which may fail.
SaveCapabilities(k) ==
    /\ Working(k) /\ \A p \in Provider : pc[k][p] = "done"
    /\ \E saved \in BOOLEAN :
          persisted' = IF saved
                       THEN [p \in Provider |-> IF p \in Registered THEN cap[k][p] ELSE persisted[p]]
                       ELSE persisted
    /\ pc' = [pc EXCEPT ![k] = [p \in Provider |-> "idle"]]
    /\ cap' = [cap EXCEPT ![k] = [p \in Provider |-> Fresh]]
    /\ UNCHANGED <<running, registry, capCache, overlap>>

\* Capabilities without Probe: what the cache holds for a provider.
Reported(p) == IF capCache[p] = None THEN Fresh ELSE capCache[p]

----------------------------------------------------------------------------
(* Restart. *)

\* New: the mark of a provider whose persisted capability has an error.
Restored(p) == IF persisted[p] = None THEN None ELSE MarkFor(persisted[p].error)

\* The process ends at any point; New loads the persisted capabilities into a
\* registry built from the same configuration.
Restart ==
    /\ running
    /\ capCache' = persisted
    /\ unavailable' = [p \in Provider |-> Restored(p)]
    /\ unavailableOp' =
          [p \in Provider |-> [o \in Op |->
              IF persisted[p] = None \/ persisted[p].ops[o] = None THEN None
              ELSE MarkFor(persisted[p].ops[o])]]
    /\ pc' = [k \in Probe |-> [p \in Provider |-> "idle"]]
    /\ cap' = [k \in Probe |-> [p \in Provider |-> Fresh]]
    /\ overlap' = FALSE
    /\ UNCHANGED <<running, bySource, preferred, preferredByOp, persisted>>

Goroutine(k, p) ==
    \/ Health(k, p) \/ ClearUnavailable(k, p) \/ HealthOperation(k, p)
    \/ CacheCapability(k, p) \/ MarkUnavailable(k, p)

Next ==
    \/ \E p \in Provider : (\E prefer \in BOOLEAN : Register(p, prefer)) \/ SetPreferred(p)
    \/ \E p \in Provider, o \in Op : SetPreferredForOperation(o, p)
    \/ Start \/ Restart
    \/ \E k \in Probe : Capabilities(k) \/ SaveCapabilities(k) \/ \E p \in Provider : Goroutine(k, p)

Spec == Init /\ [][Next]_vars

----------------------------------------------------------------------------
(* Properties. *)

\* A request is routed to a registered provider that supports the operation and
\* is not marked unusable, and it finds one whenever there is one, whatever
\* routes were configured and whatever probes are doing meanwhile.  An object's
\* own provider is preferred unless it is unusable as a whole.
RoutesSound ==
    \A o \in Op :
        LET usable == {p \in Registered : Available(p, o) /\ o \in Supports[p]}
        IN /\ IF usable = {} THEN Route(o) = None ELSE Route(o) \in usable
           /\ usable # {} => \A found \in Provider :
                 LET p == RouteForRef(found, o)
                 IN p \in Registered /\ unavailable[p] = None /\ o \in Supports[p]

\* Once no probe is running, and unless two of them overlapped, the registry and
\* the capabilities reported tell the same story, after restarts at any point
\* too: exactly the providers and operations shown as unusable are marked.
MarksAgree ==
    (~overlap /\ \A k \in Probe : ~Working(k)) =>
        \A p \in Provider :
            /\ unavailable[p] # None <=> Reported(p).error = "incompatible"
            /\ \A o \in Op : Reported(p).ops[o] # None =>
                  (unavailableOp[p][o] # None <=> Reported(p).ops[o] = "incompatible")

\* A permission, identity or transient error never hides a provider behind a
\* fallback: only handshake failures are ever marks, probes that overlap and
\* restarts included.
PermissionErrorsVisible ==
    \A p \in Provider :
        /\ unavailable[p] \in {None, "incompatible"}
        /\ \A o \in Op : unavailableOp[p][o] \in {None, "incompatible"}
=============================================================================

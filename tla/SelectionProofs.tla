--------------------------- MODULE SelectionProofs ---------------------------
(***************************************************************************)
(* Theorems about who is asked and what is returned, for every set of      *)
(* providers and every sequence of hits.                                   *)
(*                                                                         *)
(* Registry: requests are routed soundly, only handshake failures hide a   *)
(* provider, and the marks agree with the capabilities reported.           *)
(*                                                                         *)
(* Fusion: an object holds what its hits say, the ranking is by score and  *)
(* one when the times can be compared, and the cut is fair to the sources. *)
(* The sort and the first pass are recursive functions; that they exist is *)
(* shown by induction over the natural numbers as a set closed under       *)
(* successors, what they compute by the same argument.                     *)
(***************************************************************************)
EXTENDS Registry, Fusion, FiniteSetTheorems, SequenceTheorems, WellFoundedInduction, TLAPS

(* A set of natural numbers has a least member. *)
LEMMA Least ==
    ASSUME NEW T, T \subseteq Nat, T # {} PROVE \E i \in T : \A j \in T : i <= j
  <1> DEFINE R == {ss \in Nat \X Nat : ss[1] < ss[2]}
  <1>1. IsWellFoundedOn(R, Nat)
    BY NatLessThanWellFounded DEF OpToRel
  <1> HIDE DEF R
  <1>2. PICK x \in T : \A y \in T : ~(<<y, x>> \in R)
    BY <1>1, WFMin
  <1>3. \A y \in T : x <= y
    <2> SUFFICES ASSUME NEW y \in T, y < x PROVE FALSE
      OBVIOUS
    <2>1. <<y, x>> \in Nat \X Nat /\ <<y, x>>[1] = y /\ <<y, x>>[2] = x
      OBVIOUS
    <2>2. <<y, x>> \in R
      BY <2>1 DEF R
    <2> QED
      BY <1>2, <2>2
  <1> QED
    BY <1>3

----------------------------------------------------------------------------
(* The registry. *)

\* Places of a probe's goroutine.
Stage == {"idle", "wait", "clear", "operations", "cache", "mark", "done"}

(* The registry's state is of the expected type. *)
TypeOK ==
    /\ bySource \in Seq(Provider)
    /\ preferred \in Provider \cup {None}
    /\ preferredByOp \in [Op -> Provider \cup {None}]
    /\ unavailable \in [Provider -> {None, "incompatible"}]
    /\ unavailableOp \in [Provider -> [Op -> {None, "incompatible"}]]
    /\ capCache \in [Provider -> Capability \cup {None}]
    /\ persisted \in [Provider -> Capability \cup {None}]
    /\ pc \in [Probe -> [Provider -> Stage]]
    /\ cap \in [Probe -> [Provider -> Capability]]

(* Every route that is configured leads to a registered provider, an         *)
(* operation's route to one that supports it.                                *)
RoutesValid ==
    /\ preferred # None => preferred \in Registered
    /\ \A o \in Op : preferredByOp[o] # None =>
          preferredByOp[o] \in Registered /\ o \in Supports[preferredByOp[o]]

(* The mark of an operation agrees with what is known of it. *)
Agree(mark, answer) == answer # None => (mark # None <=> answer = "incompatible")

(* What the cache says of a provider is what its marks say. *)
Settled(p) ==
    /\ unavailable[p] # None <=> Reported(p).error = "incompatible"
    /\ \A o \in Op : Agree(unavailableOp[p][o], Reported(p).ops[o])

(* Where one probe is with a provider, and what is true then.  An operation  *)
(* that was probed has its new mark at once, the others the one they had;    *)
(* the cache learns of both before the provider's own mark is written.       *)
Story(k, p) ==
    /\ pc[k][p] \in {"idle", "wait", "clear", "done"} => Settled(p)
    /\ pc[k][p] = "wait" => cap[k][p] = Fresh
    /\ pc[k][p] \in {"clear", "operations"} => cap[k][p].error = "ok"
    /\ pc[k][p] = "clear" => \A o \in Op : cap[k][p].ops[o] = None
    /\ pc[k][p] \in {"operations", "cache", "mark"} =>
          /\ cap[k][p].error = "ok" => unavailable[p] = None
          /\ \A o \in Op : Agree(unavailableOp[p][o], cap[k][p].ops[o])
    /\ pc[k][p] = "mark" => capCache[p] = cap[k][p]

(* Without an overlap, one probe at most is working. *)
Alone == \A j, k \in Probe : Working(j) /\ Working(k) => j = k

(* A probe that began has no idle goroutine. *)
AllOrNone == \A k \in Probe : Working(k) => \A p \in Provider : pc[k][p] # "idle"

\* The inductive invariant behind MarksAgree.
MarksInv ==
    /\ AllOrNone
    /\ ~overlap => /\ Alone
                   /\ \A k \in Probe : Working(k) => \A p \in Provider : Story(k, p)
                   /\ (\A k \in Probe : ~Working(k)) => \A p \in Provider : Settled(p)
----------------------------------------------------------------------------
(* Types. *)

(* Registering keeps who was registered. *)
LEMMA AppendRegistered ==
    ASSUME NEW q \in Seq(Provider), NEW p \in Provider
    PROVE  /\ Append(q, p) \in Seq(Provider)
           /\ {Append(q, p)[i] : i \in DOMAIN Append(q, p)} = {q[i] : i \in DOMAIN q} \cup {p}
  <1>1. /\ Append(q, p) \in Seq(Provider) /\ Len(q) \in Nat /\ DOMAIN q = 1 .. Len(q)
        /\ DOMAIN Append(q, p) = 1 .. Len(q) + 1
        /\ \A i \in DOMAIN q : Append(q, p)[i] = q[i]
        /\ Append(q, p)[Len(q) + 1] = p
    OBVIOUS
  <1> QED
    BY <1>1

(* A capability with one answer changed. *)
LEMMA CapabilityFields ==
    ASSUME NEW c \in Capability, NEW a \in Answer
    PROVE  /\ c.error \in Answer /\ c.ops \in [Op -> Answer \cup {None}]
           /\ [c EXCEPT !.error = a] \in Capability
           /\ [c EXCEPT !.error = a].error = a /\ [c EXCEPT !.error = a].ops = c.ops
           /\ \A o : /\ [c EXCEPT !.ops[o] = a] \in Capability
                     /\ [c EXCEPT !.ops[o] = a].error = c.error
                     /\ [c EXCEPT !.ops[o] = a].ops = [c.ops EXCEPT ![o] = a]
  BY DEF Capability

\* A capability not yet probed.
LEMMA FreshFields ==
    /\ Fresh \in Capability /\ Fresh.error = "ok" /\ \A o \in Op : Fresh.ops[o] = None
  BY DEF Fresh, Capability, Answer

(* The initial state is well typed. *)
LEMMA TypeInit == Init => TypeOK
  BY FreshFields DEF Init, TypeOK, NoMarks, Stage

(* Every step keeps the state well typed. *)
LEMMA TypeNext == TypeOK /\ [Next]_vars => TypeOK'
  <1> SUFFICES ASSUME TypeOK, [Next]_vars PROVE TypeOK'
    OBVIOUS
  <1> USE DEF registry
  <1>1. ASSUME NEW p \in Provider, NEW prefer \in BOOLEAN, Register(p, prefer) PROVE TypeOK'
    BY <1>1, AppendRegistered DEF TypeOK, Register, Configure
  <1>2. ASSUME NEW p \in Provider, SetPreferred(p) PROVE TypeOK'
    BY <1>2 DEF TypeOK, SetPreferred, Configure
  <1>3. ASSUME NEW p \in Provider, NEW o \in Op, SetPreferredForOperation(o, p) PROVE TypeOK'
    BY <1>3 DEF TypeOK, SetPreferredForOperation, Configure
  <1>4. CASE Start
    BY <1>4 DEF TypeOK, Start
  <1>5. CASE Restart
    <2>1. \A p \in Provider : persisted[p] # None => persisted[p] \in Capability
      BY DEF TypeOK
    <2>2. unavailable' \in [Provider -> {None, "incompatible"}]
      BY <1>5 DEF Restart, Restored, MarkFor
    <2>3. unavailableOp' \in [Provider -> [Op -> {None, "incompatible"}]]
      BY <1>5 DEF Restart, MarkFor
    <2> QED
      BY <1>5, <2>2, <2>3, FreshFields DEF TypeOK, Restart, Stage
  <1>6. ASSUME NEW k \in Probe, Capabilities(k) PROVE TypeOK'
    BY <1>6, FreshFields DEF TypeOK, Capabilities, Stage
  <1>7. ASSUME NEW k \in Probe, SaveCapabilities(k) PROVE TypeOK'
    BY <1>7, FreshFields DEF TypeOK, SaveCapabilities, Stage
  <1>8. ASSUME NEW k \in Probe, NEW p \in Provider, Goroutine(k, p) PROVE TypeOK'
    <2>1. cap[k][p] \in Capability
      BY DEF TypeOK
    <2>2. ASSUME NEW l \in Stage, Go(k, p, l) PROVE pc' \in [Probe -> [Provider -> Stage]]
      BY <2>2 DEF TypeOK, Go
    <2>3. CASE Health(k, p)
      <3>1. PICK answer \in Answer : /\ cap' = [cap EXCEPT ![k][p].error = answer]
                                     /\ Go(k, p, IF answer = "ok" THEN "clear" ELSE "cache")
        BY <2>3 DEF Health, Answer
      <3>2. cap' \in [Probe -> [Provider -> Capability]]
        BY <2>1, <3>1, CapabilityFields DEF TypeOK
      <3>3. pc' \in [Probe -> [Provider -> Stage]]
        BY <2>2, <3>1 DEF Stage
      <3> QED
        BY <2>3, <3>2, <3>3 DEF TypeOK, Health, Quiet
    <2>4. CASE ClearUnavailable(k, p)
      <3>1. pc' \in [Probe -> [Provider -> Stage]]
        BY <2>2, <2>4 DEF ClearUnavailable, Stage
      <3> QED
        BY <2>4, <3>1 DEF TypeOK, ClearUnavailable, Quiet
    <2>5. CASE HealthOperation(k, p)
      <3>1. PICK answer \in Answer, o \in {Head(Unprobed(k, p))} :
                /\ cap' = [cap EXCEPT ![k][p].ops[o] = answer]
                /\ SetOperationUnavailable(p, o, answer)
        BY <2>5 DEF HealthOperation
      <3>2. cap' \in [Probe -> [Provider -> Capability]]
        BY <2>1, <3>1, CapabilityFields DEF TypeOK
      <3>3. unavailableOp' \in [Provider -> [Op -> {None, "incompatible"}]]
        BY <3>1 DEF TypeOK, SetOperationUnavailable
      <3>4. pc' \in [Probe -> [Provider -> Stage]]
        BY <2>2, <2>5 DEF HealthOperation, Stage
      <3> QED
        BY <2>5, <3>2, <3>3, <3>4 DEF TypeOK, HealthOperation, Quiet
    <2>6. CASE CacheCapability(k, p)
      <3>1. pc' \in [Probe -> [Provider -> Stage]]
        BY <2>2, <2>6 DEF CacheCapability, Stage
      <3> QED
        BY <2>1, <2>6, <3>1 DEF TypeOK, CacheCapability, Quiet
    <2>7. CASE MarkUnavailable(k, p)
      <3>1. pc' \in [Probe -> [Provider -> Stage]]
        BY <2>2, <2>7 DEF MarkUnavailable, Stage
      <3> QED
        BY <2>7, <3>1 DEF TypeOK, MarkUnavailable, Quiet, Remark, MarkFor
    <2> QED
      BY <1>8, <2>3, <2>4, <2>5, <2>6, <2>7 DEF Goroutine
  <1>9. CASE UNCHANGED vars
    BY <1>9 DEF TypeOK, vars
  <1> QED
    BY <1>1, <1>2, <1>3, <1>4, <1>5, <1>6, <1>7, <1>8, <1>9 DEF Next

\* The type invariant.
LEMMA TypeHolds == Spec => []TypeOK
  BY TypeInit, TypeNext, PTL DEF Spec

(* Whatever providers answer, however probes overlap and whenever the        *)
(* process restarts, only an incompatible provider or operation is hidden    *)
(* behind a fallback: permission and transient errors stay visible.          *)
THEOREM OnlyHandshakeFailuresHide == Spec => []PermissionErrorsVisible
  <1>1. TypeOK => PermissionErrorsVisible
    BY DEF TypeOK, PermissionErrorsVisible
  <1> QED
    BY <1>1, TypeHolds, PTL

----------------------------------------------------------------------------
(* Routes. *)

(* Routes stay valid: a provider is never unregistered. *)
LEMMA RoutesValidNext == TypeOK /\ RoutesValid /\ [Next]_vars => RoutesValid'
  <1> SUFFICES ASSUME TypeOK, RoutesValid, [Next]_vars PROVE RoutesValid'
    OBVIOUS
  <1> USE DEF registry
  <1>1. ASSUME NEW p \in Provider, NEW prefer \in BOOLEAN, Register(p, prefer) PROVE RoutesValid'
    <2>1. Registered' = Registered \cup {p}
      <3>1. bySource' = Append(bySource, p) /\ bySource \in Seq(Provider)
        BY <1>1 DEF TypeOK, Register
      <3> QED
        BY <3>1, AppendRegistered DEF Registered
    <2> QED
      BY <1>1, <2>1 DEF RoutesValid, Register
  <1>2. ASSUME NEW p \in Provider, SetPreferred(p) PROVE RoutesValid'
    BY <1>2 DEF RoutesValid, SetPreferred, ValidRoute, Registered
  <1>3. ASSUME NEW p \in Provider, NEW o \in Op, SetPreferredForOperation(o, p) PROVE RoutesValid'
    BY <1>3 DEF RoutesValid, SetPreferredForOperation, ValidRoute, Registered, TypeOK
  <1>4. ASSUME UNCHANGED <<bySource, preferred, preferredByOp>> PROVE RoutesValid'
    BY <1>4 DEF RoutesValid, Registered
  <1> QED
    BY <1>1, <1>2, <1>3, <1>4
       DEF Next, vars, Start, Restart, Capabilities, SaveCapabilities, Goroutine, Health,
           ClearUnavailable, HealthOperation, CacheCapability, MarkUnavailable, Quiet

(* A request reaches a registered provider that supports its operation and   *)
(* is usable, whenever there is one, under any configuration of routes and   *)
(* at any moment of any probe.                                               *)
THEOREM RoutesAlwaysSound == Spec => []RoutesSound
  <1>1. Init => RoutesValid
    BY DEF Init, RoutesValid
  <1>2. TypeOK /\ RoutesValid => RoutesSound
    <2> SUFFICES ASSUME TypeOK, RoutesValid, NEW o \in Op
                 PROVE  LET usable == {p \in Registered : Available(p, o) /\ o \in Supports[p]}
                        IN /\ IF usable = {} THEN Route(o) = None ELSE Route(o) \in usable
                           /\ usable # {} => \A found \in Provider :
                                 LET p == RouteForRef(found, o)
                                 IN p \in Registered /\ unavailable[p] = None /\ o \in Supports[p]
      BY DEF RoutesSound
    <2> DEFINE usable == {p \in Registered : Available(p, o) /\ o \in Supports[p]}
               fitting == {i \in DOMAIN bySource :
                             Available(bySource[i], o) /\ o \in Supports[bySource[i]]}
               first == CHOOSE i \in fitting : \A j \in fitting : i <= j
    <2>1. fitting # {} => first \in fitting
      <3>1. fitting \subseteq Nat
        BY DEF TypeOK
      <3> QED
        BY <3>1, Least
    <2>2. usable = {} <=> fitting = {}
      BY DEF Registered
    <2>3. first \in fitting => bySource[first] \in usable
      BY DEF Registered
    <2>4. Route(o) =
            CASE preferredByOp[o] # None /\ Available(preferredByOp[o], o) -> preferredByOp[o]
              [] preferred # None /\ Available(preferred, o) /\ o \in Supports[preferred] -> preferred
              [] fitting # {} -> bySource[first]
              [] OTHER -> None
      BY DEF Route, ForOperation
    <2>5. preferredByOp[o] # None /\ Available(preferredByOp[o], o) => preferredByOp[o] \in usable
      BY DEF RoutesValid
    <2>6. preferred # None /\ Available(preferred, o) /\ o \in Supports[preferred] => preferred \in usable
      BY DEF RoutesValid
    <2> HIDE DEF usable, fitting, first
    <2>7. IF usable = {} THEN Route(o) = None ELSE Route(o) \in usable
      BY <2>1, <2>2, <2>3, <2>4, <2>5, <2>6
    <2>8. ASSUME usable # {}, NEW found \in Provider
          PROVE  LET p == RouteForRef(found, o)
                 IN p \in Registered /\ unavailable[p] = None /\ o \in Supports[p]
      <3>1. \A p \in usable : p \in Registered /\ unavailable[p] = None /\ o \in Supports[p]
        BY DEF usable, Available
      <3>2. CASE preferredByOp[o] # None /\ Available(preferredByOp[o], o)
        BY <2>5, <3>1, <3>2 DEF RouteForRef
      <3>3. CASE ~(preferredByOp[o] # None /\ Available(preferredByOp[o], o))
        BY <2>7, <2>8, <3>1, <3>3 DEF RouteForRef
      <3> QED
        BY <3>2, <3>3
    <2> QED
      BY <2>7, <2>8 DEF usable
  <1> QED
    BY <1>1, <1>2, RoutesValidNext, TypeHolds, PTL DEF Spec
----------------------------------------------------------------------------
(* Marks and capabilities. *)

(* What is said of a provider depends on its own marks and cache entry. *)
LEMMA SettledSame ==
    ASSUME NEW p \in Provider, unavailable'[p] = unavailable[p],
           unavailableOp'[p] = unavailableOp[p], capCache'[p] = capCache[p]
    PROVE  Settled(p)' <=> Settled(p)
  BY DEF Settled, Reported, Agree

(* A step of one goroutine leaves the other providers' stories alone. *)
LEMMA GoroutineStep ==
    ASSUME TypeOK, MarksInv, NEW k \in Probe, NEW p \in Provider, NEW l \in Stage \ {"idle"},
           pc[k][p] # "idle", Go(k, p, l), overlap' = overlap,
           \A q \in Provider \ {p} :
               /\ unavailable'[q] = unavailable[q] /\ unavailableOp'[q] = unavailableOp[q]
               /\ capCache'[q] = capCache[q] /\ cap'[k][q] = cap[k][q],
           Story(k, p) => Story(k, p)'
    PROVE  MarksInv'
  <1>1. /\ \A j \in Probe, q \in Provider : (j # k \/ q # p) => pc'[j][q] = pc[j][q]
        /\ pc'[k][p] = l /\ l # "idle"
    BY DEF TypeOK, Go
  <1>2. \A j \in Probe : Working(j)' <=> Working(j)
    BY <1>1 DEF Working
  <1>3. AllOrNone'
    BY <1>1, <1>2 DEF MarksInv, AllOrNone
  <1>4. Working(k) /\ Working(k)'
    BY <1>1 DEF Working
  <1>5. ASSUME ~overlap PROVE Alone'
    BY <1>2, <1>5 DEF MarksInv, Alone
  <1>6. ASSUME ~overlap, NEW q \in Provider PROVE Story(k, q)'
    <2>1. Story(k, q)
      BY <1>4, <1>6 DEF MarksInv
    <2>2. CASE q # p
      <3>1. /\ pc'[k][q] = pc[k][q] /\ cap'[k][q] = cap[k][q] /\ unavailable'[q] = unavailable[q]
            /\ unavailableOp'[q] = unavailableOp[q] /\ capCache'[q] = capCache[q]
        BY <1>1, <2>2
      <3>2. Settled(q)' <=> Settled(q)
        BY <3>1, SettledSame
      <3> QED
        BY <2>1, <3>1, <3>2 DEF Story
    <2> QED
      BY <2>1, <2>2
  <1>7. ASSUME ~overlap, NEW j \in Probe, Working(j)' PROVE j = k
    BY <1>4, <1>5, <1>7 DEF Alone
  <1> QED
    BY <1>3, <1>4, <1>5, <1>6, <1>7 DEF MarksInv

(* Every step of a probe keeps to the story. *)
LEMMA MarksGoroutine ==
    ASSUME TypeOK, MarksInv, NEW k \in Probe, NEW p \in Provider, Goroutine(k, p)
    PROVE  MarksInv'
  <1> USE DEF Quiet
  <1>1. /\ cap[k][p] \in Capability /\ cap[k][p].error \in Answer /\ None \notin Answer
        /\ cap[k][p].ops \in [Op -> Answer \cup {None}] /\ None # cap[k][p]
    <2>1. cap[k][p] \in Capability /\ "ok" \in Answer
      BY DEF TypeOK, Answer
    <2>2. None \notin Answer /\ None \notin Capability
      BY RegistryAssumption DEF RegistryAssumption
    <2> QED
      BY <2>1, <2>2, CapabilityFields
  <1>2. CASE Health(k, p)
    <2>1. PICK answer \in Answer : /\ cap' = [cap EXCEPT ![k][p].error = answer]
                                   /\ Go(k, p, IF answer = "ok" THEN "clear" ELSE "cache")
      BY <1>2 DEF Health, Answer
    <2>2. /\ cap'[k][p] = [cap[k][p] EXCEPT !.error = answer]
          /\ \A q \in Provider \ {p} : cap'[k][q] = cap[k][q]
      BY <2>1 DEF TypeOK
    <2>3. cap'[k][p].error = answer /\ cap'[k][p].ops = cap[k][p].ops
      BY <1>1, <2>2, CapabilityFields
    <2>4. /\ pc[k][p] = "wait" /\ UNCHANGED <<unavailable, unavailableOp, capCache, overlap>>
          /\ pc'[k][p] = IF answer = "ok" THEN "clear" ELSE "cache"
      BY <1>2, <2>1 DEF Health, Go, TypeOK
    <2>5. ASSUME Story(k, p) PROVE Story(k, p)'
      <3>1. Settled(p)' /\ \A o \in Op : cap'[k][p].ops[o] = None
        BY <2>3, <2>4, <2>5, SettledSame, FreshFields DEF Story
      <3> QED
        BY <2>3, <2>4, <3>1 DEF Story, Agree
    <2> QED
      BY <2>1, <2>2, <2>4, <2>5, GoroutineStep DEF Stage
  <1>3. CASE ClearUnavailable(k, p)
    <2>1. PICK l \in {"operations", "cache"} : Go(k, p, l)
      BY <1>3 DEF ClearUnavailable
    <2>2. /\ pc[k][p] = "clear" /\ pc'[k][p] = l
          /\ UNCHANGED <<unavailableOp, capCache, cap, overlap>>
          /\ unavailable'[p] = None /\ \A q \in Provider \ {p} : unavailable'[q] = unavailable[q]
      BY <1>3, <2>1 DEF ClearUnavailable, Go, TypeOK
    <2>3. ASSUME Story(k, p) PROVE Story(k, p)'
      BY <2>2, <2>3 DEF Story, Agree
    <2> QED
      BY <2>1, <2>2, <2>3, GoroutineStep DEF Stage
  <1>4. CASE HealthOperation(k, p)
    <2>1. PICK answer \in Answer, o \in {Head(Unprobed(k, p))} :
              /\ cap' = [cap EXCEPT ![k][p].ops[o] = answer]
              /\ SetOperationUnavailable(p, o, answer)
      BY <1>4 DEF HealthOperation
    <2>2. PICK l \in {"operations", "cache"} : Go(k, p, l)
      BY <1>4 DEF HealthOperation
    <2>3. /\ cap'[k][p] = [cap[k][p] EXCEPT !.ops[o] = answer]
          /\ \A q \in Provider \ {p} : cap'[k][q] = cap[k][q]
      BY <2>1 DEF TypeOK
    <2>4. cap'[k][p].error = cap[k][p].error /\ cap'[k][p].ops = [cap[k][p].ops EXCEPT ![o] = answer]
      BY <1>1, <2>3, CapabilityFields
    <2>5. /\ unavailableOp'[p] = [unavailableOp[p] EXCEPT ![o] =
                                     IF answer = "incompatible" THEN answer ELSE None]
          /\ \A q \in Provider \ {p} : unavailableOp'[q] = unavailableOp[q]
      BY <2>1 DEF SetOperationUnavailable, TypeOK
    <2>6. /\ pc[k][p] = "operations" /\ pc'[k][p] = l
          /\ UNCHANGED <<unavailable, capCache, overlap>>
      BY <1>4, <2>2 DEF HealthOperation, Go, TypeOK
    <2>7. ASSUME Story(k, p) PROVE Story(k, p)'
      <3>1. ASSUME NEW x \in Op PROVE Agree(unavailableOp'[p][x], cap'[k][p].ops[x])
        <4>1. CASE x = o
          BY <1>1, <2>4, <2>5, <4>1 DEF Agree, Answer, TypeOK
        <4>2. CASE x # o
          BY <1>1, <2>4, <2>5, <2>6, <2>7, <4>2 DEF Story, Agree, TypeOK
        <4> QED
          BY <4>1, <4>2
      <3> QED
        BY <2>4, <2>6, <2>7, <3>1 DEF Story, Agree
    <2> QED
      BY <2>2, <2>3, <2>5, <2>6, <2>7, GoroutineStep DEF Stage
  <1>5. CASE CacheCapability(k, p)
    <2>1. /\ pc[k][p] = "cache" /\ Go(k, p, "mark") /\ pc'[k][p] = "mark"
          /\ UNCHANGED <<cap, unavailable, unavailableOp, overlap>>
          /\ capCache'[p] = cap[k][p] /\ \A q \in Provider \ {p} : capCache'[q] = capCache[q]
      BY <1>5 DEF CacheCapability, Go, TypeOK
    <2>2. ASSUME Story(k, p) PROVE Story(k, p)'
      BY <2>1, <2>2 DEF Story, Agree
    <2> QED
      BY <2>1, <2>2, GoroutineStep DEF Stage
  <1>6. CASE MarkUnavailable(k, p)
    <2>1. /\ pc[k][p] = "mark" /\ Go(k, p, "done") /\ pc'[k][p] = "done"
          /\ UNCHANGED <<cap, capCache, unavailableOp, overlap>>
          /\ unavailable'[p] = Remark(p, cap[k][p].error)
          /\ \A q \in Provider \ {p} : unavailable'[q] = unavailable[q]
      BY <1>6 DEF MarkUnavailable, Go, TypeOK
    <2>2. ASSUME Story(k, p) PROVE Story(k, p)'
      <3>1. Reported(p)' = cap[k][p]
        BY <1>1, <2>1, <2>2 DEF Story, Reported
      <3>2. unavailable'[p] # None <=> cap[k][p].error = "incompatible"
        BY <1>1, <2>1, <2>2 DEF Story, Remark, MarkFor, Answer
      <3>3. Settled(p)'
        BY <2>1, <2>2, <3>1, <3>2 DEF Story, Settled, Agree
      <3> QED
        BY <2>1, <3>3 DEF Story
    <2> QED
      BY <2>1, <2>2, GoroutineStep DEF Stage
  <1> QED
    BY <1>2, <1>3, <1>4, <1>5, <1>6 DEF Goroutine

(* Every step keeps marks and capabilities together. *)
LEMMA MarksNext == TypeOK /\ MarksInv /\ [Next]_vars => MarksInv'
  <1> SUFFICES ASSUME TypeOK, MarksInv, [Next]_vars PROVE MarksInv'
    OBVIOUS
  <1> USE DEF registry
  <1>1. ASSUME UNCHANGED <<unavailable, unavailableOp, capCache, pc, cap, overlap>> PROVE MarksInv'
    <2>1. \A p \in Provider : Settled(p)' <=> Settled(p)
      BY <1>1, SettledSame
    <2>2. \A k \in Probe : Working(k)' <=> Working(k)
      BY <1>1 DEF Working
    <2>3. \A k \in Probe, p \in Provider : Story(k, p)' <=> Story(k, p)
      BY <1>1, <2>1 DEF Story
    <2> QED
      BY <1>1, <2>1, <2>2, <2>3 DEF MarksInv, AllOrNone, Alone
  <1>2. CASE Restart
    <2>1. \A k \in Probe : ~Working(k)'
      BY <1>2 DEF Restart, Working
    <2>2. ASSUME NEW p \in Provider PROVE Settled(p)'
      <3>1. None \notin Answer
        BY RegistryAssumption DEF RegistryAssumption
      <3>2. capCache'[p] = persisted[p] /\ unavailable'[p] = Restored(p)
        BY <1>2 DEF Restart
      <3>3. \A o \in Op : unavailableOp'[p][o] = IF persisted[p] = None \/ persisted[p].ops[o] = None
                                                THEN None ELSE MarkFor(persisted[p].ops[o])
        BY <1>2 DEF Restart
      <3>4. Reported(p)' = IF persisted[p] = None THEN Fresh ELSE persisted[p]
        BY <3>2 DEF Reported, Fresh
      <3> QED
        BY <3>1, <3>2, <3>3, <3>4, FreshFields DEF Settled, Agree, Restored, MarkFor, Answer
    <2> QED
      BY <2>1, <2>2 DEF MarksInv, AllOrNone, Alone
  <1>3. ASSUME NEW k \in Probe, Capabilities(k) PROVE MarksInv'
    <2>1. /\ ~Working(k) /\ UNCHANGED <<unavailable, unavailableOp, capCache>>
          /\ \A p \in Provider : pc'[k][p] \in {"wait", "done"} /\ cap'[k][p] = Fresh
          /\ \A j \in Probe \ {k} : pc'[j] = pc[j]
          /\ ~overlap' => ~overlap /\ \A j \in Probe : ~Working(j)
      BY <1>3 DEF Capabilities, TypeOK
    <2>2. \A j \in Probe \ {k} : Working(j)' <=> Working(j)
      BY <2>1 DEF Working
    <2>3. AllOrNone'
      BY <2>1, <2>2 DEF MarksInv, AllOrNone
    <2>4. ASSUME ~overlap' PROVE Alone'
      BY <2>1, <2>2, <2>4 DEF Alone
    <2>5. ASSUME ~overlap', NEW p \in Provider PROVE Settled(p)' /\ Story(k, p)'
      <3>1. Settled(p)'
        BY <2>1, <2>5, SettledSame DEF MarksInv
      <3> QED
        BY <2>1, <3>1 DEF Story, Fresh
    <2> QED
      BY <2>1, <2>2, <2>3, <2>4, <2>5 DEF MarksInv
  <1>4. ASSUME NEW k \in Probe, SaveCapabilities(k) PROVE MarksInv'
    <2>1. /\ Working(k) /\ UNCHANGED <<unavailable, unavailableOp, capCache, overlap>>
          /\ \A p \in Provider : pc[k][p] = "done" /\ pc'[k][p] = "idle"
          /\ \A j \in Probe \ {k} : pc'[j] = pc[j]
      BY <1>4 DEF SaveCapabilities, TypeOK
    <2>2. ~Working(k)' /\ \A j \in Probe \ {k} : Working(j)' <=> Working(j)
      BY <2>1 DEF Working
    <2>3. AllOrNone'
      BY <2>1, <2>2 DEF MarksInv, AllOrNone
    <2>4. ASSUME ~overlap', NEW j \in Probe PROVE ~Working(j)'
      BY <2>1, <2>2, <2>4 DEF MarksInv, Alone
    <2>5. ASSUME ~overlap', NEW p \in Provider PROVE Settled(p)'
      BY <2>1, <2>5, SettledSame DEF MarksInv, Story
    <2> QED
      BY <2>3, <2>4, <2>5 DEF MarksInv, Alone
  <1>5. ASSUME NEW k \in Probe, NEW p \in Provider, Goroutine(k, p) PROVE MarksInv'
    BY <1>5, MarksGoroutine
  <1> QED
    BY <1>1, <1>2, <1>3, <1>4, <1>5
       DEF Next, vars, Register, SetPreferred, SetPreferredForOperation, Configure, Start

(* Once no probe is running, and none overlapped another since the start,    *)
(* what the registry refuses is exactly what the capabilities show as        *)
(* incompatible, restarts at any point of a probe included.                  *)
THEOREM MarksAlwaysAgree == Spec => []MarksAgree
  <1>1. Init => MarksInv
    <2> SUFFICES ASSUME Init PROVE MarksInv
      OBVIOUS
    <2>1. \A k \in Probe : ~Working(k)
      BY DEF Init, Working
    <2>2. \A p \in Provider : Settled(p)
      BY FreshFields DEF Init, NoMarks, Settled, Reported, Agree
    <2> QED
      BY <2>1, <2>2 DEF MarksInv, AllOrNone, Alone
  <1>2. MarksInv => MarksAgree
    BY DEF MarksInv, MarksAgree, Settled, Agree
  <1> QED
    BY <1>1, <1>2, MarksNext, TypeHolds, PTL DEF Spec

----------------------------------------------------------------------------
(* Sorting by insertion. *)

\* Induction over the natural numbers, for a set that is closed under
\* successors.
LEMMA Induction ==
    ASSUME NEW T, T \subseteq Nat, 0 \in T, \A n \in T : n + 1 \in T
    PROVE  T = Nat
  <1> DEFINE Rest == Nat \ T
  <1> SUFFICES ASSUME Rest # {} PROVE FALSE
    OBVIOUS
  <1>1. PICK x \in Rest : \A y \in Rest : x <= y
    BY Least
  <1>2. x # 0 /\ x \in Nat
    BY <1>1
  <1>3. x - 1 \in Nat /\ ~(x <= x - 1)
    BY <1>2
  <1>4. x - 1 \in T
    BY <1>1, <1>3
  <1>5. (x - 1) + 1 = x
    BY <1>2
  <1> QED
    BY <1>1, <1>4, <1>5

\* Max is the greatest of some positions.
LEMMA MaxSound ==
    ASSUME NEW n \in Nat, NEW S, S \subseteq 1 .. n, S # {}
    PROVE  Max(S) \in S /\ \A y \in S : y <= Max(S)
  <1> DEFINE Rest == {n - y : y \in S}
  <1>1. Rest \subseteq Nat /\ Rest # {}
    <2>1. \A y \in S : n - y \in Nat
      OBVIOUS
    <2> QED
      BY <2>1
  <1>2. PICK r \in Rest : \A m \in Rest : r <= m
    BY <1>1, Least
  <1>3. PICK x \in S : r = n - x
    BY <1>2
  <1>4. \A y \in S : x >= y
    <2> SUFFICES ASSUME NEW y \in S PROVE x >= y
      OBVIOUS
    <2>1. n - x <= n - y
      BY <1>2, <1>3
    <2> QED
      BY <2>1
  <1>5. \E z \in S : \A y \in S : z >= y
    BY <1>4
  <1> DEFINE top == CHOOSE z \in S : \A y \in S : z >= y
  <1>6. top \in S /\ \A y \in S : top >= y
    BY <1>5
  <1>7. Max(S) = top
    BY DEF Max
  <1> HIDE DEF top
  <1> QED
    BY <1>6, <1>7

\* r is seq with x put in behind the first at elements.
Inserted(r, seq, x, at) ==
    /\ at \in 0 .. Len(seq) /\ Len(r) = Len(seq) + 1 /\ r[at + 1] = x
    /\ \A i \in 1 .. at : r[i] = seq[i]
    /\ \A i \in at + 1 .. Len(seq) : r[i + 1] = seq[i]

\* Insert puts an element behind the last that it is not less than.
LEMMA InsertSound ==
    ASSUME NEW S, NEW seq \in Seq(S), NEW x \in S, NEW less
    PROVE  /\ Insert(seq, x, less) \in Seq(S)
           /\ \E at \in 0 .. Len(seq) :
                 /\ Inserted(Insert(seq, x, less), seq, x, at)
                 /\ at # 0 => <<x, seq[at]>> \notin less
                 /\ \A i \in at + 1 .. Len(seq) : <<x, seq[i]>> \in less
  <1> DEFINE n == Len(seq)
             stays == {i \in DOMAIN seq : <<x, seq[i]>> \notin less}
             at == IF stays = {} THEN 0 ELSE Max(stays)
             left == SubSeq(seq, 1, at)
             right == SubSeq(seq, at + 1, n)
             r == left \o <<x>> \o right
  <1>1. n \in Nat /\ DOMAIN seq = 1 .. n
    OBVIOUS
  <1>2. /\ at \in 0 .. n /\ (at # 0 => <<x, seq[at]>> \notin less)
        /\ \A i \in at + 1 .. n : <<x, seq[i]>> \in less
    <2>1. CASE stays = {}
      <3>1. at = 0 /\ \A i \in 1 .. n : <<x, seq[i]>> \in less
        BY <1>1, <2>1
      <3> QED
        BY <1>1, <3>1
    <2>2. CASE stays # {}
      <3>1. at \in stays /\ \A y \in stays : y <= at
        BY <1>1, <2>2, MaxSound
      <3> HIDE DEF at
      <3>2. at \in 1 .. n /\ <<x, seq[at]>> \notin less
        BY <1>1, <3>1
      <3>3. ASSUME NEW i \in at + 1 .. n PROVE <<x, seq[i]>> \in less
        <4>1. i \in 1 .. n /\ ~(i <= at)
          BY <1>1, <3>2
        <4> QED
          BY <1>1, <3>1, <4>1
      <3> QED
        BY <3>2, <3>3
    <2> QED
      BY <2>1, <2>2
  <1>3. Insert(seq, x, less) = r
    BY DEF Insert
  <1> HIDE DEF at, stays
  <1>4. left \in Seq(S) /\ Len(left) = at /\ \A i \in 1 .. at : left[i] = seq[i]
    BY <1>1, <1>2
  <1>5. /\ right \in Seq(S) /\ Len(right) = n - at
        /\ \A i \in 1 .. n - at : right[i] = seq[at + i]
    <2>1. at + 1 \in Nat \ {0} /\ at + 1 <= n + 1 /\ at \in Nat
      BY <1>1, <1>2
    <2>2. \A i \in at + 1 .. n : seq[i] \in S
      BY <1>1, <2>1
    <2>3. /\ right \in Seq(S) /\ Len(right) = IF at + 1 <= n THEN n - (at + 1) + 1 ELSE 0
          /\ \A i \in 1 .. n - (at + 1) + 1 : right[i] = seq[at + 1 + i - 1]
      <3> HIDE DEF n, at
      <3>1. at + 1 \in Int /\ n \in Int
        BY <1>1, <2>1
      <3> QED
        BY <2>2, <3>1, SubSeqProperties DEF right
    <2>4. n - (at + 1) + 1 = n - at /\ \A i \in 1 .. n - at : at + 1 + i - 1 = at + i
      BY <1>1, <2>1
    <2> HIDE DEF right, n
    <2>5. Len(right) = n - at
      BY <1>1, <2>1, <2>3
    <2>6. ASSUME NEW i \in 1 .. n - at PROVE right[i] = seq[at + i]
      BY <2>3, <2>4
    <2> QED
      BY <2>3, <2>5, <2>6
  <1> HIDE DEF left, right
  <1> DEFINE lx == left \o <<x>>
  <1>6. /\ lx \in Seq(S) /\ Len(lx) = at + 1 /\ lx[at + 1] = x
        /\ \A i \in 1 .. at : lx[i] = seq[i]
    <2> DEFINE one == <<x>>
    <2>1. one \in Seq(S) /\ Len(one) = 1 /\ one[1] = x
      OBVIOUS
    <2> HIDE DEF one
    <2>2. /\ lx \in Seq(S) /\ Len(lx) = Len(left) + 1
          /\ \A i \in 1 .. Len(left) + 1 : lx[i] = IF i <= Len(left) THEN left[i] ELSE one[i - Len(left)]
      BY <1>2, <1>4, <2>1, ConcatProperties DEF one
    <2> HIDE DEF lx
    <2> QED
      BY <1>2, <1>4, <2>1, <2>2
  <1> HIDE DEF lx
  <1>7. r = lx \o right
    BY DEF lx
  <1> HIDE DEF r
  <1>8. /\ r \in Seq(S) /\ Len(r) = n + 1
        /\ \A i \in 1 .. at + 1 : r[i] = lx[i]
        /\ \A i \in 1 .. n - at : r[at + 1 + i] = right[i]
    <2>1. /\ r \in Seq(S) /\ Len(r) = Len(lx) + Len(right)
          /\ \A i \in 1 .. Len(lx) + Len(right) :
                r[i] = IF i <= Len(lx) THEN lx[i] ELSE right[i - Len(lx)]
      BY <1>5, <1>6, <1>7, ConcatProperties
    <2>2. ASSUME NEW i \in 1 .. n - at PROVE r[at + 1 + i] = right[i]
      <3> DEFINE k == at + 1 + i
      <3>1. k \in 1 .. Len(lx) + Len(right) /\ k - Len(lx) = i /\ ~(k <= Len(lx))
        BY <1>1, <1>2, <1>5, <1>6
      <3> HIDE DEF k
      <3>2. r[k] = right[i]
        BY <2>1, <3>1
      <3> QED
        BY <3>2 DEF k
    <2>3. Len(lx) + Len(right) = n + 1
      BY <1>1, <1>2, <1>5, <1>6
    <2>4. ASSUME NEW i \in 1 .. at + 1 PROVE r[i] = lx[i]
      <3>1. i \in 1 .. Len(lx) + Len(right) /\ i <= Len(lx)
        BY <1>1, <1>2, <1>6, <2>3
      <3> QED
        BY <2>1, <3>1
    <2> QED
      BY <2>1, <2>2, <2>3, <2>4
  <1>9. ASSUME NEW i \in at + 1 .. n PROVE r[i + 1] = seq[i]
    <2>1. i - at \in 1 .. n - at /\ at + 1 + (i - at) = i + 1 /\ at + (i - at) = i
      BY <1>1, <1>2
    <2> QED
      BY <1>5, <1>8, <2>1
  <1>10. r[at + 1] = x /\ \A i \in 1 .. at : r[i] = seq[i]
    BY <1>2, <1>6, <1>8
  <1>11. Inserted(r, seq, x, at)
    BY <1>2, <1>8, <1>9, <1>10 DEF Inserted
  <1> QED
    BY <1>2, <1>3, <1>8, <1>11

\* An inserted element joins the others, and is there once if it was not.
LEMMA InsertedSet ==
    ASSUME NEW S, NEW seq \in Seq(S), NEW r \in Seq(S), NEW x, NEW at \in 0 .. Len(seq),
           Inserted(r, seq, x, at)
    PROVE  /\ ToSet(r) = ToSet(seq) \cup {x}
           /\ IsInjective(seq) /\ x \notin ToSet(seq) => IsInjective(r)
  <1>1. /\ Len(seq) \in Nat /\ at \in Nat /\ DOMAIN seq = 1 .. Len(seq) /\ DOMAIN r = 1 .. Len(seq) + 1
        /\ r[at + 1] = x /\ at <= Len(seq)
        /\ \A i \in 1 .. at : r[i] = seq[i]
        /\ \A i \in at + 1 .. Len(seq) : r[i + 1] = seq[i]
    BY DEF Inserted
  <1>2. ASSUME NEW i \in DOMAIN r
        PROVE  \/ i = at + 1
               \/ i \in 1 .. at /\ i \in DOMAIN seq
               \/ i - 1 \in at + 1 .. Len(seq) /\ i - 1 \in DOMAIN seq /\ r[i] = seq[i - 1]
    <2>1. CASE i > at + 1
      <3>1. i - 1 \in at + 1 .. Len(seq) /\ (i - 1) + 1 = i
        BY <1>1, <2>1
      <3> QED
        BY <1>1, <3>1
    <2>2. CASE i \in 1 .. at
      BY <1>1, <2>2
    <2> QED
      BY <1>1, <2>1, <2>2
  <1>3. ToSet(r) \subseteq ToSet(seq) \cup {x}
    BY <1>1, <1>2 DEF ToSet
  <1>4. ToSet(seq) \cup {x} \subseteq ToSet(r)
    <2>1. x \in ToSet(r)
      <3>1. at + 1 \in DOMAIN r
        BY <1>1
      <3> QED
        BY <1>1, <3>1 DEF ToSet
    <2>2. ASSUME NEW i \in DOMAIN seq PROVE seq[i] \in ToSet(r)
      <3>1. i \in 1 .. at \/ i \in at + 1 .. Len(seq)
        BY <1>1
      <3>2. i \in DOMAIN r /\ i + 1 \in DOMAIN r
        BY <1>1
      <3> QED
        BY <1>1, <3>1, <3>2 DEF ToSet
    <2> QED
      BY <2>1, <2>2 DEF ToSet
  <1>5. ASSUME IsInjective(seq), x \notin ToSet(seq), NEW i \in DOMAIN r, NEW j \in DOMAIN r,
               r[i] = r[j]
        PROVE  i = j
    <2>1. \A k \in DOMAIN seq : seq[k] # x
      BY <1>5 DEF ToSet
    <2>2. \A k, l \in DOMAIN seq : seq[k] = seq[l] => k = l
      BY <1>5 DEF IsInjective
    <2>3. CASE i = at + 1 \/ j = at + 1
      BY <1>1, <1>2, <1>5, <2>1, <2>3
    <2>4. CASE i \in 1 .. at /\ j \in 1 .. at
      BY <1>1, <1>2, <1>5, <2>2, <2>4
    <2>5. CASE i \in 1 .. at /\ j - 1 \in at + 1 .. Len(seq)
      <3>1. r[j] = seq[j - 1] /\ r[i] = seq[i] /\ i \in DOMAIN seq /\ j - 1 \in DOMAIN seq
        BY <1>1, <1>2, <2>5
      <3>2. i = j - 1
        BY <1>5, <2>2, <3>1
      <3> QED
        BY <1>1, <2>5, <3>2
    <2>6. CASE i - 1 \in at + 1 .. Len(seq) /\ j \in 1 .. at
      <3>1. r[i] = seq[i - 1] /\ r[j] = seq[j] /\ j \in DOMAIN seq /\ i - 1 \in DOMAIN seq
        BY <1>1, <1>2, <2>6
      <3>2. j = i - 1
        BY <1>5, <2>2, <3>1
      <3> QED
        BY <1>1, <2>6, <3>2
    <2>7. CASE i - 1 \in at + 1 .. Len(seq) /\ j - 1 \in at + 1 .. Len(seq)
      <3>1. r[i] = seq[i - 1] /\ r[j] = seq[j - 1] /\ j - 1 \in DOMAIN seq /\ i - 1 \in DOMAIN seq
        BY <1>1, <1>2, <2>7
      <3>2. j - 1 = i - 1
        BY <1>5, <2>2, <3>1
      <3> QED
        BY <1>1, <3>2
    <2> QED
      BY <1>2, <2>3, <2>4, <2>5, <2>6, <2>7
  <1> QED
    BY <1>3, <1>4, <1>5 DEF IsInjective

\* Every later element is not below an earlier one.
Ordered(seq, below) ==
    \A i, j \in DOMAIN seq : i < j => <<seq[j], seq[i]>> \notin below

\* A comparison that follows another and never contradicts it, and one whose
\* failure to hold is transitive.
Follows(less, below, S) ==
    \A x, y \in S : /\ <<x, y>> \in below => <<x, y>> \in less
                    /\ <<x, y>> \in less => <<y, x>> \notin below
WeakOrder(below, S) ==
    \A x, y, z \in S : <<y, x>> \notin below /\ <<z, y>> \notin below => <<z, x>> \notin below

\* Inserting keeps the order of any comparison that less follows.
LEMMA InsertOrdered ==
    ASSUME NEW S, NEW seq \in Seq(S), NEW x \in S, NEW less, NEW below,
           Follows(less, below, S), WeakOrder(below, S), Ordered(seq, below)
    PROVE  Ordered(Insert(seq, x, less), below)
  <1> DEFINE r == Insert(seq, x, less)
  <1>1. PICK at \in 0 .. Len(seq) :
           /\ Inserted(r, seq, x, at) /\ (at # 0 => <<x, seq[at]>> \notin less)
           /\ \A i \in at + 1 .. Len(seq) : <<x, seq[i]>> \in less
    BY InsertSound
  <1>2. r \in Seq(S)
    BY InsertSound
  <1> HIDE DEF r
  <1>3. /\ Len(seq) \in Nat /\ at \in Nat /\ DOMAIN seq = 1 .. Len(seq) /\ DOMAIN r = 1 .. Len(seq) + 1
        /\ r[at + 1] = x /\ at <= Len(seq) /\ \A i \in DOMAIN seq : seq[i] \in S
        /\ \A i \in 1 .. at : r[i] = seq[i]
        /\ \A i \in at + 1 .. Len(seq) : r[i + 1] = seq[i]
    BY <1>1, <1>2 DEF Inserted
  <1>4. ASSUME NEW i \in at + 1 .. Len(seq) PROVE <<seq[i], x>> \notin below
    <2>1. i \in DOMAIN seq /\ seq[i] \in S /\ <<x, seq[i]>> \in less
      BY <1>1, <1>3
    <2> QED
      BY <2>1 DEF Follows
  <1>5. ASSUME NEW i \in 1 .. at PROVE <<x, seq[i]>> \notin below
    <2>1. at \in DOMAIN seq /\ i \in DOMAIN seq /\ <<x, seq[at]>> \notin less
      BY <1>1, <1>3
    <2>2. <<x, seq[at]>> \notin below
      BY <1>3, <2>1 DEF Follows
    <2>3. CASE i < at
      <3>1. <<seq[at], seq[i]>> \notin below
        BY <2>1, <2>3 DEF Ordered
      <3> QED
        BY <1>3, <2>1, <2>2, <3>1 DEF WeakOrder
    <2> QED
      BY <1>3, <2>2, <2>3
  <1>6. ASSUME NEW i \in DOMAIN r, NEW j \in DOMAIN r, i < j PROVE <<r[j], r[i]>> \notin below
    <2>1. CASE j \in 1 .. at
      <3>1. i \in 1 .. at /\ i \in DOMAIN seq /\ j \in DOMAIN seq
        BY <1>3, <1>6, <2>1
      <3> QED
        BY <1>3, <1>6, <2>1, <3>1 DEF Ordered
    <2>2. CASE j = at + 1
      <3>1. i \in 1 .. at
        BY <1>3, <1>6, <2>2
      <3> QED
        BY <1>3, <1>5, <2>2, <3>1
    <2>3. CASE j > at + 1
      <3> DEFINE k == j - 1
      <3>1. k \in at + 1 .. Len(seq) /\ k + 1 = j /\ k \in DOMAIN seq
        BY <1>3, <2>3
      <3> HIDE DEF k
      <3>2. r[j] = seq[k]
        BY <1>3, <3>1
      <3>3. CASE i \in 1 .. at
        <4>1. i \in DOMAIN seq /\ i < k /\ r[i] = seq[i]
          BY <1>3, <3>1, <3>3
        <4> QED
          BY <3>1, <3>2, <4>1 DEF Ordered
      <3>4. CASE i = at + 1
        BY <1>3, <1>4, <3>1, <3>2, <3>4
      <3>5. CASE i > at + 1
        <4> DEFINE h == i - 1
        <4>1. h \in at + 1 .. Len(seq) /\ h + 1 = i /\ h \in DOMAIN seq /\ h < k
          BY <1>3, <1>6, <3>1, <3>5
        <4> HIDE DEF h
        <4>2. r[i] = seq[h]
          BY <1>3, <4>1
        <4> QED
          BY <3>1, <3>2, <4>1, <4>2 DEF Ordered
      <3> QED
        BY <1>3, <3>3, <3>4, <3>5
    <2> QED
      BY <1>3, <2>1, <2>2, <2>3
  <1> QED
    BY <1>6 DEF Ordered, r

\* The sorted prefixes exist: each is built from the one before.
LEMMA SortUpTo ==
    ASSUME NEW seq, Len(seq) \in Nat, NEW less
    PROVE  \E upTo :
              /\ upTo[0] = <<>>
              /\ \A i \in 1 .. Len(seq) : upTo[i] = Insert(upTo[i - 1], seq[i], less)
              /\ SliceStable(seq, less) = upTo[Len(seq)]
  <1> DEFINE Body(u, n) == [i \in 0 .. n |->
                    IF i = 0 THEN <<>> ELSE Insert(u[i - 1], seq[i], less)]
             T == {n \in Nat : \E u : u = Body(u, n)}
  <1>1. 0 \in T
    <2> DEFINE u == [i \in 0 .. 0 |-> <<>>]
    <2>1. u = Body(u, 0)
      OBVIOUS
    <2> QED
      BY <2>1
  <1>2. ASSUME NEW n \in T PROVE n + 1 \in T
    <2>1. PICK u : u = Body(u, n)
      OBVIOUS
    <2> DEFINE last == Insert(u[n], seq[n + 1], less)
               v == [i \in 0 .. n + 1 |-> IF i = n + 1 THEN last ELSE u[i]]
    <2>2. v[n + 1] = last /\ \A i \in 0 .. n : v[i] = u[i]
      OBVIOUS
    <2> HIDE DEF last
    <2>3. ASSUME NEW i \in 0 .. n + 1
          PROVE  v[i] = IF i = 0 THEN <<>> ELSE Insert(v[i - 1], seq[i], less)
      <3>1. CASE i = n + 1
        <4>1. v[i - 1] = u[n] /\ i - 1 = n /\ i # 0
          BY <2>2, <3>1
        <4> QED
          BY <2>2, <3>1, <4>1 DEF last
      <3>2. CASE i \in 0 .. n
        <4>1. v[i] = u[i] /\ (i # 0 => v[i - 1] = u[i - 1])
          BY <2>2, <3>2
        <4>2. u[i] = IF i = 0 THEN <<>> ELSE Insert(u[i - 1], seq[i], less)
          BY <2>1, <3>2
        <4> QED
          BY <4>1, <4>2
      <3> QED
        BY <3>1, <3>2
    <2>4. v = Body(v, n + 1)
      BY <2>3
    <2>5. \E x : x = Body(x, n + 1)
      <3> HIDE DEF v
      <3> WITNESS v
      <3> QED
        BY <2>4
    <2> HIDE DEF Body
    <2> QED
      BY <2>5
  <1>3. Len(seq) \in T
    <2> HIDE DEF T
    <2>1. T = Nat
      <3>1. T \subseteq Nat
        BY DEF T
      <3> QED
        BY <1>1, <1>2, <3>1, Induction
    <2> QED
      BY <2>1
  <1>4. PICK u : u = Body(u, Len(seq))
    BY <1>3
  <1> DEFINE c == CHOOSE x : x = Body(x, Len(seq))
  <1>5. c = Body(c, Len(seq))
    BY <1>4
  <1>6. SliceStable(seq, less) = c[Len(seq)]
    BY DEF SliceStable
  <1> HIDE DEF c
  <1>7. c[0] = <<>>
    BY <1>5
  <1>8. \A i \in 1 .. Len(seq) : c[i] = Insert(c[i - 1], seq[i], less)
    BY <1>5
  <1> QED
    BY <1>6, <1>7, <1>8

\* Sorting reorders a sequence.
LEMMA SortSound ==
    ASSUME NEW S, NEW seq \in Seq(S), NEW less
    PROVE  LET r == SliceStable(seq, less)
           IN /\ r \in Seq(S) /\ Len(r) = Len(seq) /\ ToSet(r) = ToSet(seq)
              /\ IsInjective(seq) => IsInjective(r)
  <1>0. Len(seq) \in Nat /\ DOMAIN seq = 1 .. Len(seq) /\ \A i \in 1 .. Len(seq) : seq[i] \in S
    OBVIOUS
  <1>1. PICK upTo :
           /\ upTo[0] = <<>>
           /\ \A i \in 1 .. Len(seq) : upTo[i] = Insert(upTo[i - 1], seq[i], less)
           /\ SliceStable(seq, less) = upTo[Len(seq)]
    BY <1>0, SortUpTo
  <1> DEFINE Good(n) == /\ upTo[n] \in Seq(S) /\ Len(upTo[n]) = n
                        /\ ToSet(upTo[n]) = {seq[i] : i \in 1 .. n}
                        /\ IsInjective(seq) => IsInjective(upTo[n])
             T == {n \in Nat : n <= Len(seq) => Good(n)}
  <1>2. 0 \in T
    <2>1. Good(0)
      BY <1>1 DEF IsInjective, ToSet
    <2> HIDE DEF Good
    <2> QED
      BY <2>1
  <1>3. ASSUME NEW n \in T PROVE n + 1 \in T
    <2> HIDE DEF Good
    <2> SUFFICES ASSUME n + 1 <= Len(seq) PROVE Good(n + 1)
      OBVIOUS
    <2>1. Good(n) /\ n \in Nat /\ n + 1 \in 1 .. Len(seq) /\ (n + 1) - 1 = n
      BY <1>0
    <2> DEFINE x == seq[n + 1]
               old == upTo[n]
               new == upTo[n + 1]
    <2>2. new = Insert(old, x, less) /\ x \in S
      BY <1>0, <1>1, <2>1
    <2>3. /\ old \in Seq(S) /\ Len(old) = n /\ ToSet(old) = {seq[i] : i \in 1 .. n}
          /\ IsInjective(seq) => IsInjective(old)
      BY <2>1 DEF Good
    <2>4. {seq[i] : i \in 1 .. n + 1} = {seq[i] : i \in 1 .. n} \cup {x}
      BY <1>0, <2>1
    <2>5. IsInjective(seq) => x \notin {seq[i] : i \in 1 .. n}
      BY <1>0, <2>1 DEF IsInjective
    <2> HIDE DEF x, old, new
    <2>6. new \in Seq(S) /\ \E at \in 0 .. Len(old) : Inserted(new, old, x, at)
      BY <2>2, <2>3, InsertSound
    <2>7. /\ ToSet(new) = ToSet(old) \cup {x}
          /\ IsInjective(old) /\ x \notin ToSet(old) => IsInjective(new)
      BY <2>3, <2>6, InsertedSet
    <2>8. Len(new) = n + 1
      BY <2>3, <2>6 DEF Inserted
    <2> QED
      BY <2>3, <2>4, <2>5, <2>6, <2>7, <2>8 DEF Good, new
  <1>4. Good(Len(seq))
    <2> HIDE DEF Good
    <2>1. T \subseteq Nat
      OBVIOUS
    <2> HIDE DEF T
    <2>2. T = Nat
      BY <1>2, <1>3, <2>1, Induction
    <2>3. Len(seq) \in T
      BY <1>0, <2>2
    <2> QED
      BY <1>0, <2>3 DEF T
  <1>5. ToSet(seq) = {seq[i] : i \in 1 .. Len(seq)}
    BY <1>0 DEF ToSet
  <1> QED
    BY <1>1, <1>4, <1>5

\* Sorting brings a sequence into the order of any comparison less follows.
LEMMA SortOrdered ==
    ASSUME NEW S, NEW seq \in Seq(S), NEW less, NEW below,
           Follows(less, below, S), WeakOrder(below, S)
    PROVE  Ordered(SliceStable(seq, less), below)
  <1>0. Len(seq) \in Nat /\ DOMAIN seq = 1 .. Len(seq) /\ \A i \in 1 .. Len(seq) : seq[i] \in S
    OBVIOUS
  <1>1. PICK upTo :
           /\ upTo[0] = <<>>
           /\ \A i \in 1 .. Len(seq) : upTo[i] = Insert(upTo[i - 1], seq[i], less)
           /\ SliceStable(seq, less) = upTo[Len(seq)]
    BY <1>0, SortUpTo
  <1> DEFINE Good(n) == upTo[n] \in Seq(S) /\ Ordered(upTo[n], below)
             T == {n \in Nat : n <= Len(seq) => Good(n)}
  <1>2. 0 \in T
    <2>1. Good(0)
      BY <1>1 DEF Ordered
    <2> HIDE DEF Good
    <2> QED
      BY <2>1
  <1>3. ASSUME NEW n \in T PROVE n + 1 \in T
    <2> HIDE DEF Good
    <2> SUFFICES ASSUME n + 1 <= Len(seq) PROVE Good(n + 1)
      OBVIOUS
    <2>1. Good(n) /\ n \in Nat /\ n + 1 \in 1 .. Len(seq) /\ (n + 1) - 1 = n
      BY <1>0
    <2>2. upTo[n + 1] = Insert(upTo[n], seq[n + 1], less) /\ seq[n + 1] \in S
      BY <1>0, <1>1, <2>1
    <2> QED
      BY <2>1, <2>2, InsertSound, InsertOrdered DEF Good
  <1>4. Good(Len(seq))
    <2> HIDE DEF Good
    <2>1. T \subseteq Nat
      OBVIOUS
    <2> HIDE DEF T
    <2>2. T = Nat
      BY <1>2, <1>3, <2>1, Induction
    <2>3. Len(seq) \in T
      BY <1>0, <2>2
    <2> QED
      BY <1>0, <2>3 DEF T
  <1> QED
    BY <1>1, <1>4

\* Two sequences of the same elements, each there once, in the order of a
\* comparison that tells any two apart, are the same.
LEMMA OrderUnique ==
    ASSUME NEW S, NEW s \in Seq(S), NEW t \in Seq(S), NEW below,
           Len(s) = Len(t), ToSet(s) = ToSet(t), IsInjective(s), IsInjective(t),
           Ordered(s, below), Ordered(t, below),
           \A x, y \in S : x # y => <<x, y>> \in below \/ <<y, x>> \in below
    PROVE  s = t
  <1>0. /\ Len(s) \in Nat /\ DOMAIN s = 1 .. Len(s) /\ DOMAIN t = 1 .. Len(s)
        /\ \A i \in 1 .. Len(s) : s[i] \in S /\ t[i] \in S
    OBVIOUS
  <1> DEFINE Rest == {i \in 1 .. Len(s) : s[i] # t[i]}
  <1>1. ASSUME Rest # {} PROVE FALSE
    <2>1. Rest \subseteq Nat
      BY <1>0
    <2>2. PICK i \in Rest : \A j \in Rest : i <= j
      BY <1>1, <2>1, Least
    <2>3. i \in 1 .. Len(s) /\ s[i] # t[i]
      BY <2>2
    <2>4. \A j \in 1 .. Len(s) : j < i => s[j] = t[j]
      BY <1>0, <2>2, <2>3
    <2>5. PICK j \in 1 .. Len(s) : t[j] = s[i]
      BY <1>0, <2>3 DEF ToSet
    <2>6. PICK k \in 1 .. Len(s) : s[k] = t[i]
      BY <1>0, <2>3 DEF ToSet
    <2> HIDE DEF Rest
    <2>7. i < j
      <3>1. j # i
        BY <2>3, <2>5
      <3>2. ~(j < i)
        <4>1. ASSUME j < i PROVE FALSE
          <5>1. s[j] = s[i]
            BY <2>4, <2>5, <4>1
          <5>2. j = i
            BY <1>0, <2>3, <5>1 DEF IsInjective
          <5> QED
            BY <3>1, <5>2
        <4> QED
          BY <4>1
      <3> QED
        BY <1>0, <2>3, <3>1, <3>2
    <2>8. i < k
      <3>1. k # i
        BY <2>3, <2>6
      <3>2. ~(k < i)
        <4>1. ASSUME k < i PROVE FALSE
          <5>1. t[k] = t[i]
            BY <2>4, <2>6, <4>1
          <5>2. k = i
            BY <1>0, <2>3, <5>1 DEF IsInjective
          <5> QED
            BY <3>1, <5>2
        <4> QED
          BY <4>1
      <3> QED
        BY <1>0, <2>3, <3>1, <3>2
    <2>9. <<t[i], s[i]>> \notin below
      BY <1>0, <2>3, <2>6, <2>8 DEF Ordered
    <2>10. <<s[i], t[i]>> \notin below
      BY <1>0, <2>3, <2>5, <2>7 DEF Ordered
    <2> QED
      BY <1>0, <2>3, <2>9, <2>10
  <1>2. \A i \in 1 .. Len(s) : s[i] = t[i]
    BY <1>1
  <1>3. s = [i \in 1 .. Len(s) |-> s[i]] /\ t = [i \in 1 .. Len(s) |-> t[i]]
    BY <1>0
  <1> QED
    BY <1>2, <1>3

----------------------------------------------------------------------------
(* Scores. *)

\* The recursion by which a set is summed up.
SumIs(f, S, share) ==
    f = [s \in SUBSET S |-> IF s = {} THEN 0
                            ELSE LET x == CHOOSE x \in s : TRUE IN share[x] + f[s \ {x}]]

\* It has a solution, and whatever solves it sums integers to an integer.
LEMMA SumExists ==
    ASSUME NEW S, IsFiniteSet(S), NEW share \in [S -> Int]
    PROVE  /\ \E f : SumIs(f, S, share)
           /\ \A f : SumIs(f, S, share) => f[S] \in Int
  <1> DEFINE One(s) == CHOOSE x \in s : TRUE
             Body(u, s) == IF s = {} THEN 0 ELSE share[One(s)] + u[s \ {One(s)}]
  <1>1. ASSUME NEW s \in SUBSET S
        PROVE  IsFiniteSet(s) /\ Cardinality(s) \in Nat /\ Cardinality(s) <= Cardinality(S)
    BY FS_Subset, FS_CardinalityType
  <1>10. ASSUME NEW s \in SUBSET S, s # {}
         PROVE  /\ One(s) \in S /\ s \ {One(s)} \in SUBSET S
                /\ Cardinality(s \ {One(s)}) = Cardinality(s) - 1
    <2>1. One(s) \in s
      BY <1>10
    <2> HIDE DEF One
    <2> QED
      BY <1>1, <2>1, FS_RemoveElement
  <1> HIDE DEF One
  <1>2. Cardinality(S) \in Nat
    BY FS_CardinalityType
  <1> HIDE DEF Body
  <1> DEFINE Good(u, n) == \A s \in SUBSET S : Cardinality(s) < n => u[s] = Body(u, s)
             T == {n \in Nat : \E u : Good(u, n)}
  <1>3. 0 \in T
    <2>1. Good(<<>>, 0)
      BY <1>1
    <2> HIDE DEF Good
    <2> QED
      BY <2>1
  <1>4. ASSUME NEW n \in T PROVE n + 1 \in T
    <2>1. PICK u : Good(u, n)
      OBVIOUS
    <2>2. n \in Nat
      OBVIOUS
    <2> DEFINE v == [s \in SUBSET S |-> Body(u, s)]
    <2>3. ASSUME NEW s \in SUBSET S, Cardinality(s) < n + 1 PROVE v[s] = Body(v, s)
      <3> USE DEF Body
      <3>1. CASE s = {}
        BY <3>1
      <3>2. CASE s # {}
        <4> DEFINE low == s \ {One(s)}
        <4>1. low \in SUBSET S /\ Cardinality(low) < n
          BY <1>1, <1>10, <2>2, <2>3, <3>2
        <4> HIDE DEF low
        <4>2. v[low] = Body(u, low) /\ u[low] = Body(u, low)
          BY <2>1, <4>1
        <4>3. u[low] = v[low]
          <5> HIDE DEF Body, v
          <5> QED
            BY <4>2
        <4>4. v[s] = share[One(s)] + u[low]
          BY <3>2 DEF low
        <4>5. v[s] = share[One(s)] + v[low]
          BY <4>3, <4>4
        <4> QED
          <5> HIDE DEF v
          <5> QED
            BY <3>2, <4>5 DEF low
      <3> QED
        BY <3>1, <3>2
    <2>4. Good(v, n + 1)
      <3> HIDE DEF v, Body
      <3> QED
        BY <2>3
    <2> HIDE DEF Good, v
    <2> QED
      BY <2>2, <2>4
  <1> DEFINE most == Cardinality(S) + 1
  <1>5. most \in T
    <2>1. T \subseteq Nat
      BY DEF T
    <2>2. most \in Nat
      BY <1>2
    <2> HIDE DEF T, most
    <2>3. T = Nat
      BY <1>3, <1>4, <2>1, Induction
    <2> QED
      BY <2>2, <2>3
  <1>6. PICK u : Good(u, most)
    BY <1>5
  <1> DEFINE f0 == [s \in SUBSET S |-> u[s]]
  <1>7. ASSUME NEW s \in SUBSET S PROVE f0[s] = Body(f0, s)
    <2>1. Cardinality(s) < most
      <3>1. Cardinality(s) \in Nat /\ Cardinality(s) <= Cardinality(S)
        BY <1>1
      <3> QED
        BY <1>2, <3>1
    <2> HIDE DEF most
    <2>2. u[s] = Body(u, s)
      BY <1>6, <2>1
    <2>3. CASE s = {}
      BY <2>2, <2>3 DEF Body
    <2>4. CASE s # {}
      BY <1>10, <2>2, <2>4 DEF Body
    <2> QED
      BY <2>3, <2>4
  <1>8. SumIs(f0, S, share)
    <2>1. f0 = [s \in SUBSET S |-> Body(f0, s)]
      <3> HIDE DEF Body
      <3>1. f0 = [s \in SUBSET S |-> f0[s]]
        OBVIOUS
      <3> HIDE DEF f0
      <3> QED
        BY <1>7, <3>1
    <2> HIDE DEF f0
    <2> QED
      BY <2>1 DEF SumIs, One, Body
  <1>9. ASSUME NEW f, SumIs(f, S, share) PROVE f[S] \in Int
    <2>1. \A s \in SUBSET S : f[s] = Body(f, s)
      BY <1>9 DEF SumIs, One, Body
    <2> DEFINE N == {n \in Nat : \A s \in SUBSET S : Cardinality(s) < n => f[s] \in Int}
    <2>2. 0 \in N
      <3>1. \A s \in SUBSET S : ~(Cardinality(s) < 0)
        BY <1>1
      <3> QED
        BY <3>1
    <2>3. ASSUME NEW n \in N PROVE n + 1 \in N
      <3>1. ASSUME NEW s \in SUBSET S, Cardinality(s) < n + 1 PROVE f[s] \in Int
        <4>1. CASE s = {}
          <5>1. f[s] = Body(f, s)
            BY <2>1
          <5> QED
            BY <4>1, <5>1 DEF Body
        <4>2. CASE s # {}
          <5> DEFINE low == s \ {One(s)}
          <5>1. low \in SUBSET S /\ Cardinality(low) < n /\ One(s) \in S
            BY <1>1, <1>10, <3>1, <4>2
          <5>2. f[low] \in Int /\ share[One(s)] \in Int
            BY <5>1
          <5>3. f[s] = share[One(s)] + f[low]
            BY <2>1, <4>2 DEF Body
          <5> QED
            BY <5>2, <5>3
        <4> QED
          BY <4>1, <4>2
      <3> QED
        BY <3>1
    <2>4. most \in N
      <3>1. N \subseteq Nat
        BY DEF N
      <3>2. most \in Nat
        BY <1>2
      <3> HIDE DEF N, most
      <3>3. N = Nat
        BY <2>2, <2>3, <3>1, Induction
      <3> QED
        BY <3>2, <3>3
    <2>5. Cardinality(S) < most
      BY <1>2
    <2> QED
      BY <2>4, <2>5
  <1> HIDE DEF f0
  <1> QED
    BY <1>8, <1>9

\* An object of which the ranking can be computed: who found it, and when.
Sighted(c) ==
    /\ IsFiniteSet(DOMAIN c.discovered)
    /\ \A p \in DOMAIN c.discovered : p[2] \in Source /\ c.discovered[p] \in Int
    /\ c.time \in Int \cup {Unknown}

\* What it weighs is a number.
LEMMA BaseType == ASSUME NEW c, Sighted(c) PROVE BaseScore(c) \in Int
  <1> DEFINE D == DOMAIN c.discovered
             Share(p) == ((IF Weights[p[2]] = 0 THEN 100 ELSE Weights[p[2]]) * 10000)
                            \div (K0 + Max({1, c.discovered[p]}))
             share == [p \in D |-> Share(p)]
  <1>1. ASSUME NEW p \in D PROVE Share(p) \in Int
    <2>1. Max({1, c.discovered[p]}) \in Nat \ {0}
      <3> DEFINE r == c.discovered[p]
                 top == CHOOSE x \in {1, r} : \A y \in {1, r} : x >= y
      <3>1. r \in Int
        BY DEF Sighted
      <3> HIDE DEF r
      <3>2. \E x \in {1, r} : \A y \in {1, r} : x >= y
        BY <3>1
      <3>3. top \in {1, r} /\ \A y \in {1, r} : top >= y
        BY <3>2
      <3> HIDE DEF top
      <3>4. top \in Nat \ {0}
        BY <3>1, <3>3
      <3> QED
        BY <3>4 DEF Max, top, r
    <2>2. Weights[p[2]] \in Nat /\ K0 \in Nat \ {0}
      BY FusionAssumption DEF Sighted
    <2> DEFINE w == (IF Weights[p[2]] = 0 THEN 100 ELSE Weights[p[2]]) * 10000
               k == K0 + Max({1, c.discovered[p]})
    <2>3. w \in Int /\ k \in Nat \ {0}
      BY <2>1, <2>2
    <2> HIDE DEF w, k
    <2>4. w \div k \in Int
      BY <2>3
    <2> QED
      BY <2>4 DEF w, k
  <1> HIDE DEF Share
  <1>2. share \in [D -> Int]
    BY <1>1
  <1>3. IsFiniteSet(D) /\ Cardinality(D) \in Nat
    BY FS_CardinalityType DEF Sighted
  <1> DEFINE Body(f) == [s \in SUBSET D |-> IF s = {} THEN 0
                            ELSE LET x == CHOOSE x \in s : TRUE IN Share(x) + f[s \ {x}]]
             sum == CHOOSE f : f = Body(f)
  <1>4. ASSUME NEW f PROVE f = Body(f) <=> SumIs(f, D, share)
    <2>1. \A s \in SUBSET D : s # {} => share[CHOOSE x \in s : TRUE] = Share(CHOOSE x \in s : TRUE)
      OBVIOUS
    <2> HIDE DEF share, D
    <2>2. Body(f) = [s \in SUBSET D |-> IF s = {} THEN 0
                        ELSE LET x == CHOOSE x \in s : TRUE IN share[x] + f[s \ {x}]]
      BY <2>1
    <2> QED
      BY <2>2 DEF SumIs
  <1>5. sum[D] \in Int
    <2>1. \E f : f = Body(f)
      <3> HIDE DEF Body, share, D
      <3> QED
        BY <1>2, <1>3, <1>4, SumExists
    <2>2. sum = Body(sum)
      <3> HIDE DEF Body
      <3> QED
        BY <2>1
    <2> HIDE DEF sum, share, D, Body
    <2> QED
      BY <1>2, <1>3, <1>4, <2>2, SumExists
  <1> DEFINE agreed == 4000 * (Cardinality(D) - 1)
  <1>7. agreed \in Int
    BY <1>3
  <1>8. (IF Recent(c) THEN 200 * (30 - c.time) ELSE 0) \in Int
    BY DEF Recent
  <1>9. BaseScore(c) = sum[D]
           + (CASE c.title.match = "equal" -> 50000 [] c.title.match = "contains" -> 25000
                [] OTHER -> 0)
           + (IF c.snippet.match = "none" THEN 0 ELSE 8000)
           + (IF agreed < 15000 THEN agreed ELSE 15000)
           + (IF Recent(c) THEN 200 * (30 - c.time) ELSE 0)
    BY DEF BaseScore, MapThenSumSet, MapThenFoldSet, Share
  <1> HIDE DEF sum, D, agreed
  <1> QED
    BY <1>5, <1>7, <1>8, <1>9

\* What the clock can take of a score, and what it took.
Delays == 0 .. 999
Lost(c, l) == Score(c) = 1000 * BaseScore(c) - l /\ (~Recent(c) => l = 0)

\* Its score is what it weighs, less than a millionth of it lost to the clock,
\* and nothing when it is not recent.
LEMMA ScoreType ==
    ASSUME NEW c, Sighted(c), late[c.id] \in Delays
    PROVE  /\ Score(c) \in Int
           /\ \E l \in Delays : Lost(c, l)
  <1>0. Delays \subseteq Int
    BY DEF Delays
  <1>1. BaseScore(c) \in Int
    BY BaseType
  <1>2. CASE Recent(c)
    <2>1. Score(c) = 1000 * BaseScore(c) - late[c.id]
      BY <1>2 DEF Score
    <2>2. Lost(c, late[c.id])
      BY <1>2, <2>1 DEF Lost, Delays
    <2>3. late[c.id] \in Int
      BY <1>0, Zenon
    <2> DEFINE b == BaseScore(c)
               l == late[c.id]
    <2> HIDE DEF b, l
    <2>4. 1000 * b - l \in Int
      BY <1>1, <2>3 DEF b, l
    <2>5. Score(c) \in Int
      BY <2>1, <2>4 DEF b, l
    <2> QED
      BY <2>2, <2>5
  <1>3. CASE ~Recent(c)
    <2>1. Score(c) = 1000 * BaseScore(c) - 0
      BY <1>3 DEF Score
    <2>2. Lost(c, 0)
      BY <2>1 DEF Lost, Delays
    <2> QED
      BY <1>1, <2>1, <2>2 DEF Delays
  <1> QED
    BY <1>2, <1>3

----------------------------------------------------------------------------
(* What fusion keeps of an object's hits. *)

\* An object as it is kept.
IsObject(c) ==
    /\ c = [id |-> c.id, source |-> c.source, title |-> c.title, snippet |-> c.snippet,
            time |-> c.time, hints |-> c.hints, discovered |-> c.discovered]
    /\ c.id[1] \in Int /\ c.id[2] \in Int /\ c.id = <<c.id[1], c.id[2]>>
    /\ c.source \in Source /\ Sighted(c)

\* The hits of an object among some of all.
HitsOf(given, id, some) == {i \in some : CanonicalID(given[i]) = id}

\* The object holds exactly what those hits say of it.
Holds(given, c, hits) ==
    /\ DOMAIN c.discovered = UNION {DOMAIN Sightings(given[i]) : i \in hits}
    /\ \A p \in DOMAIN c.discovered :
          /\ \E i \in hits : p \in DOMAIN Sightings(given[i]) /\ c.discovered[p] = Sightings(given[i])[p]
          /\ \A i \in hits : p \in DOMAIN Sightings(given[i]) =>
                c.discovered[p] <= Sightings(given[i])[p]
    /\ c.hints = UNION {given[i].hints : i \in hits}
    /\ \A i \in hits : given[i].time # Unknown => c.time # Unknown /\ c.time <= given[i].time

\* The hits merged so far.
Done == 1 .. next - 1

\* Arguments are hits, and the objects so far hold what the hits so far say.
MergeInv ==
    /\ all \in Inputs /\ limit \in Limits /\ useQuota \in BOOLEAN
    /\ stage \in {"merge", "rank", "select", "done"}
    /\ next \in 1 .. Len(all) + 1
    /\ stage # "merge" => next = Len(all) + 1 /\ late \in [DOMAIN merged -> Delays]
    /\ DOMAIN merged = {CanonicalID(all[i]) : i \in Done} /\ IsFiniteSet(DOMAIN merged)
    /\ \A id \in DOMAIN merged :
          /\ merged[id].id = id /\ IsObject(merged[id]) /\ Holds(all, merged[id], HitsOf(all, id, Done))

\* A function into a set is one into any larger set.
LEMMA WidenRange ==
    ASSUME NEW D, NEW S, NEW T, S \subseteq T, NEW f \in [D -> S]
    PROVE  f \in [D -> T]
  OBVIOUS

\* What a provider reports has integer ranks and an id.
LEMMA HitFields ==
    ASSUME NEW h, IsHit(h)
    PROVE  /\ IsFiniteSet(DOMAIN Sightings(h))
           /\ \A p \in DOMAIN Sightings(h) : p[2] \in Source /\ Sightings(h)[p] \in Int
           /\ h.time \in Int \cup {Unknown} /\ h.source \in Source
           /\ CanonicalID(h)[1] \in Int /\ CanonicalID(h)[2] \in Int
           /\ CanonicalID(h) = <<CanonicalID(h)[1], CanonicalID(h)[2]>>
  <1>1. CASE DOMAIN h.discovered # {}
    <2>1. Sightings(h) = h.discovered
      BY <1>1 DEF Sightings
    <2> QED
      BY <2>1, FusionAssumption DEF IsHit, CanonicalID
  <1>2. CASE DOMAIN h.discovered = {}
    <2> DEFINE key == <<h.provider, h.source>>
               rank == IF h.rank <= 0 THEN 1 ELSE h.rank
    <2>1. Sightings(h) = [p \in {key} |-> rank]
      BY <1>2 DEF Sightings
    <2>2. rank \in Int /\ key[2] \in Source
      BY DEF IsHit
    <2>3. IsFiniteSet({key})
      BY FS_Singleton
    <2> HIDE DEF key, rank
    <2>4. DOMAIN Sightings(h) = {key} /\ Sightings(h)[key] = rank
      BY <2>1
    <2> QED
      BY <2>2, <2>3, <2>4, FusionAssumption DEF IsHit, CanonicalID
  <1> QED
    BY <1>1, <1>2

\* A hit on its own is an object.
LEMMA CanonicalObject ==
    ASSUME NEW h, IsHit(h)
    PROVE  IsObject(Canonicalize(h)) /\ Canonicalize(h).id = CanonicalID(h)
  BY HitFields DEF Canonicalize, IsObject, Sighted

\* The best of two discoveries.
LEMMA BestDiscovery ==
    ASSUME NEW x, NEW y, \A p \in DOMAIN x : x[p] \in Int, \A p \in DOMAIN y : y[p] \in Int,
           NEW p \in DOMAIN x \cup DOMAIN y
    PROVE  LET d == mergeDiscoveries(x, y)[p]
           IN /\ d \in Int
              /\ \/ p \in DOMAIN x /\ d = x[p]
                 \/ p \in DOMAIN y /\ d = y[p]
              /\ p \in DOMAIN x => d <= x[p]
              /\ p \in DOMAIN y => d <= y[p]
  <1> DEFINE d == mergeDiscoveries(x, y)[p]
  <1>1. d = IF p \notin DOMAIN y \/ (p \in DOMAIN x /\ x[p] <= y[p]) THEN x[p] ELSE y[p]
    BY DEF mergeDiscoveries
  <1> HIDE DEF d
  <1>2. CASE p \notin DOMAIN y
    BY <1>1, <1>2 DEF d
  <1>3. CASE p \in DOMAIN y /\ p \notin DOMAIN x
    BY <1>1, <1>3 DEF d
  <1>4. CASE p \in DOMAIN y /\ p \in DOMAIN x
    BY <1>1, <1>4 DEF d
  <1> QED
    BY <1>2, <1>3, <1>4

\* Merging two objects leaves an object.
LEMMA MergedObject ==
    ASSUME NEW x, NEW y, IsObject(x), IsObject(y)
    PROVE  /\ IsObject(Merge(x, y)) /\ Merge(x, y).id = x.id
           /\ Merge(x, y).time = Newer(x.time, y.time)
           /\ Merge(x, y).hints = x.hints \cup y.hints
           /\ Merge(x, y).discovered = mergeDiscoveries(x.discovered, y.discovered)
  <1> DEFINE d == mergeDiscoveries(x.discovered, y.discovered)
  <1>1. PICK xid, xsource, xtitle, xsnippet, xtime, xhints, xdiscovered :
           x = [id |-> xid, source |-> xsource, title |-> xtitle, snippet |-> xsnippet,
                time |-> xtime, hints |-> xhints, discovered |-> xdiscovered]
    BY DEF IsObject
  <1>2. Merge(x, y) =
           [id |-> x.id, source |-> x.source, title |-> Longer(x.title, y.title),
            snippet |-> Longer(x.snippet, y.snippet), time |-> Newer(x.time, y.time),
            hints |-> x.hints \cup y.hints, discovered |-> d]
    <2> DEFINE t == Longer(x.title, y.title)
               s == Longer(x.snippet, y.snippet)
               w == Newer(x.time, y.time)
               h == x.hints \cup y.hints
    <2>1. Merge(x, y) = [x EXCEPT !.title = t, !.snippet = s, !.time = w, !.hints = h,
                                  !.discovered = d]
      BY DEF Merge, mergeHints
    <2>2. x.id = xid /\ x.source = xsource
      BY <1>1
    <2> HIDE DEF t, s, w, h, d
    <2>3. Merge(x, y) = [id |-> xid, source |-> xsource, title |-> t, snippet |-> s,
                         time |-> w, hints |-> h, discovered |-> d]
      BY <1>1, <2>1
    <2> QED
      BY <2>2, <2>3 DEF t, s, w, h
  <1>3. DOMAIN d = DOMAIN x.discovered \cup DOMAIN y.discovered
    BY DEF mergeDiscoveries
  <1>4. IsFiniteSet(DOMAIN d)
    BY <1>3, FS_Union DEF IsObject, Sighted
  <1>5. \A p \in DOMAIN d : p[2] \in Source /\ d[p] \in Int
    BY <1>3, BestDiscovery DEF IsObject, Sighted
  <1>6. Newer(x.time, y.time) \in Int \cup {Unknown}
    BY DEF IsObject, Sighted, Newer
  <1> HIDE DEF d
  <1> QED
    BY <1>2, <1>4, <1>5, <1>6 DEF IsObject, Sighted, d

\* A hit on its own holds what it says.
LEMMA FirstHolds ==
    ASSUME NEW given, NEW i, IsHit(given[i])
    PROVE  Holds(given, Canonicalize(given[i]), {i})
  <1> DEFINE c == Canonicalize(given[i])
  <1>1. c.discovered = Sightings(given[i]) /\ c.hints = given[i].hints /\ c.time = given[i].time
    BY DEF Canonicalize
  <1>2. /\ \A p \in DOMAIN Sightings(given[i]) : Sightings(given[i])[p] \in Int
        /\ given[i].time \in Int \cup {Unknown}
    BY HitFields
  <1> HIDE DEF c
  <1>3. UNION {DOMAIN Sightings(given[j]) : j \in {i}} = DOMAIN Sightings(given[i])
    OBVIOUS
  <1>4. UNION {given[j].hints : j \in {i}} = given[i].hints
    OBVIOUS
  <1>5. \A j \in {i} : given[j].time # Unknown => c.time # Unknown /\ c.time <= given[j].time
    BY <1>1, <1>2
  <1>6. ASSUME NEW p \in DOMAIN c.discovered
        PROVE  /\ \E j \in {i} : /\ p \in DOMAIN Sightings(given[j])
                                 /\ c.discovered[p] = Sightings(given[j])[p]
               /\ \A j \in {i} : p \in DOMAIN Sightings(given[j]) =>
                     c.discovered[p] <= Sightings(given[j])[p]
    BY <1>1, <1>2
  <1> QED
    BY <1>1, <1>3, <1>4, <1>5, <1>6 DEF Holds, c

\* The union of one more set.
LEMMA UnionWithOne ==
    ASSUME NEW sets, NEW one
    PROVE  UNION (sets \cup {one}) = (UNION sets) \cup one
  <1>1. ASSUME NEW e \in UNION (sets \cup {one}) PROVE e \in (UNION sets) \cup one
    BY <1>1, Zenon
  <1>2. ASSUME NEW e \in (UNION sets) \cup one PROVE e \in UNION (sets \cup {one})
    BY <1>2, Zenon
  <1> QED
    BY <1>1, <1>2, Zenon

\* One more hit adds its providers.
LEMMA UnionOfDomains ==
    ASSUME NEW given, NEW hits, NEW i
    PROVE  UNION {DOMAIN Sightings(given[j]) : j \in hits \cup {i}}
               = (UNION {DOMAIN Sightings(given[j]) : j \in hits}) \cup DOMAIN Sightings(given[i])
  <1> DEFINE before == {DOMAIN Sightings(given[j]) : j \in hits}
             after == {DOMAIN Sightings(given[j]) : j \in hits \cup {i}}
             one == DOMAIN Sightings(given[i])
  <1>1. after = before \cup {one}
    BY Zenon
  <1> HIDE DEF before, after, one
  <1>2. UNION after = (UNION before) \cup one
    BY <1>1, UnionWithOne
  <1> QED
    BY <1>2 DEF before, after, one

\* One more hit adds its relation hints.
LEMMA UnionOfHints ==
    ASSUME NEW given, NEW hits, NEW i
    PROVE  UNION {given[j].hints : j \in hits \cup {i}}
               = (UNION {given[j].hints : j \in hits}) \cup given[i].hints
  <1> DEFINE before == {given[j].hints : j \in hits}
             after == {given[j].hints : j \in hits \cup {i}}
             one == given[i].hints
  <1>1. after = before \cup {one}
    BY Zenon
  <1> HIDE DEF before, after, one
  <1>2. UNION after = (UNION before) \cup one
    BY <1>1, UnionWithOne
  <1> QED
    BY <1>2 DEF before, after, one

\* Merging an object with one more hit holds what all of them say.
LEMMA MergeHolds ==
    ASSUME NEW given, NEW x, NEW hits, NEW i, IsObject(x), IsHit(given[i]), Holds(given, x, hits),
           \A j \in hits : IsHit(given[j])
    PROVE  Holds(given, Merge(x, Canonicalize(given[i])), hits \cup {i})
  <1> DEFINE y == Canonicalize(given[i])
             z == Merge(x, y)
             both == hits \cup {i}
  <1>1. y.discovered = Sightings(given[i]) /\ y.hints = given[i].hints /\ y.time = given[i].time
    BY DEF Canonicalize
  <1>2. IsObject(y)
    BY CanonicalObject
  <1> HIDE DEF y
  <1>3. /\ z.time = Newer(x.time, y.time) /\ z.hints = x.hints \cup y.hints
        /\ z.discovered = mergeDiscoveries(x.discovered, y.discovered)
    BY <1>2, MergedObject
  <1> HIDE DEF z
  <1>4. /\ \A p \in DOMAIN x.discovered : x.discovered[p] \in Int
        /\ \A p \in DOMAIN y.discovered : y.discovered[p] \in Int
        /\ \A j \in both : \A p \in DOMAIN Sightings(given[j]) : Sightings(given[j])[p] \in Int
        /\ \A j \in both : given[j].time \in Int \cup {Unknown}
        /\ x.time \in Int \cup {Unknown} /\ y.time \in Int \cup {Unknown}
    BY <1>2, HitFields DEF IsObject, Sighted
  <1>5. DOMAIN z.discovered = DOMAIN x.discovered \cup DOMAIN y.discovered
    BY <1>3 DEF mergeDiscoveries
  <1>6. DOMAIN z.discovered = UNION {DOMAIN Sightings(given[j]) : j \in both}
    <2>1. UNION {DOMAIN Sightings(given[j]) : j \in both}
             = (UNION {DOMAIN Sightings(given[j]) : j \in hits}) \cup DOMAIN Sightings(given[i])
      BY UnionOfDomains
    <2> QED
      BY <1>1, <1>5, <2>1 DEF Holds
  <1>7. z.hints = UNION {given[j].hints : j \in both}
    <2>1. UNION {given[j].hints : j \in both} = (UNION {given[j].hints : j \in hits}) \cup given[i].hints
      BY UnionOfHints
    <2> QED
      BY <1>1, <1>3, <2>1 DEF Holds
  <1>8. ASSUME NEW j \in both, given[j].time # Unknown
        PROVE  z.time # Unknown /\ z.time <= given[j].time
    <2>1. CASE j \in hits
      <3>1. x.time # Unknown /\ x.time <= given[j].time /\ x.time \in Int
        BY <1>4, <1>8, <2>1 DEF Holds
      <3>2. z.time # Unknown /\ z.time \in Int /\ z.time <= x.time
        BY <1>3, <1>4, <3>1 DEF Newer
      <3> QED
        BY <1>4, <1>8, <3>1, <3>2
    <2>2. CASE j = i
      BY <1>1, <1>3, <1>4, <1>8, <2>2 DEF Newer
    <2> QED
      BY <2>1, <2>2
  <1>9. ASSUME NEW p \in DOMAIN z.discovered
        PROVE  /\ \E j \in both : /\ p \in DOMAIN Sightings(given[j])
                                  /\ z.discovered[p] = Sightings(given[j])[p]
               /\ \A j \in both : p \in DOMAIN Sightings(given[j]) =>
                     z.discovered[p] <= Sightings(given[j])[p]
    <2> DEFINE d == z.discovered[p]
    <2>1. /\ d \in Int
          /\ \/ p \in DOMAIN x.discovered /\ d = x.discovered[p]
             \/ p \in DOMAIN y.discovered /\ d = y.discovered[p]
          /\ p \in DOMAIN x.discovered => d <= x.discovered[p]
          /\ p \in DOMAIN y.discovered => d <= y.discovered[p]
      BY <1>3, <1>4, <1>5, BestDiscovery
    <2> HIDE DEF d
    <2>2. \E j \in both : p \in DOMAIN Sightings(given[j]) /\ d = Sightings(given[j])[p]
      BY <1>1, <2>1 DEF Holds
    <2>3. ASSUME NEW j \in both, p \in DOMAIN Sightings(given[j]) PROVE d <= Sightings(given[j])[p]
      <3>1. CASE j \in hits
        <4>1. p \in DOMAIN x.discovered /\ x.discovered[p] <= Sightings(given[j])[p]
          BY <2>3, <3>1 DEF Holds
        <4>2. x.discovered[p] \in Int /\ Sightings(given[j])[p] \in Int
          BY <1>4, <2>3, <4>1
        <4> QED
          BY <2>1, <4>1, <4>2
      <3>2. CASE j = i
        BY <1>1, <2>1, <2>3, <3>2
      <3> QED
        BY <3>1, <3>2
    <2> QED
      BY <2>2, <2>3 DEF d
  <1> QED
    BY <1>6, <1>7, <1>8, <1>9 DEF Holds, z, y

\* At first nothing is merged.
LEMMA MergeInvInit == FuseInit => MergeInv
  <1> SUFFICES ASSUME FuseInit PROVE MergeInv
    OBVIOUS
  <1>1. DOMAIN merged = {} /\ Done = {}
    BY DEF FuseInit, Done
  <1>2. next \in 1 .. Len(all) + 1
    BY FusionAssumption DEF FuseInit
  <1>3. IsFiniteSet(DOMAIN merged)
    BY <1>1, FS_EmptySet
  <1> QED
    BY <1>1, <1>2, <1>3 DEF FuseInit, MergeInv

\* Every hit taken so far is one a provider may report.
LEMMA DoneHits ==
    ASSUME MergeInv
    PROVE  \A i \in DOMAIN all : IsHit(all[i])
  BY FusionAssumption DEF MergeInv

\* A step merges one more hit, or none.
LEMMA MergeInvStep == MergeInv /\ [FuseNext]_fuseVars => MergeInv'
  <1> SUFFICES ASSUME MergeInv, [FuseNext]_fuseVars PROVE MergeInv'
    OBVIOUS
  <1>1. CASE MergeHit
    <2> DEFINE c == Canonicalize(all[next])
               to == next + 1
    <2>1. /\ all' = all /\ limit' = limit /\ useQuota' = useQuota /\ stage' = stage
          /\ stage = "merge" /\ next <= Len(all) /\ next' = to
          /\ merged' = [id \in DOMAIN merged \cup {c.id} |->
                           IF id # c.id THEN merged[id]
                           ELSE IF id \in DOMAIN merged THEN Merge(merged[id], c) ELSE c]
      BY <1>1 DEF MergeHit
    <2>2. Len(all) \in Nat /\ DOMAIN all = 1 .. Len(all) /\ next \in 1 .. Len(all)
      BY <2>1, FusionAssumption DEF MergeInv
    <2>3. IsHit(all[next]) /\ \A i \in Done : IsHit(all[i])
      BY <2>2, DoneHits DEF Done
    <2>4. IsObject(c) /\ c.id = CanonicalID(all[next])
      BY <2>3, CanonicalObject
    <2>5. Done' = Done \cup {next} /\ next \notin Done
      BY <2>1, <2>2 DEF Done
    <2> HIDE DEF to
    <2>6. DOMAIN merged' = DOMAIN merged \cup {c.id}
      BY <2>1
    <2>7. DOMAIN merged' = {CanonicalID(all[i]) : i \in Done \cup {next}}
      BY <2>4, <2>6 DEF MergeInv
    <2>8. IsFiniteSet(DOMAIN merged')
      <3>1. IsFiniteSet({c.id})
        BY FS_Singleton
      <3>2. IsFiniteSet(DOMAIN merged)
        BY DEF MergeInv
      <3> QED
        BY <2>6, <3>1, <3>2, FS_Union
    <2>9. ASSUME NEW id \in DOMAIN merged'
          PROVE  /\ merged'[id].id = id /\ IsObject(merged'[id])
                 /\ Holds(all, merged'[id], HitsOf(all, id, Done \cup {next}))
      <3>1. CASE id # c.id
        <4>1. merged'[id] = merged[id] /\ id \in DOMAIN merged
          BY <2>1, <2>6, <2>9, <3>1
        <4>2. HitsOf(all, id, Done \cup {next}) = HitsOf(all, id, Done)
          BY <2>4, <3>1 DEF HitsOf
        <4> QED
          BY <4>1, <4>2 DEF MergeInv
      <3>2. CASE id = c.id /\ id \in DOMAIN merged
        <4>1. merged'[id] = Merge(merged[id], c)
          BY <2>1, <3>2
        <4>2. HitsOf(all, id, Done \cup {next}) = HitsOf(all, id, Done) \cup {next}
          BY <2>4, <3>2 DEF HitsOf
        <4>3. /\ merged[id].id = id /\ IsObject(merged[id])
              /\ Holds(all, merged[id], HitsOf(all, id, Done))
          BY <3>2 DEF MergeInv
        <4>4. \A i \in HitsOf(all, id, Done) : IsHit(all[i])
          BY <2>3 DEF HitsOf
        <4>5. IsObject(merged'[id]) /\ merged'[id].id = id
          BY <2>4, <4>1, <4>3, MergedObject
        <4>6. Holds(all, Merge(merged[id], c), HitsOf(all, id, Done) \cup {next})
          BY <2>3, <4>3, <4>4, MergeHolds
        <4> QED
          BY <4>1, <4>2, <4>5, <4>6
      <3>3. CASE id = c.id /\ id \notin DOMAIN merged
        <4>1. merged'[id] = c
          BY <2>1, <3>3
        <4>2. HitsOf(all, id, Done \cup {next}) = {next}
          BY <2>4, <3>3 DEF HitsOf, MergeInv
        <4>3. Holds(all, c, {next})
          BY <2>3, FirstHolds
        <4> QED
          BY <2>4, <3>3, <4>1, <4>2, <4>3
      <3> QED
        BY <3>1, <3>2, <3>3
    <2>10. to \in 1 .. Len(all) + 1
      BY <2>2 DEF to
    <2> HIDE DEF c
    <2>11. /\ all' \in Inputs /\ limit' \in Limits /\ useQuota' \in BOOLEAN
           /\ stage' = "merge" /\ next' \in 1 .. Len(all') + 1
      BY <2>1, <2>10 DEF MergeInv
    <2>12. DOMAIN merged' = {CanonicalID(all'[i]) : i \in Done'}
      BY <2>1, <2>5, <2>7
    <2>13. ASSUME NEW id \in DOMAIN merged'
           PROVE  /\ merged'[id].id = id /\ IsObject(merged'[id])
                  /\ Holds(all', merged'[id], HitsOf(all', id, Done'))
      BY <2>1, <2>5, <2>9
    <2> QED
      BY <2>8, <2>11, <2>12, <2>13 DEF MergeInv
  <1>2. ASSUME UNCHANGED <<all, limit, useQuota, next, merged>>,
               stage' \in {"merge", "rank", "select", "done"},
               stage' # "merge" => next = Len(all) + 1 /\ late' \in [DOMAIN merged -> Delays]
        PROVE  MergeInv'
    <2>1. Done' = Done /\ all' = all /\ merged' = merged
      BY <1>2 DEF Done
    <2>2. /\ DOMAIN merged' = {CanonicalID(all'[i]) : i \in Done'} /\ IsFiniteSet(DOMAIN merged')
          /\ \A id \in DOMAIN merged' :
                /\ merged'[id].id = id /\ IsObject(merged'[id])
                /\ Holds(all', merged'[id], HitsOf(all', id, Done'))
      BY <2>1 DEF MergeInv
    <2>3. /\ all' \in Inputs /\ limit' \in Limits /\ useQuota' \in BOOLEAN
          /\ next' \in 1 .. Len(all') + 1
          /\ stage' # "merge" => next' = Len(all') + 1 /\ late' \in [DOMAIN merged' -> Delays]
      <3>1. /\ all \in Inputs /\ limit \in Limits /\ useQuota \in BOOLEAN
            /\ next \in 1 .. Len(all) + 1
        BY Zenon DEF MergeInv
      <3>2. all' = all /\ limit' = limit /\ useQuota' = useQuota /\ next' = next
        BY <1>2
      <3>3. stage' # "merge" => next' = Len(all') + 1 /\ late' \in [DOMAIN merged' -> Delays]
        <4>1. DOMAIN merged' = DOMAIN merged /\ Len(all') = Len(all)
          BY <2>1, Zenon
        <4>2. CASE stage' # "merge"
          <5>1. next = Len(all) + 1 /\ late' \in [DOMAIN merged -> Delays]
            BY <1>2, <4>2, Zenon
          <5>2. next' = Len(all') + 1
            BY <3>2, <5>1, Zenon
          <5> QED
            BY <4>1, <5>1, <5>2, Zenon
        <4> QED
          BY <4>2, Zenon
      <3>4. next' \in 1 .. Len(all') + 1
        BY <3>1, <3>2, Zenon
      <3> QED
        BY <3>1, <3>2, <3>3, <3>4, Zenon
    <2> QED
      BY <1>2, <2>2, <2>3, Zenon DEF MergeInv
  <1>3. CASE ScoreObjects
    <2>1. next = Len(all) + 1
      BY <1>3, FusionAssumption DEF ScoreObjects, MergeInv
    <2>2. late' \in [DOMAIN merged -> Clock] /\ Clock \subseteq Delays
      BY <1>3, FusionAssumption DEF ScoreObjects, Delays
    <2>3. late' \in [DOMAIN merged -> Delays]
      BY <2>2, WidenRange, Zenon
    <2>4. UNCHANGED <<all, limit, useQuota, next, merged>> /\ stage' = "rank"
      BY <1>3, Zenon DEF ScoreObjects
    <2> QED
      BY <1>2, <2>1, <2>3, <2>4
  <1>4. CASE Rank \/ Cut
    <2>1. /\ stage \in {"rank", "select"} /\ stage' \in {"select", "done"}
          /\ UNCHANGED <<all, limit, useQuota, next, merged, late>>
      BY <1>4 DEF Rank, Cut
    <2>2. next = Len(all) + 1 /\ late \in [DOMAIN merged -> Delays]
      BY <2>1 DEF MergeInv
    <2> QED
      BY <1>2, <2>1, <2>2
  <1>5. CASE UNCHANGED fuseVars
    <2>1. UNCHANGED <<all, limit, useQuota, stage, next, merged, late>>
      BY <1>5 DEF fuseVars
    <2>2. /\ stage \in {"merge", "rank", "select", "done"}
          /\ stage # "merge" => next = Len(all) + 1 /\ late \in [DOMAIN merged -> Delays]
      BY Zenon DEF MergeInv
    <2>3. /\ stage' \in {"merge", "rank", "select", "done"}
          /\ stage' # "merge" => next = Len(all) + 1 /\ late' \in [DOMAIN merged -> Delays]
      BY <2>1, <2>2, Zenon
    <2> QED
      BY <1>2, <2>1, <2>3, Zenon
  <1> QED
    BY <1>1, <1>3, <1>4, <1>5 DEF FuseNext

\* The least element of a set of numbers is the one Min picks.
LEMMA MinIs ==
    ASSUME NEW S, NEW d \in S, S \subseteq Int, \A e \in S : d <= e
    PROVE  Min(S) = d
  <1>1. \A e \in S : (\A f \in S : e <= f) => e = d
    OBVIOUS
  <1>2. \E e \in S : \A f \in S : e <= f
    OBVIOUS
  <1>3. Min(S) \in S /\ \A f \in S : Min(S) <= f
    BY <1>2, Zenon DEF Min
  <1> QED
    BY <1>1, <1>3

\* Once all hits are merged the objects say exactly what the hits say.
LEMMA MergedExactly == MergeInv => MergeExact
  <1> SUFFICES ASSUME MergeInv, stage # "merge"
               PROVE  MergeExact
    BY DEF MergeExact
  <1>1. Done = DOMAIN all
    BY FusionAssumption DEF MergeInv, Done
  <1>2. \A i \in DOMAIN all : IsHit(all[i])
    BY DoneHits
  <1>3. DOMAIN merged = {CanonicalID(all[i]) : i \in DOMAIN all}
    BY <1>1 DEF MergeInv
  <1>4. ASSUME NEW id \in DOMAIN merged
        PROVE  LET hits == Hits(id)
                   c == merged[id]
               IN /\ DOMAIN c.discovered = UNION {DOMAIN Sightings(all[i]) : i \in hits}
                  /\ \A p \in DOMAIN c.discovered :
                        c.discovered[p] = Min({Sightings(all[i])[p] :
                            i \in {j \in hits : p \in DOMAIN Sightings(all[j])}})
                  /\ c.hints = UNION {all[i].hints : i \in hits}
                  /\ \A i \in hits : all[i].time # Unknown =>
                        c.time # Unknown /\ c.time <= all[i].time
    <2> DEFINE hits == Hits(id)
               c == merged[id]
    <2>1. hits = HitsOf(all, id, Done)
      BY <1>1 DEF Hits, HitsOf
    <2>2. Holds(all, c, hits) /\ hits \subseteq DOMAIN all
      <3>1. Holds(all, merged[id], HitsOf(all, id, Done))
        BY <1>4, Zenon DEF MergeInv
      <3>2. hits \subseteq DOMAIN all
        BY DEF Hits
      <3> QED
        BY <2>1, <3>1, <3>2, Zenon
    <2> HIDE DEF hits, c
    <2>3. ASSUME NEW p \in DOMAIN c.discovered
          PROVE  c.discovered[p] = Min({Sightings(all[i])[p] :
                     i \in {j \in hits : p \in DOMAIN Sightings(all[j])}})
      <3> DEFINE seen == {j \in hits : p \in DOMAIN Sightings(all[j])}
                 ranks == {Sightings(all[i])[p] : i \in seen}
                 d == c.discovered[p]
      <3>1. \E i \in seen : d = Sightings(all[i])[p]
        BY <2>2 DEF Holds
      <3>2. \A i \in seen : d <= Sightings(all[i])[p]
        BY <2>2 DEF Holds
      <3>3. \A i \in seen : Sightings(all[i])[p] \in Int
        BY <1>2, <2>2, HitFields
      <3> HIDE DEF seen, d
      <3>4. d \in ranks /\ ranks \subseteq Int /\ \A e \in ranks : d <= e
        BY <3>1, <3>2, <3>3
      <3> HIDE DEF ranks
      <3>5. Min(ranks) = d
        BY <3>4, MinIs
      <3> QED
        BY <3>5 DEF ranks, seen, d
    <2> QED
      BY <2>2, <2>3 DEF Holds, hits, c
  <1> QED
    BY <1>3, <1>4 DEF MergeExact

\* However the searches interleave their pages, an object ends up once, with the
\* best rank each provider gave it, all its hints and its newest time.
THEOREM MergeAlwaysExact == FuseSpec => []MergeExact
  <1>1. FuseSpec => []MergeInv
    BY MergeInvInit, MergeInvStep, PTL DEF FuseSpec
  <1> QED
    BY <1>1, MergedExactly, PTL

----------------------------------------------------------------------------
(* The ranking. *)

\* An order of a finite set lists each element once.
LEMMA Permutation ==
    ASSUME NEW D, IsFiniteSet(D), NEW order \in SetToSeqs(D)
    PROVE  /\ order \in Seq(D) /\ IsInjective(order) /\ ToSet(order) = D
           /\ Len(order) = Cardinality(D)
  <1> DEFINE n == Cardinality(D)
  <1>1. n \in Nat
    BY FS_CardinalityType
  <1>2. order \in [1 .. n -> D] /\ \A i, j \in 1 .. n : i # j => order[i] # order[j]
    BY DEF SetToSeqs
  <1> HIDE DEF n
  <1>3. order \in Seq(D) /\ DOMAIN order = 1 .. n /\ Len(order) = n
    BY <1>1, <1>2, SeqDef
  <1>4. IsInjective(order)
    BY <1>2 DEF IsInjective
  <1>5. order \in Injection(1 .. n, D)
    BY <1>2, <1>4 DEF Injection
  <1>6. Cardinality(1 .. n) = n
    BY <1>1, FS_Interval
  <1>7. order \in Surjection(1 .. n, D)
    BY <1>5, <1>6, FS_Injection DEF n
  <1>8. ToSet(order) = D
    BY <1>2, <1>3, <1>7 DEF Surjection, ToSet
  <1> QED
    BY <1>3, <1>4, <1>8 DEF n

\* The merged objects, scored, and those objects in some order of their ids.
IsMerge(m) ==
    /\ IsFiniteSet(DOMAIN m) /\ \A id \in DOMAIN m : m[id].id = id /\ IsObject(m[id])
    /\ late \in [DOMAIN m -> Delays]
ObjectsOf(m) == {m[id] : id \in DOMAIN m}
Listed(m, order) == [i \in DOMAIN order |-> m[order[i]]]
Comparable(m) ==
    \/ \A id \in DOMAIN m : m[id].time = Unknown
    \/ \A id \in DOMAIN m : m[id].time # Unknown

\* A list of the objects holds each object once.
LEMMA ListedObjects ==
    ASSUME NEW m, IsMerge(m), NEW order \in SetToSeqs(DOMAIN m)
    PROVE  /\ Listed(m, order) \in Seq(ObjectsOf(m)) /\ IsInjective(Listed(m, order))
           /\ ToSet(Listed(m, order)) = ObjectsOf(m)
           /\ Len(Listed(m, order)) = Cardinality(DOMAIN m)
  <1> DEFINE list == Listed(m, order)
  <1>1. /\ order \in Seq(DOMAIN m) /\ IsInjective(order) /\ ToSet(order) = DOMAIN m
        /\ Len(order) = Cardinality(DOMAIN m)
    BY Permutation DEF IsMerge
  <1>2. /\ Len(order) \in Nat /\ DOMAIN order = 1 .. Len(order)
        /\ \A i \in DOMAIN order : order[i] \in DOMAIN m
    BY <1>1
  <1>3. DOMAIN list = DOMAIN order /\ \A i \in DOMAIN order : list[i] = m[order[i]]
    BY DEF Listed
  <1>4. list = [i \in 1 .. Len(order) |-> m[order[i]]]
    BY <1>2 DEF Listed
  <1> HIDE DEF list
  <1>5. list \in Seq(ObjectsOf(m)) /\ Len(list) = Len(order)
    <2>1. list \in [1 .. Len(order) -> ObjectsOf(m)]
      BY <1>2, <1>4 DEF ObjectsOf
    <2> QED
      BY <1>2, <2>1, SeqDef
  <1>6. ASSUME NEW i \in DOMAIN list, NEW j \in DOMAIN list, list[i] = list[j]
        PROVE  i = j
    <2>1. m[order[i]].id = order[i] /\ m[order[j]].id = order[j]
      BY <1>2, <1>3, <1>6 DEF IsMerge
    <2>2. order[i] = order[j]
      BY <1>3, <1>6, <2>1
    <2> QED
      BY <1>1, <1>3, <2>2 DEF IsInjective
  <1>7. ASSUME NEW c \in ObjectsOf(m) PROVE c \in ToSet(list)
    <2>1. PICK id \in DOMAIN m : c = m[id]
      BY DEF ObjectsOf
    <2>2. PICK i \in DOMAIN order : order[i] = id
      BY <1>1 DEF ToSet
    <2> QED
      BY <1>3, <2>1, <2>2 DEF ToSet
  <1>8. ToSet(list) \subseteq ObjectsOf(m)
    BY <1>2, <1>3 DEF ToSet, ObjectsOf
  <1> QED
    BY <1>1, <1>5, <1>6, <1>7, <1>8 DEF IsInjective, list

\* Objects are told apart by their ids, and compared by numbers.
LEMMA ObjectFields ==
    ASSUME NEW m, IsMerge(m)
    PROVE  /\ \A x \in ObjectsOf(m) : /\ Score(x) \in Int /\ x.id[1] \in Int /\ x.id[2] \in Int
                                      /\ x.time \in Int \cup {Unknown}
           /\ \A x, y \in ObjectsOf(m) : x.id[1] = y.id[1] /\ x.id[2] = y.id[2] => x = y
           /\ Comparable(m) => \/ \A x \in ObjectsOf(m) : x.time = Unknown
                               \/ \A x \in ObjectsOf(m) : x.time # Unknown
  <1>1. \A x \in ObjectsOf(m) : IsObject(x) /\ x.id \in DOMAIN m /\ x = m[x.id]
    BY DEF ObjectsOf, IsMerge
  <1>2. \A x \in ObjectsOf(m) : Score(x) \in Int
    BY <1>1, ScoreType DEF IsObject, IsMerge
  <1>3. \A x \in ObjectsOf(m) : /\ x.id[1] \in Int /\ x.id[2] \in Int
                                /\ x.id = <<x.id[1], x.id[2]>>
                                /\ x.time \in Int \cup {Unknown}
    BY <1>1 DEF IsObject, Sighted
  <1>4. \A x, y \in ObjectsOf(m) : x.id[1] = y.id[1] /\ x.id[2] = y.id[2] => x = y
    <2> SUFFICES ASSUME NEW x \in ObjectsOf(m), NEW y \in ObjectsOf(m),
                        x.id[1] = y.id[1], x.id[2] = y.id[2]
                 PROVE  x = y
      OBVIOUS
    <2>1. x.id = <<x.id[1], x.id[2]>> /\ y.id = <<y.id[1], y.id[2]>>
      BY <1>3
    <2>2. x.id = y.id
      BY <2>1
    <2>3. x = m[x.id] /\ y = m[y.id]
      BY <1>1
    <2> QED
      BY <2>2, <2>3
  <1>5. Comparable(m) => \/ \A x \in ObjectsOf(m) : x.time = Unknown
                         \/ \A x \in ObjectsOf(m) : x.time # Unknown
    BY DEF Comparable, ObjectsOf
  <1> QED
    BY <1>2, <1>3, <1>4, <1>5

\* The order of the ranking refines the order of the scores.
LEMMA RankFollowsScore ==
    ASSUME NEW m, IsMerge(m)
    PROVE  LET O == ObjectsOf(m) IN Follows(ByRank(O), ByScore(O), O) /\ WeakOrder(ByScore(O), O)
  <1> DEFINE O == ObjectsOf(m)
  <1>1. \A x \in O : Score(x) \in Int
    BY ObjectFields
  <1> HIDE DEF O
  <1>2. \A x, y \in O : <<x, y>> \in ByScore(O) <=> Score(x) > Score(y)
    BY DEF ByScore
  <1>3. \A x, y \in O : <<x, y>> \in ByRank(O) <=> Less(x, y)
    BY DEF ByRank
  <1>4. ASSUME NEW x \in O, NEW y \in O
        PROVE  /\ Score(x) > Score(y) => Less(x, y)
               /\ Less(x, y) => ~(Score(y) > Score(x))
    BY <1>1 DEF Less
  <1>5. Follows(ByRank(O), ByScore(O), O)
    BY <1>2, <1>3, <1>4 DEF Follows
  <1>6. WeakOrder(ByScore(O), O)
    BY <1>1, <1>2 DEF WeakOrder
  <1> QED
    BY <1>5, <1>6 DEF O

\* It is a total order when the times can be compared.
LEMMA RankTotal ==
    ASSUME NEW m, IsMerge(m), Comparable(m)
    PROVE  LET O == ObjectsOf(m)
           IN /\ Follows(ByRank(O), ByRank(O), O) /\ WeakOrder(ByRank(O), O)
              /\ \A x, y \in O : x # y => <<x, y>> \in ByRank(O) \/ <<y, x>> \in ByRank(O)
  <1> DEFINE O == ObjectsOf(m)
  <1>1. \A x \in O : /\ Score(x) \in Int /\ x.id[1] \in Int /\ x.id[2] \in Int
                     /\ x.time \in Int \cup {Unknown}
    BY ObjectFields
  <1>2. \A x, y \in O : x.id[1] = y.id[1] /\ x.id[2] = y.id[2] => x = y
    BY ObjectFields
  <1>3. \/ \A x \in O : x.time = Unknown
        \/ \A x \in O : x.time # Unknown /\ x.time \in Int
    BY <1>1, ObjectFields
  <1> HIDE DEF O
  <1>4. \A x, y \in O : <<x, y>> \in ByRank(O) <=> Less(x, y)
    BY DEF ByRank
  <1>5. ASSUME NEW x \in O, NEW y \in O
        PROVE  /\ ~(Less(x, y) /\ Less(y, x))
               /\ x # y => Less(x, y) \/ Less(y, x)
    <2>1. CASE \A z \in O : z.time = Unknown
      BY <1>1, <1>2, <2>1 DEF Less, Before
    <2>2. CASE \A z \in O : z.time # Unknown /\ z.time \in Int
      BY <1>1, <1>2, <2>2 DEF Less, Before
    <2> QED
      BY <1>3, <2>1, <2>2
  <1>6. ASSUME NEW x \in O, NEW y \in O, NEW z \in O, ~Less(y, x), ~Less(z, y)
        PROVE  ~Less(z, x)
    <2>1. CASE \A c \in O : c.time = Unknown
      BY <1>1, <1>6, <2>1 DEF Less, Before
    <2>2. CASE \A c \in O : c.time # Unknown /\ c.time \in Int
      BY <1>1, <1>6, <2>2 DEF Less, Before
    <2> QED
      BY <1>3, <2>1, <2>2
  <1>7. Follows(ByRank(O), ByRank(O), O)
    BY <1>4, <1>5 DEF Follows
  <1>8. WeakOrder(ByRank(O), O)
    BY <1>4, <1>6 DEF WeakOrder
  <1>9. \A x, y \in O : x # y => <<x, y>> \in ByRank(O) \/ <<y, x>> \in ByRank(O)
    BY <1>4, <1>5
  <1> QED
    BY <1>7, <1>8, <1>9 DEF O

\* What a ranking of the merged objects is.
IsRanking(r, m) ==
    /\ r \in Seq(ObjectsOf(m)) /\ IsInjective(r) /\ ToSet(r) = ObjectsOf(m)
    /\ Len(r) = Cardinality(DOMAIN m)
    /\ Ordered(r, ByScore(ObjectsOf(m)))
    /\ Comparable(m) => Ordered(r, ByRank(ObjectsOf(m)))

\* Sorting the objects in any order of the map ranks them.
LEMMA SortRanks ==
    ASSUME NEW m, IsMerge(m), NEW order \in SetToSeqs(DOMAIN m)
    PROVE  IsRanking(SliceStable(Listed(m, order), ByRank(ObjectsOf(m))), m)
  <1> DEFINE O == ObjectsOf(m)
             list == Listed(m, order)
             r == SliceStable(list, ByRank(O))
  <1>1. /\ list \in Seq(O) /\ IsInjective(list) /\ ToSet(list) = O
        /\ Len(list) = Cardinality(DOMAIN m)
    BY ListedObjects
  <1>2. Follows(ByRank(O), ByScore(O), O) /\ WeakOrder(ByScore(O), O)
    BY RankFollowsScore
  <1>3. Comparable(m) => Follows(ByRank(O), ByRank(O), O) /\ WeakOrder(ByRank(O), O)
    BY RankTotal
  <1> HIDE DEF O, list
  <1>4. r \in Seq(O) /\ ToSet(r) = O /\ IsInjective(r) /\ Len(r) = Cardinality(DOMAIN m)
    BY <1>1, SortSound
  <1>5. Ordered(r, ByScore(O))
    BY <1>1, <1>2, SortOrdered
  <1>6. Comparable(m) => Ordered(r, ByRank(O))
    BY <1>1, <1>3, SortOrdered
  <1> HIDE DEF r
  <1> QED
    BY <1>4, <1>5, <1>6 DEF IsRanking, r, list, O

\* There is one ranking when the times can be compared.
LEMMA OneRanking ==
    ASSUME NEW m, IsMerge(m), Comparable(m), NEW r, NEW t, IsRanking(r, m), IsRanking(t, m)
    PROVE  r = t
  <1> DEFINE O == ObjectsOf(m)
  <1>1. \A x, y \in O : x # y => <<x, y>> \in ByRank(O) \/ <<y, x>> \in ByRank(O)
    BY RankTotal
  <1>2. /\ r \in Seq(O) /\ t \in Seq(O) /\ IsInjective(r) /\ IsInjective(t)
        /\ ToSet(r) = ToSet(t) /\ Len(r) = Len(t)
        /\ Ordered(r, ByRank(O)) /\ Ordered(t, ByRank(O))
    BY DEF IsRanking
  <1> HIDE DEF O
  <1> QED
    BY <1>1, <1>2, OrderUnique

\* The objects are listed in an order of the map, and then ranked.
RankInv ==
    /\ MergeInv
    /\ stage = "rank" => \E order \in SetToSeqs(DOMAIN merged) : items = Listed(merged, order)
    /\ stage \in {"select", "done"} => IsRanking(items, merged)

\* At first nothing is ranked.
LEMMA RankInvInit == FuseInit => RankInv
  BY MergeInvInit DEF FuseInit, RankInv

\* A ranking stays one as long as the scores do.
LEMMA RankingStays ==
    ASSUME late' = late, merged' = merged, IsRanking(items', merged)
    PROVE  IsRanking(items, merged)'
  BY DEF IsRanking, Ordered, ByScore, ByRank, Less, Before, Score, Comparable, ObjectsOf

\* The sort ranks, and nothing later changes the items.
LEMMA RankInvStep == RankInv /\ [FuseNext]_fuseVars => RankInv'
  <1> SUFFICES ASSUME RankInv, [FuseNext]_fuseVars PROVE RankInv'
    OBVIOUS
  <1>0. MergeInv /\ MergeInv'
    BY MergeInvStep DEF RankInv
  <1>1. CASE MergeHit
    BY <1>0, <1>1 DEF MergeHit, RankInv
  <1>2. CASE ScoreObjects
    BY <1>0, <1>2 DEF ScoreObjects, RankInv, Listed
  <1>3. CASE Rank
    <2>1. stage = "rank" /\ stage' = "select" /\ merged' = merged /\ late' = late
      BY <1>3 DEF Rank
    <2>2. PICK order \in SetToSeqs(DOMAIN merged) : items = Listed(merged, order)
      BY <2>1 DEF RankInv
    <2>3. IsMerge(merged)
      BY <1>0, <2>1 DEF MergeInv, IsMerge
    <2>4. items' = SliceStable(Listed(merged, order), ByRank(ObjectsOf(merged)))
      BY <1>3, <2>2 DEF Rank, ObjectsOf, Objects
    <2>5. IsRanking(items', merged)
      BY <2>3, <2>4, SortRanks
    <2> QED
      BY <1>0, <2>1, <2>5, RankingStays DEF RankInv
  <1>4. CASE Cut \/ UNCHANGED fuseVars
    <2>1. items' = items /\ merged' = merged /\ late' = late
      BY <1>4 DEF Cut, fuseVars
    <2>2. CASE IsRanking(items, merged)
      <3>1. IsRanking(items, merged)'
        BY <2>1, <2>2, RankingStays
      <3>2. stage' = "rank" => stage = "rank"
        BY <1>4 DEF Cut, fuseVars
      <3> QED
        BY <1>0, <2>1, <3>1, <3>2 DEF RankInv
    <2>3. CASE ~IsRanking(items, merged)
      <3>1. stage \notin {"select", "done"}
        BY <2>3 DEF RankInv
      <3>2. stage' = stage
        BY <1>4, <3>1 DEF Cut, fuseVars
      <3> QED
        BY <1>0, <2>1, <3>1, <3>2 DEF RankInv
    <2> QED
      BY <2>2, <2>3
  <1> QED
    BY <1>1, <1>2, <1>3, <1>4 DEF FuseNext

\* Scores follow what the objects weigh: a thousandth of it is beyond the clock.
LEMMA ScoreFollowsBase ==
    ASSUME NEW m, IsMerge(m), NEW x \in ObjectsOf(m), NEW y \in ObjectsOf(m)
    PROVE  /\ BaseScore(x) \in Int /\ BaseScore(y) \in Int
           /\ Score(x) >= Score(y) => BaseScore(x) >= BaseScore(y)
           /\ BaseScore(x) = BaseScore(y) /\ ~Recent(x) /\ ~Recent(y) => Score(x) = Score(y)
  <1>0. ASSUME NEW o \in ObjectsOf(m) PROVE Sighted(o) /\ late[o.id] \in Delays
    <2>1. PICK id \in DOMAIN m : o = m[id]
      BY DEF ObjectsOf
    <2>2. o.id = id /\ IsObject(o) /\ late \in [DOMAIN m -> Delays]
      BY <2>1, Zenon DEF IsMerge
    <2>3. late[id] \in Delays
      BY <2>2
    <2> QED
      BY <2>2, <2>3, Zenon DEF IsObject
  <1>1. Sighted(x) /\ Sighted(y) /\ late[x.id] \in Delays /\ late[y.id] \in Delays
    BY <1>0
  <1>2. BaseScore(x) \in Int /\ BaseScore(y) \in Int
    BY <1>1, BaseType, Zenon
  <1>3. PICK l \in Delays : Lost(x, l)
    BY <1>1, ScoreType, Zenon
  <1>4. PICK k \in Delays : Lost(y, k)
    BY <1>1, ScoreType, Zenon
  <1> QED
    BY <1>2, <1>3, <1>4 DEF Lost, Delays

\* A ranking is by weight, is what any order of the map leads to, and depends on
\* the clock only where recent objects weigh the same.
LEMMA RankedAsDetermined == RankInv => RankingDetermined
  <1> SUFFICES ASSUME RankInv, stage \in {"select", "done"}
               PROVE  RankingDetermined
    BY DEF RankingDetermined
  <1> DEFINE O == ObjectsOf(merged)
  <1>1. IsMerge(merged) /\ IsRanking(items, merged)
    BY DEF RankInv, MergeInv, IsMerge
  <1>2. ASSUME NEW i \in DOMAIN items, NEW j \in DOMAIN items, i < j
        PROVE  /\ BaseScore(items[i]) >= BaseScore(items[j])
               /\ TimesComparable /\ ClockFree /\ BaseScore(items[i]) = BaseScore(items[j]) =>
                     Before(items[i], items[j])
    <2> DEFINE x == items[i]
               y == items[j]
    <2>1. items \in Seq(O) /\ <<y, x>> \notin ByScore(O) /\ IsInjective(items)
      BY <1>1, <1>2 DEF IsRanking, Ordered
    <2>2. x \in O /\ y \in O /\ x # y
      BY <1>2, <2>1 DEF IsInjective
    <2> HIDE DEF x, y
    <2>3. Score(x) \in Int /\ Score(y) \in Int
      BY <1>1, <2>2, ObjectFields
    <2>4. Score(x) >= Score(y)
      <3> HIDE DEF O
      <3> QED
        BY <2>1, <2>2, <2>3 DEF ByScore
    <2>5. BaseScore(x) >= BaseScore(y)
      BY <1>1, <2>2, <2>4, ScoreFollowsBase
    <2>6. ASSUME TimesComparable, ClockFree, BaseScore(x) = BaseScore(y)
          PROVE  Before(x, y)
      <3>1. Comparable(merged)
        BY <2>6 DEF TimesComparable, Comparable
      <3>2. Ordered(items, ByRank(O)) /\ (<<x, y>> \in ByRank(O) \/ <<y, x>> \in ByRank(O))
        BY <1>1, <2>2, <3>1, RankTotal DEF IsRanking
      <3>3. <<x, y>> \in ByRank(O)
        BY <1>2, <3>2 DEF Ordered, x, y
      <3>4. Less(x, y)
        BY <3>3 DEF ByRank
      <3>5. ~Recent(x) /\ ~Recent(y)
        BY <2>2, <2>6 DEF ClockFree, Objects, ObjectsOf
      <3>6. Score(x) = Score(y)
        BY <1>1, <2>2, <2>6, <3>5, ScoreFollowsBase
      <3> QED
        BY <3>4, <3>6 DEF Less
    <2> QED
      BY <2>5, <2>6 DEF x, y
  <1>3. ASSUME TimesComparable, NEW order \in SetToSeqs(DOMAIN merged)
        PROVE  SliceStable([i \in DOMAIN order |-> merged[order[i]]], ByRank(Objects)) = items
    <2>1. Comparable(merged)
      BY <1>3 DEF TimesComparable, Comparable
    <2>2. IsRanking(SliceStable(Listed(merged, order), ByRank(ObjectsOf(merged))), merged)
      BY <1>1, SortRanks
    <2>3. SliceStable(Listed(merged, order), ByRank(ObjectsOf(merged))) = items
      BY <1>1, <2>1, <2>2, OneRanking
    <2> QED
      BY <2>3 DEF Listed, Objects, ObjectsOf
  <1> QED
    BY <1>2, <1>3 DEF RankingDetermined

\* The clock and the order in which Go ranges over the map only decide between
\* objects that weigh the same: given the scores, the map order decides nothing
\* when the times of the objects can be compared, and when no recent objects weigh
\* the same, time and canonical id alone decide between equals.
THEOREM RankingAlwaysDetermined == FuseSpec => []RankingDetermined
  <1>1. FuseSpec => []RankInv
    BY RankInvInit, RankInvStep, PTL DEF FuseSpec
  <1> QED
    BY <1>1, RankedAsDetermined, PTL

----------------------------------------------------------------------------
(* The cut. *)

\* The objects of a source.
From(set, s) == {c \in set : c.source = s}

\* In a sequence without repetition places count objects.
LEMMA SourceCount ==
    ASSUME NEW S, NEW seq \in Seq(S), IsInjective(seq), NEW s
    PROVE  /\ Cardinality({i \in DOMAIN seq : seq[i].source = s})
                = Cardinality(From(ToSet(seq), s))
           /\ IsFiniteSet(From(ToSet(seq), s)) /\ Cardinality(From(ToSet(seq), s)) \in Nat
  <1> DEFINE I == {i \in DOMAIN seq : seq[i].source = s}
             F == From(ToSet(seq), s)
             f == [i \in I |-> seq[i]]
  <1>1. Len(seq) \in Nat /\ DOMAIN seq = 1 .. Len(seq)
    OBVIOUS
  <1>2. IsFiniteSet(I)
    <2>1. IsFiniteSet(1 .. Len(seq))
      BY <1>1, FS_Interval
    <2> QED
      BY <1>1, <2>1, FS_Subset
  <1>3. f \in [I -> F]
    BY DEF From, ToSet
  <1>4. \A c \in F : \E i \in I : c = f[i]
    BY DEF From, ToSet
  <1>5. \A i, j \in I : f[i] = f[j] => i = j
    BY DEF IsInjective
  <1>6. DOMAIN f = I
    OBVIOUS
  <1> HIDE DEF I, F, f
  <1>7. f \in Injection(I, F) /\ f \in Surjection(I, F)
    BY <1>3, <1>4, <1>5, <1>6 DEF Injection, Surjection, IsInjective
  <1>8. IsFiniteSet(F) /\ Cardinality(F) = Cardinality(I)
    BY <1>2, <1>7, FS_Surjection
  <1> QED
    BY <1>8, FS_CardinalityType DEF I, F

\* Appending an object.
LEMMA Appended ==
    ASSUME NEW S, NEW seq \in Seq(S), NEW x \in S
    PROVE  /\ Append(seq, x) \in Seq(S) /\ Len(Append(seq, x)) = Len(seq) + 1
           /\ Append(seq, x)[Len(seq) + 1] = x
           /\ \A i \in 1 .. Len(seq) : Append(seq, x)[i] = seq[i]
           /\ ToSet(Append(seq, x)) = ToSet(seq) \cup {x}
           /\ IsInjective(seq) /\ x \notin ToSet(seq) => IsInjective(Append(seq, x))
  <1> DEFINE r == Append(seq, x)
             n == Len(seq)
  <1>1. /\ r \in Seq(S) /\ Len(r) = n + 1 /\ r[n + 1] = x /\ n \in Nat
        /\ \A i \in 1 .. n : r[i] = seq[i]
        /\ DOMAIN r = 1 .. n + 1 /\ DOMAIN seq = 1 .. n
    OBVIOUS
  <1> HIDE DEF r, n
  <1>2. 1 .. n + 1 = (1 .. n) \cup {n + 1}
    BY <1>1
  <1>3. ToSet(r) = ToSet(seq) \cup {x}
    BY <1>1, <1>2 DEF ToSet
  <1>4. ASSUME IsInjective(seq), x \notin ToSet(seq) PROVE IsInjective(r)
    BY <1>1, <1>2, <1>4 DEF IsInjective, ToSet
  <1> QED
    BY <1>1, <1>3, <1>4 DEF r, n

\* The state in which the items are ranked.
Ranked == MergeInv /\ stage # "merge" /\ IsRanking(items, merged)

\* What the cut knows of the items.
LEMMA RankedItems ==
    ASSUME Ranked
    PROVE  /\ items \in Seq(Objects) /\ Len(items) \in Nat /\ DOMAIN items = 1 .. Len(items)
           /\ \A i, j \in DOMAIN items : items[i] = items[j] => i = j
           /\ \A x \in Objects : Score(x) \in Int /\ x.source \in Source
           /\ \A i, j \in DOMAIN items : i < j => Score(items[i]) >= Score(items[j])
           /\ Limit \in 0 .. Len(items) /\ \A s \in Source : Quota(s) \in Nat
  <1>1. IsMerge(merged) /\ IsRanking(items, merged)
    BY DEF Ranked, MergeInv, IsMerge
  <1>2. /\ items \in Seq(Objects) /\ IsInjective(items) /\ Len(items) \in Nat
        /\ DOMAIN items = 1 .. Len(items) /\ \A i \in DOMAIN items : items[i] \in Objects
    BY <1>1 DEF IsRanking, Objects, ObjectsOf
  <1>3. \A x \in Objects : Score(x) \in Int
    BY <1>1, ObjectFields DEF Objects, ObjectsOf
  <1>4. \A x \in Objects : x.source \in Source
    BY <1>1 DEF Objects, IsMerge, IsObject
  <1>5. Ordered(items, ByScore(Objects))
    BY <1>1 DEF IsRanking, Objects, ObjectsOf
  <1>6. \A x, y \in Objects : <<y, x>> \notin ByScore(Objects) => Score(x) >= Score(y)
    BY <1>3 DEF ByScore
  <1>7. \A i, j \in DOMAIN items : i < j => Score(items[i]) >= Score(items[j])
    BY <1>2, <1>5, <1>6 DEF Ordered
  <1>8. limit \in Int
    BY FusionAssumption DEF Ranked, MergeInv
  <1>9. Limit \in 0 .. Len(items)
    BY <1>2, <1>8 DEF Limit
  <1>10. \A s \in Source : Quota(s) \in Nat
    BY <1>2, <1>9, FusionAssumption DEF Quota
  <1> QED
    BY <1>2, <1>3, <1>4, <1>7, <1>9, <1>10 DEF IsInjective

\* The first pass goes through the items one at a time.
LEMMA PassUpTo ==
    ASSUME Len(items) \in Nat
    PROVE  \E upTo :
              /\ upTo[0] = [taken |-> <<>>, deferred |-> <<>>]
              /\ \A i \in 1 .. Len(items) : upTo[i] = Take(upTo[i - 1], items[i])
              /\ FirstPass = upTo[Len(items)]
  <1> DEFINE start == [taken |-> <<>>, deferred |-> <<>>]
             Body(u, n) == [i \in 0 .. n |->
                    IF i = 0 THEN start ELSE Take(u[i - 1], items[i])]
             T == {n \in Nat : \E u : u = Body(u, n)}
  <1>1. 0 \in T
    <2> DEFINE u == [i \in 0 .. 0 |-> start]
    <2>1. u = Body(u, 0)
      OBVIOUS
    <2> QED
      BY <2>1
  <1>2. ASSUME NEW n \in T PROVE n + 1 \in T
    <2>1. PICK u : u = Body(u, n)
      OBVIOUS
    <2> DEFINE last == Take(u[n], items[n + 1])
               v == [i \in 0 .. n + 1 |-> IF i = n + 1 THEN last ELSE u[i]]
    <2>2. v[n + 1] = last /\ \A i \in 0 .. n : v[i] = u[i]
      OBVIOUS
    <2> HIDE DEF last
    <2>3. ASSUME NEW i \in 0 .. n + 1
          PROVE  v[i] = IF i = 0 THEN start ELSE Take(v[i - 1], items[i])
      <3>1. CASE i = n + 1
        <4>1. v[i - 1] = u[n] /\ i - 1 = n /\ i # 0
          BY <2>2, <3>1
        <4> QED
          BY <2>2, <3>1, <4>1 DEF last
      <3>2. CASE i \in 0 .. n
        <4>1. v[i] = u[i] /\ (i # 0 => v[i - 1] = u[i - 1])
          BY <2>2, <3>2
        <4>2. u[i] = IF i = 0 THEN start ELSE Take(u[i - 1], items[i])
          BY <2>1, <3>2
        <4> QED
          BY <4>1, <4>2
      <3> QED
        BY <3>1, <3>2
    <2>4. v = Body(v, n + 1)
      BY <2>3
    <2>5. \E x : x = Body(x, n + 1)
      <3> HIDE DEF v
      <3> WITNESS v
      <3> QED
        BY <2>4
    <2> HIDE DEF Body
    <2> QED
      BY <2>5
  <1>3. Len(items) \in T
    <2> HIDE DEF T
    <2>1. T = Nat
      <3>1. T \subseteq Nat
        BY DEF T
      <3> QED
        BY <1>1, <1>2, <3>1, Induction
    <2> QED
      BY <2>1
  <1>4. PICK u : u = Body(u, Len(items))
    BY <1>3
  <1> DEFINE c == CHOOSE x : x = Body(x, Len(items))
  <1>5. c = Body(c, Len(items))
    BY <1>4
  <1>6. FirstPass = c[Len(items)]
    BY DEF FirstPass
  <1> HIDE DEF c
  <1>7. c[0] = start
    BY <1>5
  <1>8. \A i \in 1 .. Len(items) : c[i] = Take(c[i - 1], items[i])
    BY <1>5
  <1> QED
    BY <1>6, <1>7, <1>8

\* Why an object was not taken: the quota of its source was used up, or the
\* limit was, by objects as good.
PassedOver(x, taken) ==
    \/ Cardinality(From(ToSet(taken), x.source)) >= Quota(x.source)
    \/ Len(taken) = Limit /\ \A y \in ToSet(taken) : Score(y) >= Score(x)

\* After k items each of them is taken or deferred, in the order of the items,
\* no source beyond its quota.
PassInv(pass, k) ==
    /\ pass.taken \in Seq(Objects) /\ pass.deferred \in Seq(Objects)
    /\ Len(pass.taken) + Len(pass.deferred) = k /\ Len(pass.taken) <= Limit
    /\ IsInjective(pass.taken) /\ IsInjective(pass.deferred)
    /\ ToSet(pass.taken) \cup ToSet(pass.deferred) = {items[i] : i \in 1 .. k}
    /\ ToSet(pass.taken) \cap ToSet(pass.deferred) = {}
    /\ \A i, j \in DOMAIN pass.deferred :
          i < j => Score(pass.deferred[i]) >= Score(pass.deferred[j])
    /\ \A s \in Source : Cardinality(From(ToSet(pass.taken), s)) <= Quota(s)
    /\ \A x \in ToSet(pass.deferred) : PassedOver(x, pass.taken)

\* One more item is taken or deferred.
LEMMA PassStep ==
    ASSUME Ranked, NEW k \in Nat, k < Len(items), NEW pass, PassInv(pass, k)
    PROVE  PassInv(Take(pass, items[k + 1]), k + 1)
  <1> DEFINE c == items[k + 1]
             seen == {items[i] : i \in 1 .. k}
             T == pass.taken
             D == pass.deferred
             next2 == Take(pass, c)
             open == Cardinality(From(ToSet(T), c.source)) < Quota(c.source) /\ Len(T) < Limit
  <1>1. /\ items \in Seq(Objects) /\ Len(items) \in Nat /\ DOMAIN items = 1 .. Len(items)
        /\ \A i, j \in DOMAIN items : items[i] = items[j] => i = j
        /\ \A x \in Objects : Score(x) \in Int /\ x.source \in Source
        /\ \A i, j \in DOMAIN items : i < j => Score(items[i]) >= Score(items[j])
        /\ Limit \in 0 .. Len(items) /\ \A s \in Source : Quota(s) \in Nat
    BY RankedItems
  <1>2. c \in Objects /\ k + 1 \in DOMAIN items /\ \A i \in 1 .. k : i \in DOMAIN items /\ i < k + 1
    BY <1>1
  <1>3. c \notin seen /\ \A y \in seen : Score(y) >= Score(c)
    <2>1. ASSUME NEW i \in 1 .. k
          PROVE  items[i] # items[k + 1] /\ Score(items[i]) >= Score(items[k + 1])
      <3>1. i \in DOMAIN items /\ k + 1 \in DOMAIN items /\ i < k + 1 /\ i # k + 1
        BY <1>1
      <3> QED
        BY <1>1, <3>1
    <2> QED
      BY <2>1
  <1>4. {items[i] : i \in 1 .. k + 1} = seen \cup {c}
    <2>1. 1 .. k + 1 = (1 .. k) \cup {k + 1}
      OBVIOUS
    <2> QED
      BY <2>1
  <1> HIDE DEF c, seen
  <1>5. /\ T \in Seq(Objects) /\ D \in Seq(Objects)
        /\ Len(T) + Len(D) = k /\ Len(T) <= Limit
        /\ IsInjective(T) /\ IsInjective(D)
        /\ ToSet(T) \cup ToSet(D) = seen
        /\ ToSet(T) \cap ToSet(D) = {}
        /\ \A i, j \in DOMAIN D : i < j => Score(D[i]) >= Score(D[j])
        /\ \A s \in Source : Cardinality(From(ToSet(T), s)) <= Quota(s)
        /\ \A x \in ToSet(D) : PassedOver(x, T)
    BY DEF PassInv, seen
  <1>6. next2 = IF open THEN [taken |-> Append(T, c), deferred |-> D]
                ELSE [taken |-> T, deferred |-> Append(D, c)]
    <2>1. Cardinality({i \in DOMAIN T : T[i].source = c.source})
             = Cardinality(From(ToSet(T), c.source))
      BY <1>5, SourceCount
    <2> HIDE DEF T, D
    <2> QED
      BY <2>1 DEF Take, T, D
  <1>7. /\ Len(T) \in Nat /\ Len(D) \in Nat /\ DOMAIN D = 1 .. Len(D)
        /\ \A i \in DOMAIN D : D[i] \in ToSet(D)
        /\ ToSet(D) \subseteq Objects
    BY <1>5 DEF ToSet
  <1>8. ASSUME NEW s
        PROVE  IsFiniteSet(From(ToSet(T), s)) /\ Cardinality(From(ToSet(T), s)) \in Nat
    BY <1>5, SourceCount
  <1> HIDE DEF T, D, next2, open
  <1>9. CASE open
    <2> DEFINE N == Append(T, c)
    <2>1. /\ N \in Seq(Objects) /\ Len(N) = Len(T) + 1 /\ ToSet(N) = ToSet(T) \cup {c}
          /\ IsInjective(N)
      BY <1>2, <1>3, <1>5, Appended
    <2>2. next2.taken = N /\ next2.deferred = D
      BY <1>6, <1>9
    <2>3. Len(T) < Limit /\ Cardinality(From(ToSet(T), c.source)) < Quota(c.source)
      BY <1>9 DEF open
    <2> HIDE DEF N
    <2>4. ASSUME NEW s
          PROVE  Cardinality(From(ToSet(N), s)) = IF s = c.source
                     THEN Cardinality(From(ToSet(T), s)) + 1 ELSE Cardinality(From(ToSet(T), s))
      <3>1. CASE s = c.source
        <4>1. From(ToSet(N), s) = From(ToSet(T), s) \cup {c} /\ c \notin From(ToSet(T), s)
          BY <1>3, <1>5, <2>1, <3>1 DEF From
        <4>2. IsFiniteSet(From(ToSet(T), s))
          BY <1>8
        <4>3. Cardinality(From(ToSet(T), s) \cup {c}) = Cardinality(From(ToSet(T), s)) + 1
          BY <4>1, <4>2, FS_AddElement
        <4> QED
          BY <3>1, <4>1, <4>3
      <3>2. CASE s # c.source
        <4>1. From(ToSet(N), s) = From(ToSet(T), s)
          BY <2>1, <3>2 DEF From
        <4> QED
          BY <3>2, <4>1
      <3> QED
        BY <3>1, <3>2
    <2>5. ASSUME NEW s \in Source PROVE Cardinality(From(ToSet(N), s)) <= Quota(s)
      <3>1. /\ Cardinality(From(ToSet(T), s)) \in Nat /\ Quota(s) \in Nat
            /\ Cardinality(From(ToSet(T), s)) <= Quota(s)
        BY <1>1, <1>5, <1>8
      <3> QED
        BY <2>3, <2>4, <3>1
    <2>6. ASSUME NEW x \in ToSet(D) PROVE PassedOver(x, N)
      <3>1. /\ Cardinality(From(ToSet(T), x.source)) \in Nat /\ Quota(x.source) \in Nat
            /\ Cardinality(From(ToSet(N), x.source)) >= Cardinality(From(ToSet(T), x.source))
        <4>1. x.source \in Source
          BY <1>1, <1>7
        <4>2. Quota(x.source) \in Nat /\ Cardinality(From(ToSet(T), x.source)) \in Nat
          BY <1>1, <1>8, <4>1
        <4> QED
          BY <2>4, <4>2
      <3>2. Cardinality(From(ToSet(T), x.source)) >= Quota(x.source)
        BY <1>1, <1>5, <1>7, <2>3 DEF PassedOver
      <3>3. Cardinality(From(ToSet(N), x.source)) \in Nat
        BY <2>4, <3>1
      <3> QED
        BY <3>1, <3>2, <3>3 DEF PassedOver
    <2>7. ToSet(N) \cup ToSet(D) = seen \cup {c} /\ ToSet(N) \cap ToSet(D) = {}
      BY <1>3, <1>5, <2>1
    <2>8. Len(N) + Len(D) = k + 1 /\ Len(N) <= Limit
      BY <1>1, <1>5, <1>7, <2>1, <2>3
    <2> QED
      BY <1>4, <1>5, <2>1, <2>2, <2>5, <2>6, <2>7, <2>8 DEF PassInv, next2, c
  <1>10. CASE ~open
    <2> DEFINE N == Append(D, c)
    <2>1. /\ N \in Seq(Objects) /\ Len(N) = Len(D) + 1 /\ ToSet(N) = ToSet(D) \cup {c}
          /\ IsInjective(N) /\ N[Len(D) + 1] = c /\ \A i \in 1 .. Len(D) : N[i] = D[i]
      BY <1>2, <1>3, <1>5, Appended
    <2>2. next2.taken = T /\ next2.deferred = N
      BY <1>6, <1>10
    <2>3. PassedOver(c, T)
      <3>1. Quota(c.source) \in Nat /\ Cardinality(From(ToSet(T), c.source)) \in Nat
        BY <1>1, <1>2, <1>8
      <3>2. \/ Cardinality(From(ToSet(T), c.source)) >= Quota(c.source)
            \/ Len(T) = Limit
        BY <1>1, <1>5, <1>7, <1>10, <3>1 DEF open
      <3>3. \A y \in ToSet(T) : Score(y) >= Score(c)
        BY <1>3, <1>5
      <3> QED
        BY <3>2, <3>3 DEF PassedOver
    <2> HIDE DEF N
    <2>4. ASSUME NEW i \in DOMAIN N, NEW j \in DOMAIN N, i < j
          PROVE  Score(N[i]) >= Score(N[j])
      <3>1. i \in 1 .. Len(D) /\ N[i] = D[i] /\ j \in 1 .. Len(D) + 1
        BY <1>7, <2>1, <2>4
      <3>2. CASE j \in 1 .. Len(D)
        BY <1>5, <1>7, <2>1, <2>4, <3>1, <3>2
      <3>3. CASE j = Len(D) + 1
        <4>1. D[i] \in seen
          BY <1>5, <1>7, <3>1
        <4> QED
          BY <1>3, <2>1, <3>1, <3>3, <4>1
      <3> QED
        BY <1>7, <3>1, <3>2, <3>3
    <2>5. \A x \in ToSet(N) : PassedOver(x, T)
      BY <1>5, <2>1, <2>3
    <2>6. ToSet(T) \cup ToSet(N) = seen \cup {c} /\ ToSet(T) \cap ToSet(N) = {}
      BY <1>3, <1>5, <2>1
    <2>7. Len(T) + Len(N) = k + 1
      BY <1>5, <1>7, <2>1
    <2> QED
      BY <1>4, <1>5, <2>1, <2>2, <2>4, <2>5, <2>6, <2>7 DEF PassInv, next2, c
  <1> QED
    BY <1>9, <1>10

\* The first pass settles every item.
LEMMA FirstPassSound == ASSUME Ranked PROVE PassInv(FirstPass, Len(items))
  <1>1. Len(items) \in Nat /\ Limit \in Nat /\ \A s \in Source : Quota(s) \in Nat
    BY RankedItems
  <1>2. PICK upTo :
           /\ upTo[0] = [taken |-> <<>>, deferred |-> <<>>]
           /\ \A i \in 1 .. Len(items) : upTo[i] = Take(upTo[i - 1], items[i])
           /\ FirstPass = upTo[Len(items)]
    BY <1>1, PassUpTo
  <1> DEFINE T == {k \in Nat : k <= Len(items) => PassInv(upTo[k], k)}
  <1>3. 0 \in T
    <2> DEFINE pass == upTo[0]
    <2>1. /\ pass.taken = <<>> /\ pass.deferred = <<>>
          /\ ToSet(pass.taken) = {} /\ ToSet(pass.deferred) = {}
      BY <1>2 DEF ToSet
    <2>2. {items[i] : i \in 1 .. 0} = {}
      OBVIOUS
    <2>3. \A s : Cardinality(From(ToSet(pass.taken), s)) = 0
      BY <2>1, FS_EmptySet DEF From
    <2> HIDE DEF pass
    <2>4. PassInv(pass, 0)
      BY <1>1, <2>1, <2>2, <2>3 DEF PassInv, IsInjective
    <2> QED
      BY <2>4 DEF pass
  <1>4. ASSUME NEW k \in T PROVE k + 1 \in T
    <2> SUFFICES ASSUME k + 1 <= Len(items) PROVE PassInv(upTo[k + 1], k + 1)
      OBVIOUS
    <2>1. k \in Nat /\ k < Len(items) /\ PassInv(upTo[k], k)
      BY <1>1
    <2>2. upTo[k + 1] = Take(upTo[k], items[k + 1])
      BY <1>1, <1>2, <2>1
    <2> QED
      BY <2>1, <2>2, PassStep
  <1>5. T \subseteq Nat
    OBVIOUS
  <1> HIDE DEF T
  <1>6. T = Nat
    BY <1>3, <1>4, <1>5, Induction
  <1>7. Len(items) \in T
    BY <1>1, <1>6
  <1> QED
    BY <1>1, <1>2, <1>7 DEF T

\* A beginning of a sequence.
LEMMA Beginning ==
    ASSUME NEW S, NEW seq \in Seq(S), NEW n \in 0 .. Len(seq)
    PROVE  LET r == SubSeq(seq, 1, n)
           IN /\ r \in Seq(S) /\ Len(r) = n /\ DOMAIN r = 1 .. n
              /\ \A i \in 1 .. n : r[i] = seq[i] /\ i \in DOMAIN seq
              /\ IsInjective(seq) => IsInjective(r)
              /\ ToSet(r) = {seq[i] : i \in 1 .. n}
  <1> DEFINE r == SubSeq(seq, 1, n)
  <1>1. /\ Len(seq) \in Nat /\ n \in Nat /\ DOMAIN seq = 1 .. Len(seq)
        /\ \A i \in 1 .. n : i \in DOMAIN seq /\ seq[i] \in S
    OBVIOUS
  <1>2. r \in Seq(S) /\ Len(r) = n /\ \A i \in 1 .. n : r[i] = seq[i]
    BY <1>1, SubSeqProperties
  <1> HIDE DEF r
  <1>3. DOMAIN r = 1 .. n
    BY <1>2
  <1>4. IsInjective(seq) => IsInjective(r)
    BY <1>1, <1>2, <1>3 DEF IsInjective
  <1>5. ToSet(r) = {seq[i] : i \in 1 .. n}
    BY <1>2, <1>3 DEF ToSet
  <1> QED
    BY <1>1, <1>2, <1>3, <1>4, <1>5 DEF r

\* One sequence after another.
LEMMA Concatenated ==
    ASSUME NEW S, NEW s \in Seq(S), NEW t \in Seq(S)
    PROVE  /\ s \o t \in Seq(S) /\ Len(s \o t) = Len(s) + Len(t)
           /\ ToSet(s \o t) = ToSet(s) \cup ToSet(t)
           /\ IsInjective(s) /\ IsInjective(t) /\ ToSet(s) \cap ToSet(t) = {}
                 => IsInjective(s \o t)
  <1> DEFINE r == s \o t
  <1>1. /\ r \in Seq(S) /\ Len(r) = Len(s) + Len(t)
        /\ \A i \in 1 .. Len(s) + Len(t) : r[i] = IF i <= Len(s) THEN s[i] ELSE t[i - Len(s)]
    BY ConcatProperties
  <1>2. /\ Len(s) \in Nat /\ Len(t) \in Nat
        /\ DOMAIN s = 1 .. Len(s) /\ DOMAIN t = 1 .. Len(t)
    OBVIOUS
  <1> HIDE DEF r
  <1>3. DOMAIN r = 1 .. Len(s) + Len(t)
    BY <1>1, <1>2
  <1>4. \A i \in DOMAIN s : i \in DOMAIN r /\ r[i] = s[i]
    BY <1>1, <1>2, <1>3
  <1>5. \A i \in DOMAIN t : i + Len(s) \in DOMAIN r /\ r[i + Len(s)] = t[i]
    BY <1>1, <1>2, <1>3
  <1>6. \A i \in DOMAIN r : \/ i \in DOMAIN s /\ r[i] = s[i]
                            \/ i - Len(s) \in DOMAIN t /\ r[i] = t[i - Len(s)] /\ i \in Nat
    BY <1>1, <1>2, <1>3
  <1>7. ToSet(r) = ToSet(s) \cup ToSet(t)
    <2>1. ToSet(r) \subseteq ToSet(s) \cup ToSet(t)
      BY <1>6 DEF ToSet
    <2>2. ToSet(s) \subseteq ToSet(r) /\ ToSet(t) \subseteq ToSet(r)
      BY <1>4, <1>5 DEF ToSet
    <2> QED
      BY <2>1, <2>2
  <1>8. ASSUME IsInjective(s), IsInjective(t), ToSet(s) \cap ToSet(t) = {}
        PROVE  IsInjective(r)
    <2> SUFFICES ASSUME NEW i \in DOMAIN r, NEW j \in DOMAIN r, r[i] = r[j] PROVE i = j
      BY DEF IsInjective
    <2>1. \A x \in DOMAIN s, y \in DOMAIN t : s[x] # t[y]
      BY <1>8 DEF ToSet
    <2>2. CASE i \in DOMAIN s /\ r[i] = s[i] /\ j \in DOMAIN s /\ r[j] = s[j]
      BY <1>8, <2>2 DEF IsInjective
    <2>3. CASE /\ i - Len(s) \in DOMAIN t /\ r[i] = t[i - Len(s)] /\ i \in Nat
               /\ j - Len(s) \in DOMAIN t /\ r[j] = t[j - Len(s)] /\ j \in Nat
      <3>1. i - Len(s) = j - Len(s)
        BY <1>8, <2>3 DEF IsInjective
      <3> QED
        BY <1>2, <2>3, <3>1
    <2> QED
      BY <1>6, <2>1, <2>2, <2>3
  <1> QED
    BY <1>1, <1>7, <1>8 DEF r

\* A cut without quotas is fair: it keeps the best.
LEMMA PlainCutFair ==
    ASSUME Ranked, ~useQuota, selected = SubSeq(items, 1, Limit)
    PROVE  SelectionFair
  <1>1. /\ items \in Seq(Objects) /\ Len(items) \in Nat /\ DOMAIN items = 1 .. Len(items)
        /\ IsInjective(items) /\ Limit \in 0 .. Len(items)
        /\ \A x \in Objects : Score(x) \in Int
        /\ \A i, j \in DOMAIN items : i < j => Score(items[i]) >= Score(items[j])
    BY RankedItems DEF IsInjective
  <1>2. /\ Len(selected) = Limit /\ DOMAIN selected = 1 .. Limit /\ IsInjective(selected)
        /\ \A i \in 1 .. Limit : selected[i] = items[i] /\ i \in DOMAIN items
    BY <1>1, Beginning
  <1>3. \A i, j \in DOMAIN selected : i < j => Score(selected[i]) >= Score(selected[j])
    BY <1>1, <1>2
  <1>4. ASSUME NEW x \in ToSet(items) \ ToSet(selected), NEW i \in DOMAIN selected
        PROVE  ~(Score(selected[i]) < Score(x))
    <2>1. PICK j \in DOMAIN items : x = items[j]
      BY DEF ToSet
    <2>2. j \notin 1 .. Limit
      BY <1>2, <2>1 DEF ToSet
    <2>3. i \in DOMAIN items /\ i < j /\ selected[i] = items[i]
      BY <1>1, <1>2, <2>2
    <2>4. Score(items[i]) \in Int /\ Score(items[j]) \in Int /\ Score(items[i]) >= Score(items[j])
      BY <1>1, <2>3
    <2>5. PICK a \in Int, b \in Int : a = Score(items[i]) /\ b = Score(items[j]) /\ a >= b
      BY <2>4
    <2>6. ~(a < b)
      BY <2>5
    <2>7. Score(selected[i]) = a
      BY <2>3, <2>5, Zenon
    <2>8. Score(x) = b
      BY <2>1, <2>5, Zenon
    <2> QED
      BY <2>6, <2>7, <2>8, Zenon
  <1> QED
    BY <1>2, <1>3, <1>4 DEF SelectionFair

\* What the two passes choose: as many as the limit, all that were taken, and of
\* the deferred the first.
LEMMA QuotaCut ==
    ASSUME Ranked, selected = Select
    PROVE  LET T == ToSet(FirstPass.taken)
               D == FirstPass.deferred
               more == Limit - Len(FirstPass.taken)
           IN /\ selected \in Seq(Objects) /\ IsInjective(selected) /\ Len(selected) = Limit
              /\ more \in 0 .. Len(D)
              /\ ToSet(selected) = T \cup {D[i] : i \in 1 .. more}
              /\ \A i, j \in DOMAIN selected : i < j => Score(selected[i]) >= Score(selected[j])
  <1> DEFINE first == FirstPass.taken
             D == FirstPass.deferred
             more == Limit - Len(first)
             rest == SubSeq(D, 1, more)
             chosen == first \o rest
             C == ToSet(chosen)
  <1>1. /\ items \in Seq(Objects) /\ Len(items) \in Nat /\ Limit \in 0 .. Len(items)
        /\ \A x \in Objects : Score(x) \in Int
    BY RankedItems
  <1>2. /\ first \in Seq(Objects) /\ D \in Seq(Objects)
        /\ Len(first) + Len(D) = Len(items) /\ Len(first) <= Limit
        /\ IsInjective(first) /\ IsInjective(D) /\ ToSet(first) \cap ToSet(D) = {}
    BY FirstPassSound DEF PassInv
  <1>3. selected = SliceStable(chosen, ByScore(C))
    BY DEF Select
  <1> HIDE DEF first, D
  <1>4. Len(first) \in Nat /\ Len(D) \in Nat /\ more \in 0 .. Len(D)
    BY <1>1, <1>2
  <1> HIDE DEF more
  <1>5. /\ rest \in Seq(Objects) /\ Len(rest) = more /\ IsInjective(rest)
        /\ ToSet(rest) = {D[i] : i \in 1 .. more} /\ \A i \in 1 .. more : i \in DOMAIN D
    BY <1>2, <1>4, Beginning
  <1>6. ToSet(first) \cap ToSet(rest) = {}
    BY <1>2, <1>5 DEF ToSet
  <1> HIDE DEF rest
  <1>7. /\ chosen \in Seq(Objects) /\ Len(chosen) = Len(first) + more
        /\ C = ToSet(first) \cup ToSet(rest) /\ IsInjective(chosen)
    <2>1. /\ IsInjective(first) /\ IsInjective(rest) /\ ToSet(first) \cap ToSet(rest) = {}
          /\ first \in Seq(Objects) /\ rest \in Seq(Objects) /\ Len(rest) = more
      BY <1>2, <1>5, <1>6
    <2> QED
      BY <2>1, Concatenated
  <1>8. chosen \in Seq(C) /\ C \subseteq Objects
    <2> HIDE DEF chosen
    <2>1. /\ Len(chosen) \in Nat /\ DOMAIN chosen = 1 .. Len(chosen)
          /\ \A i \in DOMAIN chosen : chosen[i] \in Objects
          /\ chosen = [i \in 1 .. Len(chosen) |-> chosen[i]]
      BY <1>7
    <2>2. \A i \in DOMAIN chosen : chosen[i] \in C
      BY DEF ToSet
    <2>3. C \subseteq Objects
      BY <2>1 DEF ToSet
    <2> HIDE DEF C
    <2>4. chosen \in [1 .. Len(chosen) -> C]
      BY <2>1, <2>2
    <2> QED
      BY <2>1, <2>3, <2>4, SeqDef
  <1>9. Len(chosen) = Limit
    BY <1>1, <1>4, <1>7 DEF more
  <1> HIDE DEF chosen, C
  <1>10. Follows(ByScore(C), ByScore(C), C) /\ WeakOrder(ByScore(C), C)
    <2>1. \A x \in C : Score(x) \in Int
      BY <1>1, <1>8
    <2>2. \A x, y \in C : <<x, y>> \in ByScore(C) <=> Score(x) > Score(y)
      BY DEF ByScore
    <2>3. Follows(ByScore(C), ByScore(C), C)
      <3>1. \A x, y \in C : Score(x) > Score(y) => ~(Score(y) > Score(x))
        BY <2>1
      <3> QED
        BY <2>2, <3>1 DEF Follows
    <2>4. WeakOrder(ByScore(C), C)
      BY <2>1, <2>2 DEF WeakOrder
    <2> QED
      BY <2>3, <2>4
  <1>11. /\ selected \in Seq(C) /\ Len(selected) = Len(chosen) /\ ToSet(selected) = ToSet(chosen)
         /\ IsInjective(selected)
    BY <1>3, <1>7, <1>8, SortSound
  <1>12. Ordered(selected, ByScore(C))
    BY <1>3, <1>8, <1>10, SortOrdered
  <1>13. ASSUME NEW i \in DOMAIN selected, NEW j \in DOMAIN selected, i < j
         PROVE  Score(selected[i]) >= Score(selected[j])
    <2>1. selected[i] \in C /\ selected[j] \in C
      BY <1>11
    <2>2. Score(selected[i]) \in Int /\ Score(selected[j]) \in Int
      BY <1>1, <1>8, <2>1
    <2>3. <<selected[j], selected[i]>> \notin ByScore(C)
      BY <1>12, <1>13 DEF Ordered
    <2> QED
      BY <2>1, <2>2, <2>3 DEF ByScore
  <1>14. ToSet(selected) = ToSet(first) \cup {D[i] : i \in 1 .. more}
    BY <1>5, <1>7, <1>11 DEF C
  <1>15. selected \in Seq(Objects)
    <2>1. C \subseteq Objects
      BY <1>8
    <2> QED
      BY <1>11, <2>1
  <1> QED
    BY <1>4, <1>9, <1>11, <1>13, <1>14, <1>15 DEF more, first, D

\* A cut by quotas is fair.
LEMMA QuotaCutFair ==
    ASSUME Ranked, useQuota, selected = Select
    PROVE  SelectionFair
  <1> DEFINE first == FirstPass.taken
             T == ToSet(first)
             D == FirstPass.deferred
             more == Limit - Len(first)
             some == {D[i] : i \in 1 .. more}
             S == ToSet(selected)
  <1>1. /\ Len(items) \in Nat /\ DOMAIN items = 1 .. Len(items) /\ Limit \in 0 .. Len(items)
        /\ \A x \in Objects : Score(x) \in Int /\ x.source \in Source
        /\ \A s \in Source : Quota(s) \in Nat
    BY RankedItems
  <1>2. /\ first \in Seq(Objects) /\ D \in Seq(Objects) /\ Len(first) <= Limit
        /\ T \cup ToSet(D) = {items[i] : i \in 1 .. Len(items)}
        /\ \A i, j \in DOMAIN D : i < j => Score(D[i]) >= Score(D[j])
        /\ \A s \in Source : Cardinality(From(T, s)) <= Quota(s)
        /\ \A x \in ToSet(D) : PassedOver(x, first)
        /\ IsInjective(first)
    BY FirstPassSound DEF PassInv
  <1>3. /\ selected \in Seq(Objects) /\ IsInjective(selected) /\ Len(selected) = Limit
        /\ more \in 0 .. Len(D) /\ S = T \cup some
        /\ \A i, j \in DOMAIN selected : i < j => Score(selected[i]) >= Score(selected[j])
    BY QuotaCut
  <1> HIDE DEF first, D
  <1>4. /\ Len(first) \in Nat /\ DOMAIN D = 1 .. Len(D) /\ Len(D) \in Nat
        /\ \A x \in ToSet(D) : x \in Objects /\ \E i \in DOMAIN D : x = D[i]
    BY <1>2 DEF ToSet
  <1>5. ToSet(items) = T \cup ToSet(D)
    BY <1>1, <1>2 DEF ToSet
  <1>6. ASSUME NEW s
        PROVE  /\ Cardinality(Chosen(s)) = Cardinality(From(S, s))
               /\ Cardinality(From(S, s)) \in Nat /\ Cardinality(From(T, s)) \in Nat
               /\ Cardinality(From(T, s)) <= Cardinality(From(S, s))
    <2>1. Cardinality(Chosen(s)) = Cardinality(From(S, s)) /\ IsFiniteSet(From(S, s))
      BY <1>3, SourceCount DEF Chosen
    <2>2. From(T, s) \subseteq From(S, s)
      BY <1>3 DEF From
    <2> QED
      BY <2>1, <2>2, FS_Subset, FS_CardinalityType
  <1> HIDE DEF T, more, S
  <1>7. ASSUME NEW x \in ToSet(items) \ S
        PROVE  /\ x \in ToSet(D) /\ x \in Objects /\ PassedOver(x, first)
               /\ \A y \in some : Score(y) >= Score(x)
    <2>1. x \in ToSet(D) /\ x \in Objects /\ PassedOver(x, first)
      BY <1>2, <1>3, <1>4, <1>5
    <2>2. PICK j \in DOMAIN D : x = D[j]
      BY <1>4, <2>1
    <2>3. j \notin 1 .. more
      BY <1>3, <2>2
    <2>4. \A i \in 1 .. more : i \in DOMAIN D /\ i < j
      BY <1>3, <1>4, <2>3
    <2>5. \A y \in some : Score(y) >= Score(x)
      BY <1>2, <2>2, <2>4
    <2> QED
      BY <2>1, <2>5
  <1>8. ASSUME NEW x \in ToSet(items) \ S, NEW i \in DOMAIN selected,
               Score(selected[i]) < Score(x)
        PROVE  Cardinality(Chosen(x.source)) >= Quota(x.source)
    <2>1. selected[i] \in S /\ selected[i] \in Objects
      BY <1>3 DEF ToSet, S
    <2>2. x \in Objects /\ Score(x) \in Int /\ Score(selected[i]) \in Int
      BY <1>1, <1>7, <2>1
    <2>3. ~(Score(selected[i]) >= Score(x))
      BY <1>8, <2>2
    <2>4. selected[i] \in T
      BY <1>3, <1>7, <2>1, <2>3
    <2>5. Cardinality(From(T, x.source)) >= Quota(x.source)
      BY <1>7, <2>3, <2>4 DEF PassedOver, T
    <2> QED
      BY <1>1, <1>6, <2>2, <2>5
  <1>9. ASSUME NEW x \in ToSet(items) \ S, NEW s \in Source \ {x.source},
               Cardinality(Chosen(s)) > Quota(s)
        PROVE  Cardinality(Chosen(x.source)) >= Quota(x.source)
    <2>1. Cardinality(From(S, s)) > Quota(s) /\ Cardinality(From(T, s)) <= Quota(s)
      BY <1>2, <1>6, <1>9 DEF T
    <2>2. S # T
      BY <1>1, <1>6, <2>1
    <2>3. more # 0
      BY <1>3, <2>2
    <2>4. Len(first) # Limit
      BY <1>1, <1>4, <2>3 DEF more
    <2>5. Cardinality(From(T, x.source)) >= Quota(x.source)
      BY <1>7, <2>4 DEF PassedOver, T
    <2> QED
      BY <1>1, <1>6, <1>7, <2>5
  <1> QED
    BY <1>3, <1>8, <1>9 DEF SelectionFair, S

\* In the end the selection is the cut of the ranking.
CutInv ==
    /\ RankInv
    /\ stage = "done" => selected = IF useQuota THEN Select ELSE SubSeq(items, 1, Limit)

\* The cut depends on the items, their scores and the limit alone.
LEMMA CutUnchanged ==
    ASSUME items' = items, limit' = limit, late' = late
    PROVE  Limit' = Limit /\ Select' = Select
  <1>1. Limit' = Limit
    BY DEF Limit
  <1>2. FirstPass' = FirstPass
    BY <1>1 DEF FirstPass, Take, Quota
  <1>3. \A S : ByScore(S)' = ByScore(S)
    BY DEF ByScore, Score
  <1> QED
    BY <1>1, <1>2, <1>3 DEF Select

\* Only the cut ends the fusion, and nothing follows it.
LEMMA CutInvStep == CutInv /\ [FuseNext]_fuseVars => CutInv'
  <1> SUFFICES ASSUME CutInv, [FuseNext]_fuseVars PROVE CutInv'
    OBVIOUS
  <1>1. RankInv'
    BY RankInvStep DEF CutInv
  <1>2. CASE MergeHit \/ ScoreObjects \/ Rank
    BY <1>1, <1>2 DEF MergeHit, ScoreObjects, Rank, CutInv
  <1>3. CASE Cut
    <2>1. /\ items' = items /\ limit' = limit /\ useQuota' = useQuota /\ late' = late
          /\ selected' = IF useQuota THEN Select ELSE SubSeq(items, 1, Limit)
      BY <1>3 DEF Cut
    <2>2. Limit' = Limit /\ Select' = Select
      BY <2>1, CutUnchanged
    <2> QED
      BY <1>1, <2>1, <2>2 DEF CutInv
  <1>4. CASE UNCHANGED fuseVars
    <2>1. /\ items' = items /\ limit' = limit /\ useQuota' = useQuota /\ stage' = stage
          /\ selected' = selected /\ late' = late
      BY <1>4 DEF fuseVars
    <2>2. Limit' = Limit /\ Select' = Select
      BY <2>1, CutUnchanged
    <2> QED
      BY <1>1, <2>1, <2>2 DEF CutInv
  <1> QED
    BY <1>2, <1>3, <1>4 DEF FuseNext

\* The cut returns as many objects as asked for, each once, in the order of
\* their scores; a better object is passed over only for the quota of its source,
\* and a source goes beyond its quota only when no other could fill the place.
THEOREM SelectionAlwaysFair == FuseSpec => []SelectionFair
  <1>1. FuseInit => CutInv
    BY RankInvInit DEF FuseInit, CutInv
  <1>2. CutInv => SelectionFair
    <2> SUFFICES ASSUME CutInv, stage = "done" PROVE SelectionFair
      BY DEF SelectionFair
    <2>1. Ranked
      BY DEF CutInv, RankInv, Ranked
    <2>2. useQuota \in BOOLEAN
      BY DEF CutInv, RankInv, MergeInv
    <2> QED
      BY <2>1, <2>2, PlainCutFair, QuotaCutFair DEF CutInv
  <1> QED
    BY <1>1, <1>2, CutInvStep, PTL DEF FuseSpec
=============================================================================

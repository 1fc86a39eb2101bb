---------------------------- MODULE FetchFlight ----------------------------
(***************************************************************************)
(* Engine.Fetch (internal/engine/fetch.go) and the single-flight group it  *)
(* uses (internal/engine/singleflight.go): concurrent Fetch requests on    *)
(* one session, each asking for projections of some objects, share the     *)
(* provider calls in flight, spend their budget ledgers and write what     *)
(* they got back to the session record.                                    *)
(*                                                                         *)
(* One provider and one identity scope: the flight key is then the object  *)
(* and the projection still missing.  A projection set is a set of bits.   *)
(***************************************************************************)
EXTENDS BudgetLedger, FiniteSets, Sequences

CONSTANTS
    Request,           \* concurrent Fetch calls
    Object,            \* canonical ids
    Projection,        \* projection bits
    Wanted,            \* [Request -> [Object -> SUBSET Projection]] after dedupFetchItems
    Unfetchable,       \* objects that fail validation before any flight
    InitialArtifacts,  \* [Object -> SUBSET Projection] in the session
    Account,           \* [Request -> ledger name]; plan nodes share one
    Limits,            \* [ledger name -> [Dimension -> Nat]]
    GlobalConcurrency, \* chunks of one request that may run at once
    MaxFetchItems,     \* BatchLimits.MaxFetchItems of the provider
    SharedRecord,      \* TRUE: the store hands out the live record (memory, file);
                       \* FALSE: it hands out a copy (sqlite)
    None

Ledgers == {Account[r] : r \in Request}

ASSUME FetchAssumption ==
    /\ IsFiniteSet(Request) /\ IsFiniteSet(Object) /\ None \notin Request
    /\ Wanted \in [Request -> [Object -> SUBSET Projection]]
    /\ InitialArtifacts \in [Object -> SUBSET Projection]
    /\ Unfetchable \subseteq Object
    /\ Limits \in [Ledgers -> [Dimension -> Nat]]
    /\ GlobalConcurrency \in Nat \ {0} /\ MaxFetchItems \in Int
    /\ SharedRecord \in BOOLEAN

Key == Object \X SUBSET Projection

VARIABLES
    artifacts,  \* the session's Artifacts: the projection of each object
    pc,         \* [Request -> ...] where the Fetch call is
    local,      \* [Request -> [Object -> SUBSET Projection]] its artifactMap
    todo,       \* items not yet prepared
    lead,       \* leader items in the order they were acquired
    work,       \* [Request -> [Object -> work record]]
    flights,    \* flightGroup.m: the request that leads a key, or None
    ledger,     \* [Ledgers -> Ledger]
    ctxDone     \* [Request -> BOOLEAN] callCtx is done

vars == <<artifacts, pc, local, todo, lead, work, flights, ledger, ctxDone>>

(* A work item: its role, the projection its flight is about, the leader     *)
(* it waits for, its stage and its result.                                   *)
(*   lead:   "acquired" -> "calling" -> "settled" -> "closed" -> "applied"   *)
(*   follow: "acquired" ------------------------------------> "applied"      *)
NoWork == [role |-> "none", missing |-> {}, leader |-> None, stage |-> "none",
           val |-> "none"]

WorkType ==
    [role : {"none", "direct", "lead", "follow"}, missing : SUBSET Projection,
     leader : Request \cup {None},
     stage : {"none", "acquired", "calling", "settled", "closed", "applied"},
     val : {"none", "valid", "ok", "cached", "rejected", "failed", "budget",
            "overdrawn", "cancelled"}]

Init ==
    /\ artifacts = InitialArtifacts
    /\ pc = [r \in Request |-> "start"]
    /\ local = [r \in Request |-> [o \in Object |-> {}]]
    /\ todo = [r \in Request |-> {}]
    /\ lead = [r \in Request |-> <<>>]
    /\ work = [r \in Request |-> [o \in Object |-> NoWork]]
    /\ flights = [k \in Key |-> None]
    /\ ledger = [a \in Ledgers |-> NewLedger(Limits[a])]
    /\ ctxDone = [r \in Request |-> FALSE]

SetWork(r, o, w) == work' = [work EXCEPT ![r][o] = w]

\* The session is read once: its artifacts become the request's artifactMap.
Begin(r) ==
    /\ pc[r] = "start"
    /\ pc' = [pc EXCEPT ![r] = "prepare"]
    /\ local' = [local EXCEPT ![r] = artifacts]
    /\ todo' = [todo EXCEPT ![r] = {o \in Object : Wanted[r][o] # {}}]
    /\ UNCHANGED <<artifacts, lead, work, flights, ledger, ctxDone>>

\* Items answered on the spot: invalid ones, and those the session already has.
PrepareDirect(r, o) ==
    /\ pc[r] = "prepare" /\ o \in todo[r]
    /\ \/ o \in Unfetchable
       \/ Wanted[r][o] \subseteq local[r][o]
    /\ SetWork(r, o, [NoWork EXCEPT !.role = "direct", !.stage = "applied",
                      !.val = IF o \in Unfetchable THEN "rejected" ELSE "cached"])
    /\ todo' = [todo EXCEPT ![r] = @ \ {o}]
    /\ UNCHANGED <<artifacts, pc, local, lead, flights, ledger, ctxDone>>

Missing(r, o) == Wanted[r][o] \ local[r][o]

\* Mutant: Acquire makes everybody a leader.
AcquireAlwaysLeads(r, k) == None

\* flightGroup.Acquire: whoever leads the key's call, if there is one.
Acquire(r, k) == flights[k]

\* The item joins a flight or takes its lead.
PrepareFlight(r, o) ==
    LET missing == Missing(r, o)
        leader  == Acquire(r, <<o, missing>>)
        w == [NoWork EXCEPT !.missing = missing, !.stage = "acquired"]
    IN  /\ pc[r] = "prepare" /\ o \in todo[r]
        /\ o \notin Unfetchable /\ ~(Wanted[r][o] \subseteq local[r][o])
        /\ IF leader = None
           THEN /\ flights' = [flights EXCEPT ![<<o, missing>>] = r]
                /\ lead' = [lead EXCEPT ![r] = Append(@, o)]
                /\ SetWork(r, o, [w EXCEPT !.role = "lead", !.leader = r])
           ELSE /\ SetWork(r, o, [w EXCEPT !.role = "follow", !.leader = leader])
                /\ UNCHANGED <<flights, lead>>
        /\ todo' = [todo EXCEPT ![r] = @ \ {o}]
        /\ UNCHANGED <<artifacts, pc, local, ledger, ctxDone>>

\* All items prepared: followers wait and chunks of leaders are launched.
Launch(r) ==
    /\ pc[r] = "prepare" /\ todo[r] = {}
    /\ pc' = [pc EXCEPT ![r] = "run"]
    /\ UNCHANGED <<artifacts, local, todo, lead, work, flights, ledger, ctxDone>>

maxBatch == IF MaxFetchItems <= 0 THEN 1 ELSE MaxFetchItems

\* The leaders of a request, cut in order into chunks of maxBatch.
Chunks(r) ==
    {{lead[r][i] : i \in {j \in DOMAIN lead[r] : (j - 1) \div maxBatch = k}} :
        k \in {(j - 1) \div maxBatch : j \in DOMAIN lead[r]}}

\* Chunks of r that hold a slot of its semaphore.
RunningChunks(r) ==
    {ch \in Chunks(r) : /\ \E o \in ch : work[r][o].stage \in {"calling", "settled", "closed"}}

\* Set the works of a chunk to a stage, with the results given by f.
SetChunk(r, ch, stage, f) ==
    work' = [work EXCEPT ![r] = [o \in Object |->
                IF o \in ch THEN [work[r][o] EXCEPT !.stage = stage, !.val = f[o]]
                ELSE work[r][o]]]

\* A chunk gets a slot and its reservation: one call and a fetch per item.
StartChunk(r, ch) ==
    LET cost == FetchCost(1, Cardinality(ch)) IN
    /\ pc[r] = "run" /\ ch \in Chunks(r)
    /\ \A o \in ch : work[r][o].stage = "acquired"
    /\ Cardinality(RunningChunks(r)) < GlobalConcurrency
    /\ CanReserve(ledger[Account[r]], cost)
    /\ ledger' = [ledger EXCEPT ![Account[r]] = Charge(@, cost)]
    /\ SetChunk(r, ch, "calling", [o \in ch |-> "none"])
    /\ UNCHANGED <<artifacts, pc, local, todo, lead, flights, ctxDone>>

\* The reservation is refused: no room, or the deadline has passed.
RefuseChunk(r, ch) ==
    /\ pc[r] = "run" /\ ch \in Chunks(r)
    /\ \A o \in ch : work[r][o].stage = "acquired"
    /\ Cardinality(RunningChunks(r)) < GlobalConcurrency
    /\ ctxDone[r] \/ ~CanReserve(ledger[Account[r]], FetchCost(1, Cardinality(ch)))
    /\ SetChunk(r, ch, "settled", [o \in ch |-> "budget"])
    /\ UNCHANGED <<artifacts, pc, local, todo, lead, flights, ledger, ctxDone>>

\* The provider answers: each item is matched with a valid artifact, or not.
ProviderReturns(r, ch) ==
    /\ pc[r] = "run" /\ ch \in Chunks(r)
    /\ \A o \in ch : work[r][o].stage = "calling"
    /\ \E f \in [ch -> {"valid", "failed"}] : SetChunk(r, ch, "settled", f)
    /\ UNCHANGED <<artifacts, pc, local, todo, lead, flights, ledger, ctxDone>>

\* The loop over a chunk finishes one item before it looks at the next.
Turn(r, o) ==
    \A i, j \in DOMAIN lead[r] :
        (lead[r][j] = o /\ i < j /\ (i - 1) \div maxBatch = (j - 1) \div maxBatch)
            => work[r][lead[r][i]].stage = "applied"

\* AddBytes for an artifact of one unit; other outcomes cost nothing more.
AddBytes(r, old, val) ==
    IF old # "valid" THEN val = old /\ UNCHANGED ledger
    ELSE \/ /\ CanReserve(ledger[Account[r]], ByteCost(1))
            /\ val = "ok"
            /\ ledger' = [ledger EXCEPT ![Account[r]] = Charge(@, ByteCost(1))]
         \/ /\ ctxDone[r] \/ ~CanReserve(ledger[Account[r]], ByteCost(1))
            /\ val = "overdrawn"
            /\ UNCHANGED ledger

\* The item's bytes are charged, then complete, first half: the value is
\* stored and `done' closed.
CloseCall(r, o) ==
    /\ work[r][o].role = "lead" /\ work[r][o].stage = "settled" /\ Turn(r, o)
    /\ \E val \in {"ok", "failed", "budget", "overdrawn"} :
          /\ AddBytes(r, work[r][o].val, val)
          /\ SetWork(r, o, [work[r][o] EXCEPT !.stage = "closed", !.val = val])
    /\ UNCHANGED <<artifacts, pc, local, todo, lead, flights, ctxDone>>

ReleaseKey(r, o) == flights' = [flights EXCEPT ![<<o, work[r][o].missing>>] = None]

\* Mutant: the artifact replaces what the request already had.
ApplyReplaces(r, o, val) ==
    local' = IF val = "ok" THEN [local EXCEPT ![r][o] = work[r][o].missing] ELSE local

\* apply: a fetched artifact has the projection asked for (validated before;
\* more than that is left out here) and is merged into artifactMap.
Apply(r, o, val) ==
    local' = IF val = "ok" THEN [local EXCEPT ![r][o] = @ \cup work[r][o].missing] ELSE local

\* complete, second half, and the leader's own apply: the key is free again.
ReleaseCall(r, o) ==
    /\ work[r][o].role = "lead" /\ work[r][o].stage = "closed"
    /\ ReleaseKey(r, o)
    /\ Apply(r, o, work[r][o].val)
    /\ SetWork(r, o, [work[r][o] EXCEPT !.stage = "applied"])
    /\ UNCHANGED <<artifacts, pc, todo, lead, ledger, ctxDone>>

\* The call a follower holds on to, even after its key was reused.
CallOf(r, o) == work[work[r][o].leader][o]

\* Mutant: a signal sent once, which a late listener misses.
CallDoneOnce(r, o) == CallOf(r, o).stage = "closed"

\* `done' is closed, and stays so.
CallDone(r, o) == CallOf(r, o).stage \in {"closed", "applied"}

\* A follower finds `done' closed.
FollowerWakes(r, o) ==
    /\ pc[r] = "run" /\ work[r][o].role = "follow" /\ work[r][o].stage = "acquired"
    /\ CallDone(r, o)
    /\ Apply(r, o, CallOf(r, o).val)
    /\ SetWork(r, o, [work[r][o] EXCEPT !.stage = "applied", !.val = CallOf(r, o).val])
    /\ UNCHANGED <<artifacts, pc, todo, lead, flights, ledger, ctxDone>>

\* A follower's own context ends first.
FollowerGivesUp(r, o) ==
    /\ pc[r] = "run" /\ work[r][o].role = "follow" /\ work[r][o].stage = "acquired"
    /\ ctxDone[r]
    /\ SetWork(r, o, [work[r][o] EXCEPT !.stage = "applied", !.val = "cancelled"])
    /\ UNCHANGED <<artifacts, pc, local, todo, lead, flights, ledger, ctxDone>>

\* What Save leaves in the session.  A live record keeps objects this request
\* never saw; a copy is stored whole.
Written(r) ==
    [o \in Object |-> IF local[r][o] = {} /\ SharedRecord THEN artifacts[o] ELSE local[r][o]]

\* All goroutines done: every entry of artifactMap overwrites the record's.
WriteBack(r) ==
    /\ pc[r] = "run"
    /\ \A o \in Object : work[r][o].stage \in {"none", "applied"}
    /\ artifacts' = Written(r)
    /\ pc' = [pc EXCEPT ![r] = "done"]
    /\ UNCHANGED <<local, todo, lead, work, flights, ledger, ctxDone>>

\* The caller goes away or the budget's deadline passes.
Expire(r) ==
    /\ ~ctxDone[r] /\ pc[r] # "done"
    /\ ctxDone' = [ctxDone EXCEPT ![r] = TRUE]
    /\ UNCHANGED <<artifacts, pc, local, todo, lead, work, flights, ledger>>

Step(r) ==
    \/ Begin(r) \/ Launch(r) \/ WriteBack(r)
    \/ \E o \in Object :
          \/ PrepareDirect(r, o) \/ PrepareFlight(r, o) \/ CloseCall(r, o)
          \/ ReleaseCall(r, o) \/ FollowerWakes(r, o) \/ FollowerGivesUp(r, o)
    \/ \E ch \in Chunks(r) :
          StartChunk(r, ch) \/ RefuseChunk(r, ch) \/ ProviderReturns(r, ch)

Next == \E r \in Request : Step(r) \/ Expire(r)

Spec == Init /\ [][Next]_vars

\* Goroutines run, and a provider call returns: it carries a timeout.  No
\* context need ever expire.
FairSpec == Spec /\ \A r \in Request : WF_vars(Step(r))

----------------------------------------------------------------------------
(* The engine's fetch state is of the expected type. *)
TypeOK ==
    /\ artifacts \in [Object -> SUBSET Projection]
    /\ pc \in [Request -> {"start", "prepare", "run", "done"}]
    /\ local \in [Request -> [Object -> SUBSET Projection]]
    /\ todo \in [Request -> SUBSET Object]
    /\ lead \in [Request -> Seq(Object)]
    /\ work \in [Request -> [Object -> WorkType]]
    /\ flights \in [Key -> Request \cup {None}]
    /\ ledger \in [Ledgers -> Ledger]
    /\ ctxDone \in [Request -> BOOLEAN]

(* Requests for the same object and projection share one call: the provider  *)
(* is never asked for the same key twice at the same time, even while the    *)
(* key of a finished call is still, or no longer, in the map.                *)
OneFlightPerKey ==
    \A r, s \in Request, o \in Object :
        (/\ work[r][o].stage = "calling" /\ work[s][o].stage = "calling"
         /\ work[r][o].missing = work[s][o].missing) => r = s

(* An item reported without an error has every projection that was asked     *)
(* for, whoever fetched it, and what the session held before the requests    *)
(* survives all their write-backs.  (What one of them stores meanwhile may   *)
(* be lost: each writes back the copy it took at its start.)                 *)
ResultsComplete ==
    /\ \A r \in Request, o \in Object :
        work[r][o].val \in {"ok", "cached"} /\ work[r][o].stage = "applied"
            => Wanted[r][o] \subseteq local[r][o]
    /\ \A o \in Object : InitialArtifacts[o] \subseteq artifacts[o]

\* Items of requests on ledger a that were really sent to the provider.
Sent(a) == {x \in Request \X Object :
              /\ Account[x[1]] = a /\ work[x[1]][x[2]].role = "lead"
              /\ \/ work[x[1]][x[2]].stage = "calling"
                 \/ work[x[1]][x[2]].val \in {"valid", "ok", "failed", "overdrawn"}}

\* Those whose artifact was accepted.
Kept(a) == {x \in Sent(a) : work[x[1]][x[2]].val = "ok"}

(* The provider is asked for exactly as many objects as the ledger was       *)
(* charged, the bytes charged are those of the artifacts accepted, and no    *)
(* limit is exceeded however the requests on a ledger interleave; followers  *)
(* cost nothing.                                                             *)
FetchesPaid ==
    \A a \in Ledgers : /\ ledger[a].used["fetches"] = Cardinality(Sent(a))
                       /\ ledger[a].used["bytes"] = Cardinality(Kept(a))
                       /\ WithinBudget(ledger[a])

(* Every Fetch call returns: followers are never left waiting for a leader   *)
(* and no set of requests waits for each other.                              *)
AllReturn == <>(\A r \in Request : pc[r] = "done")
=============================================================================

------------------------- MODULE FetchFlightProofs -------------------------
(***************************************************************************)
(* Theorems about FetchFlight for every set of requests, objects,          *)
(* projections and budgets: one call per key, complete results, and        *)
(* budgets charged for exactly what was fetched.                           *)
(***************************************************************************)
EXTENDS FetchFlight, FiniteSetTheorems, TLAPS

(* Items that are not prepared have no work yet. *)
Untouched ==
    \A r \in Request, o \in Object : (o \in todo[r] \/ pc[r] = "start") => work[r][o] = NoWork

(* What a chunk is made of. *)
LeadersLead ==
    \A r \in Request : \A i \in DOMAIN lead[r] : work[r][lead[r][i]].role = "lead"

(* The stages an item goes through, and what it knows at each of them. *)
Staged(w) ==
    /\ w.stage \in {"calling", "settled", "closed"} => w.role = "lead"
    /\ w.role = "lead" /\ w.stage \in {"acquired", "calling"} => w.val = "none"
    /\ w.role = "lead" /\ w.stage = "settled" => w.val \in {"valid", "failed", "budget"}
    /\ w.role = "lead" /\ w.stage \in {"closed", "applied"} =>
          w.val \in {"ok", "failed", "budget", "overdrawn"}
    /\ w.role = "direct" => w.stage = "applied"

\* Every work item is in a stage that its role allows.
Stages == \A r \in Request, o \in Object : Staged(work[r][o])

(* Request r leads the flight of an object and a projection, in works w. *)
Leads(w, r, o, m) == r \in Request /\ w[r][o].role = "lead" /\ w[r][o].missing = m

(* A leader holds its key from Acquire to the second half of complete, and   *)
(* whoever finds a key in the map follows a leader of that very key.         *)
KeysOwned ==
    \A o \in Object :
        /\ \A r \in Request :
              /\ work[r][o].role = "lead" /\ work[r][o].stage # "applied" =>
                    flights[<<o, work[r][o].missing>>] = r
              /\ work[r][o].role = "follow" => Leads(work, work[r][o].leader, o, work[r][o].missing)
        /\ \A m \in SUBSET Projection :
              flights[<<o, m>>] # None => Leads(work, flights[<<o, m>>], o, m)

\* The inductive invariant behind OneFlightPerKey and ResultsComplete.
FlightInv == TypeOK /\ Untouched /\ LeadersLead /\ Stages /\ KeysOwned

(* An item whose request has l, and wants want. *)
Supplied(w, l, want) ==
    /\ w.role \in {"lead", "follow"} => want \subseteq l \cup w.missing
    /\ w.role \in {"lead", "follow"} /\ w.stage = "applied" /\ w.val = "ok" => w.missing \subseteq l
    /\ w.val = "cached" /\ w.role = "direct" => want \subseteq l
    /\ w.val = "ok" => w.role \in {"lead", "follow"}
    /\ w.val = "cached" => w.role = "direct"

(* What a request has and what its flight will bring make up what it wants. *)
Covered == \A r \in Request, o \in Object : Supplied(work[r][o], local[r][o], Wanted[r][o])

(* Nobody holds less than the session held before. *)
Kernel ==
    \A o \in Object :
        /\ InitialArtifacts[o] \subseteq artifacts[o]
        /\ \A r \in Request : pc[r] # "start" => InitialArtifacts[o] \subseteq local[r][o]
----------------------------------------------------------------------------
(* The parts of a work item. *)

\* Results and stages of a work item.
Value == {"none", "valid", "ok", "cached", "rejected", "failed", "budget", "overdrawn", "cancelled"}

StageName == {"none", "acquired", "calling", "settled", "closed", "applied"}

\* The fields of a work item.
LEMMA WorkFields ==
    ASSUME NEW w \in WorkType
    PROVE  w.missing \in SUBSET Projection /\ w.leader \in Request \cup {None} /\ w.val \in Value
  BY DEF WorkType, Value

(* A work item moves to another stage, with a value. *)
Moved(w, st, v) == [w EXCEPT !.stage = st, !.val = v]

\* A work item with a new stage and result.
LEMMA MovedFields ==
    ASSUME NEW w \in WorkType, NEW st \in StageName, NEW v \in Value
    PROVE  /\ Moved(w, st, v) \in WorkType
           /\ Moved(w, st, v).role = w.role /\ Moved(w, st, v).missing = w.missing
           /\ Moved(w, st, v).leader = w.leader
           /\ Moved(w, st, v).stage = st /\ Moved(w, st, v).val = v
  BY DEF Moved, WorkType, Value, StageName

(* One that keeps its value only moves. *)
LEMMA MovedStage ==
    ASSUME NEW w \in WorkType, NEW st \in StageName
    PROVE  Moved(w, st, w.val) = [w EXCEPT !.stage = st]
  BY DEF Moved, WorkType, Value, StageName

(* An item that is not prepared. *)
LEMMA NoWorkFields ==
    /\ NoWork \in WorkType /\ NoWork.role = "none" /\ NoWork.stage = "none" /\ NoWork.val = "none"
    /\ NoWork.missing = {}
  BY DEF NoWork, WorkType

(* The members of a chunk are leaders' items. *)
LEMMA ChunkMembers ==
    ASSUME TypeOK, NEW r \in Request, NEW ch \in Chunks(r)
    PROVE  /\ ch \subseteq Object
           /\ \A o \in ch : \E i \in DOMAIN lead[r] : lead[r][i] = o
  BY DEF TypeOK, Chunks

(* What SetWork and SetChunk change. *)
LEMMA SetWorkFrame ==
    ASSUME TypeOK, NEW r \in Request, NEW o \in Object, NEW w, SetWork(r, o, w)
    PROVE  /\ work'[r][o] = w
           /\ \A s \in Request, q \in Object : (s # r \/ q # o) => work'[s][q] = work[s][q]
           /\ w \in WorkType => work' \in [Request -> [Object -> WorkType]]
  BY DEF TypeOK, SetWork

\* SetChunk changes the items of its chunk only.
LEMMA SetChunkFrame ==
    ASSUME TypeOK, NEW r \in Request, NEW ch \in Chunks(r), NEW f \in [ch -> Value],
           NEW st \in {"calling", "settled"}, SetChunk(r, ch, st, f)
    PROVE  /\ work' \in [Request -> [Object -> WorkType]]
           /\ \A o \in ch : /\ work'[r][o].role = work[r][o].role
                            /\ work'[r][o].missing = work[r][o].missing
                            /\ work'[r][o].leader = work[r][o].leader
                            /\ work'[r][o].stage = st /\ work'[r][o].val = f[o]
           /\ \A s \in Request, q \in Object : (s # r \/ q \notin ch) => work'[s][q] = work[s][q]
  <1>1. ch \subseteq Object
    BY ChunkMembers
  <1>2. \A q \in Object : work'[r][q] = IF q \in ch THEN [work[r][q] EXCEPT !.stage = st, !.val = f[q]]
                                         ELSE work[r][q]
    BY DEF SetChunk, TypeOK
  <1>3. \A s \in Request \ {r} : work'[s] = work[s]
    BY DEF SetChunk, TypeOK
  <1>4. \A q \in ch : work[r][q] \in WorkType /\ f[q] \in Value
    BY <1>1 DEF TypeOK
  <1>5. ASSUME NEW q \in ch
        PROVE  /\ work'[r][q] \in WorkType
               /\ work'[r][q].role = work[r][q].role
               /\ work'[r][q].missing = work[r][q].missing
               /\ work'[r][q].leader = work[r][q].leader
               /\ work'[r][q].stage = st /\ work'[r][q].val = f[q]
    <2>1. work'[r][q] = [work[r][q] EXCEPT !.stage = st, !.val = f[q]]
      BY <1>1, <1>2
    <2>2. work[r][q] \in WorkType /\ f[q] \in Value /\ st \in StageName
      BY <1>4 DEF StageName
    <2>3. work'[r][q] = Moved(work[r][q], st, f[q])
      BY <2>1 DEF Moved
    <2> QED
      BY <2>2, <2>3, MovedFields
  <1>6. work'[r] \in [Object -> WorkType]
    <2>1. \A q \in Object : work'[r][q] \in WorkType
      BY <1>2, <1>5 DEF TypeOK
    <2>2. work'[r] = [q \in Object |-> work'[r][q]]
      BY DEF SetChunk, TypeOK
    <2> QED
      BY <2>1, <2>2
  <1>7. work' = [work EXCEPT ![r] = work'[r]]
    BY DEF SetChunk, TypeOK
  <1>8. work' \in [Request -> [Object -> WorkType]]
    BY <1>6, <1>7 DEF TypeOK
  <1> QED
    BY <1>2, <1>3, <1>5, <1>8
----------------------------------------------------------------------------
(* Ledgers. *)

(* A charge that fits keeps a ledger a ledger within its limits. *)
LEMMA ChargeFits ==
    ASSUME NEW l \in Ledger, NEW cost \in [Dimension -> Int], CanReserve(l, cost)
    PROVE  /\ Charge(l, cost) \in Ledger /\ WithinBudget(Charge(l, cost))
           /\ \A d \in Dimension : Charge(l, cost).used[d] = l.used[d] + cost[d]
  <1> DEFINE u == [d \in Dimension |-> l.used[d] + cost[d]]
  <1>1. /\ l.max \in [Dimension -> Nat] /\ l.used \in [Dimension -> Nat]
        /\ l = [max |-> l.max, used |-> l.used]
    BY DEF Ledger
  <1>2. \A d \in Dimension : cost[d] >= 0 /\ l.used[d] + cost[d] <= l.max[d]
    BY DEF CanReserve
  <1>3. u \in [Dimension -> Nat] /\ \A d \in Dimension : u[d] = l.used[d] + cost[d]
    BY <1>1, <1>2
  <1>4. Charge(l, cost) = [max |-> l.max, used |-> u]
    BY <1>1 DEF Charge
  <1>5. Charge(l, cost).max = l.max /\ Charge(l, cost).used = u
    BY <1>4
  <1> HIDE DEF u
  <1>6. Charge(l, cost) \in Ledger
    BY <1>1, <1>3, <1>4 DEF Ledger
  <1> QED
    BY <1>1, <1>2, <1>3, <1>5, <1>6 DEF WithinBudget

(* The costs the engine charges. *)
LEMMA Costs ==
    ASSUME NEW n \in Nat
    PROVE  /\ FetchCost(1, n) \in [Dimension -> Int] /\ ByteCost(1) \in [Dimension -> Int]
           /\ FetchCost(1, n)["fetches"] = n /\ FetchCost(1, n)["bytes"] = 0
           /\ ByteCost(1)["fetches"] = 0 /\ ByteCost(1)["bytes"] = 1
           /\ "fetches" \in Dimension /\ "bytes" \in Dimension
  BY DEF FetchCost, ByteCost, Dimension

(* Sets of objects are finite. *)
LEMMA ObjectSets ==
    ASSUME NEW S \in SUBSET Object
    PROVE  IsFiniteSet(S) /\ Cardinality(S) \in Nat
  BY FetchAssumption, FS_Subset, FS_CardinalityType DEF FetchAssumption

----------------------------------------------------------------------------
(* Types. *)

(* The initial state is well typed. *)
LEMMA TypeInit == Init => TypeOK
  <1> SUFFICES ASSUME Init PROVE TypeOK
    OBVIOUS
  <1>1. ledger \in [Ledgers -> Ledger]
    <2>1. \A a \in Ledgers : NewLedger(Limits[a]) \in Ledger
      BY FetchAssumption DEF FetchAssumption, NewLedger, Ledger
    <2> QED
      BY <2>1 DEF Init
  <1>2. artifacts \in [Object -> SUBSET Projection]
    BY FetchAssumption DEF FetchAssumption, Init
  <1>3. work \in [Request -> [Object -> WorkType]]
    BY NoWorkFields DEF Init
  <1>4. ctxDone \in [Request -> BOOLEAN]
    BY Zenon DEF Init
  <1> QED
    BY <1>1, <1>2, <1>3, <1>4 DEF Init, TypeOK

(* An item that is not yet prepared is new work when it is. *)
LEMMA Prepared ==
    ASSUME TypeOK, NEW r \in Request, NEW o \in Object, PrepareFlight(r, o)
    PROVE  /\ Missing(r, o) \in SUBSET Projection /\ <<o, Missing(r, o)>> \in Key
           /\ work' \in [Request -> [Object -> WorkType]]
           /\ \A s \in Request, q \in Object : (s # r \/ q # o) => work'[s][q] = work[s][q]
           /\ work'[r][o].missing = Missing(r, o)
           /\ work'[r][o].stage = "acquired" /\ work'[r][o].val = "none"
           /\ \/ /\ flights[<<o, Missing(r, o)>>] = None
                 /\ work'[r][o].role = "lead"
                 /\ flights' = [flights EXCEPT ![<<o, Missing(r, o)>>] = r]
                 /\ lead' = [lead EXCEPT ![r] = Append(lead[r], o)]
              \/ /\ flights[<<o, Missing(r, o)>>] \in Request
                 /\ work'[r][o].role = "follow"
                 /\ work'[r][o].leader = flights[<<o, Missing(r, o)>>]
                 /\ UNCHANGED <<flights, lead>>
  <1> DEFINE m == Missing(r, o)
             lw == [[NoWork EXCEPT !.missing = m, !.stage = "acquired"]
                        EXCEPT !.role = "lead", !.leader = r]
             fw == [[NoWork EXCEPT !.missing = m, !.stage = "acquired"]
                        EXCEPT !.role = "follow", !.leader = flights[<<o, m>>]]
  <1>1. m \in SUBSET Projection /\ <<o, m>> \in Key
    BY FetchAssumption DEF FetchAssumption, Missing, Key, TypeOK
  <1>2. flights[<<o, m>>] \in Request \cup {None}
    BY <1>1 DEF TypeOK
  <1>3. /\ lw \in WorkType /\ lw.missing = m /\ lw.stage = "acquired" /\ lw.val = "none"
        /\ lw.role = "lead"
    BY <1>1 DEF WorkType, NoWork
  <1>4. /\ fw \in WorkType /\ fw.missing = m /\ fw.stage = "acquired" /\ fw.val = "none"
        /\ fw.role = "follow" /\ fw.leader = flights[<<o, m>>]
    BY <1>1, <1>2 DEF WorkType, NoWork
  <1>5. CASE flights[<<o, m>>] = None
    <2>1. /\ SetWork(r, o, lw)
          /\ flights' = [flights EXCEPT ![<<o, m>>] = r]
          /\ lead' = [lead EXCEPT ![r] = Append(lead[r], o)]
      BY <1>5 DEF PrepareFlight, Acquire
    <2> HIDE DEF lw, m
    <2> QED
      BY <1>1, <1>3, <1>5, <2>1, SetWorkFrame DEF m
  <1>6. CASE flights[<<o, m>>] # None
    <2>1. SetWork(r, o, fw) /\ UNCHANGED <<flights, lead>>
      BY <1>6 DEF PrepareFlight, Acquire
    <2> HIDE DEF fw, m
    <2> QED
      BY <1>1, <1>2, <1>4, <1>6, <2>1, SetWorkFrame DEF m
  <1> QED
    BY <1>5, <1>6

(* One item answered on the spot. *)
LEMMA Answered ==
    ASSUME TypeOK, NEW r \in Request, NEW o \in Object, PrepareDirect(r, o)
    PROVE  /\ work' \in [Request -> [Object -> WorkType]]
           /\ \A s \in Request, q \in Object : (s # r \/ q # o) => work'[s][q] = work[s][q]
           /\ work'[r][o].role = "direct" /\ work'[r][o].stage = "applied"
           /\ \/ work'[r][o].val = "rejected"
              \/ work'[r][o].val = "cached" /\ Wanted[r][o] \subseteq local[r][o]
  <1> DEFINE dw == [NoWork EXCEPT !.role = "direct", !.stage = "applied",
                                  !.val = IF o \in Unfetchable THEN "rejected" ELSE "cached"]
  <1>1. /\ dw \in WorkType /\ dw.role = "direct" /\ dw.stage = "applied"
        /\ dw.val = IF o \in Unfetchable THEN "rejected" ELSE "cached"
    BY DEF WorkType, NoWork
  <1>2. SetWork(r, o, dw)
    BY DEF PrepareDirect
  <1>3. o \in Unfetchable \/ Wanted[r][o] \subseteq local[r][o]
    BY DEF PrepareDirect
  <1> HIDE DEF dw
  <1> QED
    BY <1>1, <1>2, <1>3, SetWorkFrame

(* Every item keeps its role, its projections and its leader. *)
RolesKept ==
    \A s \in Request, q \in Object :
        /\ work'[s][q].role = work[s][q].role
        /\ work'[s][q].missing = work[s][q].missing
        /\ work'[s][q].leader = work[s][q].leader

(* A call, or the end of one, moves one item. *)
LEMMA MoveItem ==
    ASSUME TypeOK, NEW r \in Request, NEW o \in Object, NEW st \in StageName, NEW val \in Value,
           SetWork(r, o, Moved(work[r][o], st, val))
    PROVE  /\ work' \in [Request -> [Object -> WorkType]]
           /\ \A s \in Request, q \in Object : (s # r \/ q # o) => work'[s][q] = work[s][q]
           /\ RolesKept /\ work'[r][o].stage = st /\ work'[r][o].val = val
  <1>1. work[r][o] \in WorkType
    BY DEF TypeOK
  <1>2. /\ work'[r][o] = Moved(work[r][o], st, val)
        /\ \A s \in Request, q \in Object : (s # r \/ q # o) => work'[s][q] = work[s][q]
    BY SetWorkFrame
  <1>3. work' \in [Request -> [Object -> WorkType]]
    BY <1>1, MovedFields, SetWorkFrame
  <1>4. ASSUME NEW s \in Request, NEW q \in Object
        PROVE  /\ work'[s][q].role = work[s][q].role /\ work'[s][q].missing = work[s][q].missing
               /\ work'[s][q].leader = work[s][q].leader
    <2>1. CASE s = r /\ q = o
      BY <1>1, <1>2, <2>1, MovedFields
    <2>2. CASE s # r \/ q # o
      BY <1>2, <2>2
    <2> QED
      BY <2>1, <2>2
  <1> QED
    BY <1>1, <1>2, <1>3, <1>4, MovedFields DEF RolesKept

(* A value applied: the item's missing projections join what the request has. *)
LEMMA AppliedLocal ==
    ASSUME TypeOK, NEW r \in Request, NEW o \in Object, NEW val, Apply(r, o, val)
    PROVE  /\ local' \in [Request -> [Object -> SUBSET Projection]]
           /\ \A s \in Request, q \in Object : local[s][q] \subseteq local'[s][q]
           /\ val = "ok" => work[r][o].missing \subseteq local'[r][o]
  <1>1. work[r][o].missing \in SUBSET Projection
    BY WorkFields DEF TypeOK
  <1> QED
    BY <1>1 DEF Apply, TypeOK

----------------------------------------------------------------------------
(* The steps that only move items which have their role already. *)

(* What a step on a chunk of leaders does to the work items. *)
LEMMA ChunkMoves ==
    ASSUME FlightInv, NEW r \in Request, NEW ch \in Chunks(r),
           StartChunk(r, ch) \/ RefuseChunk(r, ch) \/ ProviderReturns(r, ch)
    PROVE  /\ work' \in [Request -> [Object -> WorkType]] /\ RolesKept
           /\ ch \subseteq Object /\ \A o \in ch : work[r][o].role = "lead"
           /\ \A s \in Request, q \in Object : (s # r \/ q \notin ch) => work'[s][q] = work[s][q]
           /\ \/ /\ StartChunk(r, ch)
                 /\ \A o \in ch : /\ work[r][o].stage = "acquired" /\ work[r][o].val = "none"
                                  /\ work'[r][o].stage = "calling" /\ work'[r][o].val = "none"
              \/ /\ RefuseChunk(r, ch)
                 /\ \A o \in ch : /\ work[r][o].stage = "acquired" /\ work[r][o].val = "none"
                                  /\ work'[r][o].stage = "settled" /\ work'[r][o].val = "budget"
              \/ /\ ProviderReturns(r, ch)
                 /\ \A o \in ch : /\ work[r][o].stage = "calling" /\ work[r][o].val = "none"
                                  /\ work'[r][o].stage = "settled"
                                  /\ work'[r][o].val \in {"valid", "failed"}
  <1>1. TypeOK
    BY DEF FlightInv
  <1>2. ch \subseteq Object /\ \A o \in ch : work[r][o].role = "lead"
    BY <1>1, ChunkMembers DEF FlightInv, LeadersLead
  <1>3. \A o \in ch : work[r][o].stage \in {"acquired", "calling"} => work[r][o].val = "none"
    BY <1>2 DEF FlightInv, Stages, Staged
  <1>4. ASSUME NEW f \in [ch -> Value], NEW st \in {"calling", "settled"}, SetChunk(r, ch, st, f)
        PROVE  /\ work' \in [Request -> [Object -> WorkType]] /\ RolesKept
               /\ \A o \in ch : work'[r][o].stage = st /\ work'[r][o].val = f[o]
               /\ \A s \in Request, q \in Object : (s # r \/ q \notin ch) => work'[s][q] = work[s][q]
    BY <1>1, <1>2, <1>4, SetChunkFrame DEF RolesKept
  <1>5. CASE StartChunk(r, ch)
    <2>1. /\ \A o \in ch : work[r][o].stage = "acquired"
          /\ SetChunk(r, ch, "calling", [o \in ch |-> "none"])
      BY <1>5 DEF StartChunk
    <2>2. [o \in ch |-> "none"] \in [ch -> Value]
      BY DEF Value
    <2> QED
      BY <1>2, <1>3, <1>4, <1>5, <2>1, <2>2
  <1>6. CASE RefuseChunk(r, ch)
    <2>1. /\ \A o \in ch : work[r][o].stage = "acquired"
          /\ SetChunk(r, ch, "settled", [o \in ch |-> "budget"])
      BY <1>6 DEF RefuseChunk
    <2>2. [o \in ch |-> "budget"] \in [ch -> Value]
      BY DEF Value
    <2> QED
      BY <1>2, <1>3, <1>4, <1>6, <2>1, <2>2
  <1>7. CASE ProviderReturns(r, ch)
    <2>1. PICK f \in [ch -> {"valid", "failed"}] : SetChunk(r, ch, "settled", f)
      BY <1>7 DEF ProviderReturns
    <2>2. f \in [ch -> Value] /\ \A o \in ch : f[o] \in {"valid", "failed"}
      BY DEF Value
    <2>3. \A o \in ch : work[r][o].stage = "calling"
      BY <1>7 DEF ProviderReturns
    <2> QED
      BY <1>2, <1>3, <1>4, <1>7, <2>1, <2>2, <2>3
  <1> QED
    BY <1>5, <1>6, <1>7

(* What a step on one leader or follower does to the work items. *)
LEMMA ItemMoves ==
    ASSUME FlightInv, NEW r \in Request, NEW o \in Object,
           \/ CloseCall(r, o) \/ ReleaseCall(r, o) \/ FollowerWakes(r, o) \/ FollowerGivesUp(r, o)
    PROVE  /\ work' \in [Request -> [Object -> WorkType]] /\ RolesKept
           /\ \A s \in Request, q \in Object : (s # r \/ q # o) => work'[s][q] = work[s][q]
           /\ \/ /\ CloseCall(r, o) /\ work[r][o].role = "lead" /\ work[r][o].stage = "settled"
                 /\ work'[r][o].stage = "closed"
                 /\ work'[r][o].val \in {"ok", "failed", "budget", "overdrawn"}
                 /\ AddBytes(r, work[r][o].val, work'[r][o].val)
              \/ /\ ReleaseCall(r, o) /\ work[r][o].role = "lead" /\ work[r][o].stage = "closed"
                 /\ work'[r][o].stage = "applied" /\ work'[r][o].val = work[r][o].val
              \/ /\ FollowerWakes(r, o) /\ work[r][o].role = "follow"
                 /\ work'[r][o].stage = "applied" /\ work'[r][o].val = CallOf(r, o).val
                 /\ CallOf(r, o).val \in {"ok", "failed", "budget", "overdrawn"}
              \/ /\ FollowerGivesUp(r, o) /\ work[r][o].role = "follow"
                 /\ work'[r][o].stage = "applied" /\ work'[r][o].val = "cancelled"
  <1>1. TypeOK
    BY DEF FlightInv
  <1>2. CASE CloseCall(r, o)
    <2>1. PICK val \in {"ok", "failed", "budget", "overdrawn"} :
              /\ AddBytes(r, work[r][o].val, val)
              /\ SetWork(r, o, [work[r][o] EXCEPT !.stage = "closed", !.val = val])
      BY <1>2 DEF CloseCall
    <2>2. val \in Value /\ "closed" \in StageName
      BY DEF Value, StageName
    <2>3. work[r][o].role = "lead" /\ work[r][o].stage = "settled"
      BY <1>2 DEF CloseCall
    <2>4. SetWork(r, o, Moved(work[r][o], "closed", val))
      BY <2>1 DEF Moved
    <2> QED
      BY <1>1, <1>2, <2>1, <2>2, <2>3, <2>4, MoveItem
  <1>3. CASE ReleaseCall(r, o)
    <2>1. work[r][o].val \in Value
      BY <1>1, WorkFields DEF TypeOK
    <2>2. /\ work[r][o].role = "lead" /\ work[r][o].stage = "closed"
          /\ SetWork(r, o, [work[r][o] EXCEPT !.stage = "applied"])
      BY <1>3 DEF ReleaseCall
    <2>3. SetWork(r, o, Moved(work[r][o], "applied", work[r][o].val))
      <3>1. work[r][o] \in WorkType /\ "applied" \in StageName
        BY <1>1 DEF TypeOK, StageName
      <3>2. Moved(work[r][o], "applied", work[r][o].val) = [work[r][o] EXCEPT !.stage = "applied"]
        BY <3>1, MovedStage
      <3> QED
        BY <2>2, <3>2
    <2>4. "applied" \in StageName
      BY DEF StageName
    <2> QED
      BY <1>1, <1>3, <2>1, <2>2, <2>3, <2>4, MoveItem
  <1>4. CASE FollowerWakes(r, o)
    <2>1. /\ work[r][o].role = "follow" /\ CallOf(r, o).stage \in {"closed", "applied"}
          /\ SetWork(r, o, [work[r][o] EXCEPT !.stage = "applied", !.val = CallOf(r, o).val])
      BY <1>4 DEF FollowerWakes, CallDone
    <2>2. work[r][o].leader \in Request /\ CallOf(r, o).role = "lead"
      BY <2>1 DEF FlightInv, KeysOwned, Leads, CallOf
    <2>3. CallOf(r, o).val \in {"ok", "failed", "budget", "overdrawn"}
      BY <2>1, <2>2 DEF FlightInv, Stages, Staged, CallOf
    <2>4. CallOf(r, o).val \in Value
      BY <2>3 DEF Value
    <2>5. SetWork(r, o, Moved(work[r][o], "applied", CallOf(r, o).val)) /\ "applied" \in StageName
      BY <2>1 DEF Moved, StageName
    <2> QED
      BY <1>1, <1>4, <2>1, <2>3, <2>4, <2>5, MoveItem
  <1>5. CASE FollowerGivesUp(r, o)
    <2>1. /\ work[r][o].role = "follow"
          /\ SetWork(r, o, [work[r][o] EXCEPT !.stage = "applied", !.val = "cancelled"])
      BY <1>5 DEF FollowerGivesUp
    <2>2. "cancelled" \in Value
      BY DEF Value
    <2>3. SetWork(r, o, Moved(work[r][o], "applied", "cancelled")) /\ "applied" \in StageName
      BY <2>1 DEF Moved, StageName
    <2> QED
      BY <1>1, <1>5, <2>1, <2>2, <2>3, MoveItem
  <1> QED
    BY <1>2, <1>3, <1>4, <1>5

(* Every step keeps the state well typed. *)
LEMMA TypeNext == FlightInv /\ [Next]_vars => TypeOK'
  <1> SUFFICES ASSUME FlightInv, [Next]_vars PROVE TypeOK'
    OBVIOUS
  <1>0. TypeOK
    BY DEF FlightInv
  <1>1. ASSUME NEW r \in Request, Begin(r) PROVE TypeOK'
    BY <1>0, <1>1 DEF TypeOK, Begin
  <1>2. ASSUME NEW r \in Request, Launch(r) PROVE TypeOK'
    BY <1>0, <1>2 DEF TypeOK, Launch
  <1>3. ASSUME NEW r \in Request, WriteBack(r) PROVE TypeOK'
    BY <1>0, <1>3 DEF TypeOK, WriteBack, Written
  <1>4. ASSUME NEW r \in Request, Expire(r) PROVE TypeOK'
    <2>1. ctxDone' \in [Request -> BOOLEAN]
      BY <1>0, <1>4, Zenon DEF TypeOK, Expire
    <2> QED
      BY <1>0, <1>4, <2>1 DEF TypeOK, Expire
  <1>5. ASSUME NEW r \in Request, NEW o \in Object, PrepareDirect(r, o) PROVE TypeOK'
    BY <1>0, <1>5, Answered DEF TypeOK, PrepareDirect
  <1>6. ASSUME NEW r \in Request, NEW o \in Object, PrepareFlight(r, o) PROVE TypeOK'
    <2>1. /\ work' \in [Request -> [Object -> WorkType]]
          /\ flights' \in [Key -> Request \cup {None}] /\ lead' \in [Request -> Seq(Object)]
      <3>1. /\ <<o, Missing(r, o)>> \in Key
            /\ \/ UNCHANGED <<flights, lead>>
               \/ /\ flights' = [flights EXCEPT ![<<o, Missing(r, o)>>] = r]
                  /\ lead' = [lead EXCEPT ![r] = Append(lead[r], o)]
        BY <1>0, <1>6, Prepared
      <3>2. Append(lead[r], o) \in Seq(Object)
        BY <1>0 DEF TypeOK
      <3>3. flights' \in [Key -> Request \cup {None}]
        BY <1>0, <3>1 DEF TypeOK
      <3>4. lead' \in [Request -> Seq(Object)]
        BY <1>0, <3>1, <3>2 DEF TypeOK
      <3> QED
        BY <1>0, <1>6, <3>3, <3>4, Prepared
    <2> QED
      BY <1>0, <1>6, <2>1 DEF TypeOK, PrepareFlight
  <1>7. ASSUME NEW r \in Request, NEW ch \in Chunks(r), StartChunk(r, ch) PROVE TypeOK'
    <2>1. Cardinality(ch) \in Nat /\ work' \in [Request -> [Object -> WorkType]]
      BY <1>7, ChunkMoves, ObjectSets
    <2>2. Account[r] \in Ledgers
      BY DEF Ledgers
    <2>3. Charge(ledger[Account[r]], FetchCost(1, Cardinality(ch))) \in Ledger
      BY <1>0, <1>7, <2>1, <2>2, Costs, ChargeFits DEF StartChunk, TypeOK
    <2>4. ledger' \in [Ledgers -> Ledger]
      BY <1>0, <1>7, <2>2, <2>3 DEF StartChunk, TypeOK
    <2> QED
      BY <1>0, <1>7, <2>1, <2>4 DEF StartChunk, TypeOK
  <1>8. ASSUME NEW r \in Request, NEW ch \in Chunks(r), RefuseChunk(r, ch) PROVE TypeOK'
    <2>1. work' \in [Request -> [Object -> WorkType]]
      BY <1>8, ChunkMoves
    <2> QED
      BY <1>0, <1>8, <2>1 DEF RefuseChunk, TypeOK
  <1>9. ASSUME NEW r \in Request, NEW ch \in Chunks(r), ProviderReturns(r, ch) PROVE TypeOK'
    <2>1. work' \in [Request -> [Object -> WorkType]]
      BY <1>9, ChunkMoves
    <2> QED
      BY <1>0, <1>9, <2>1 DEF ProviderReturns, TypeOK
  <1>10. ASSUME NEW r \in Request, NEW o \in Object, CloseCall(r, o) PROVE TypeOK'
    <2>1. /\ work' \in [Request -> [Object -> WorkType]]
          /\ AddBytes(r, work[r][o].val, work'[r][o].val)
      <3>1. \E val : AddBytes(r, work[r][o].val, val) /\ work'[r][o].val = val
        BY <1>10, ItemMoves DEF ReleaseCall, FollowerWakes, FollowerGivesUp, CloseCall
      <3> QED
        BY <1>10, <3>1, ItemMoves
    <2>2. Account[r] \in Ledgers /\ ByteCost(1) \in [Dimension -> Int]
      BY Costs DEF Ledgers
    <2>3. ledger' \in [Ledgers -> Ledger]
      <3>1. CASE UNCHANGED ledger
        BY <1>0, <3>1 DEF TypeOK
      <3>2. CASE /\ CanReserve(ledger[Account[r]], ByteCost(1))
                 /\ ledger' = [ledger EXCEPT ![Account[r]] = Charge(ledger[Account[r]], ByteCost(1))]
        <4>1. Charge(ledger[Account[r]], ByteCost(1)) \in Ledger
          BY <1>0, <2>2, <3>2, ChargeFits DEF TypeOK
        <4> QED
          BY <1>0, <2>2, <3>2, <4>1 DEF TypeOK
      <3> QED
        BY <2>1, <3>1, <3>2 DEF AddBytes
    <2> QED
      BY <1>0, <1>10, <2>1, <2>3 DEF CloseCall, TypeOK
  <1>11. ASSUME NEW r \in Request, NEW o \in Object, ReleaseCall(r, o) PROVE TypeOK'
    <2>1. /\ work' \in [Request -> [Object -> WorkType]]
          /\ local' \in [Request -> [Object -> SUBSET Projection]]
      BY <1>0, <1>11, ItemMoves, AppliedLocal DEF ReleaseCall
    <2>2. flights' \in [Key -> Request \cup {None}]
      BY <1>0, <1>11 DEF ReleaseCall, ReleaseKey, TypeOK
    <2> QED
      BY <1>0, <1>11, <2>1, <2>2 DEF ReleaseCall, TypeOK
  <1>12. ASSUME NEW r \in Request, NEW o \in Object, FollowerWakes(r, o) PROVE TypeOK'
    <2>1. /\ work' \in [Request -> [Object -> WorkType]]
          /\ local' \in [Request -> [Object -> SUBSET Projection]]
      BY <1>0, <1>12, ItemMoves, AppliedLocal DEF FollowerWakes
    <2> QED
      BY <1>0, <1>12, <2>1 DEF FollowerWakes, TypeOK
  <1>13. ASSUME NEW r \in Request, NEW o \in Object, FollowerGivesUp(r, o) PROVE TypeOK'
    <2>1. work' \in [Request -> [Object -> WorkType]]
      BY <1>13, ItemMoves
    <2> QED
      BY <1>0, <1>13, <2>1 DEF FollowerGivesUp, TypeOK
  <1>14. CASE UNCHANGED vars
    BY <1>0, <1>14 DEF TypeOK, vars
  <1> QED
    BY <1>1, <1>2, <1>3, <1>4, <1>5, <1>6, <1>7, <1>8, <1>9, <1>10, <1>11, <1>12, <1>13, <1>14
       DEF Next, Step

----------------------------------------------------------------------------
(* The flights. *)

(* A step that changes neither roles nor flights nor any stage back from      *)
(* "applied" keeps keys and leaders.                                         *)
LEMMA KeysKept ==
    ASSUME FlightInv, RolesKept, UNCHANGED flights,
           \A r \in Request, o \in Object : work'[r][o].stage # "applied" => work[r][o].stage # "applied"
    PROVE  KeysOwned'
  <1> SUFFICES ASSUME NEW o \in Object
               PROVE  /\ \A r \in Request :
                            /\ work'[r][o].role = "lead" /\ work'[r][o].stage # "applied" =>
                                  flights[<<o, work'[r][o].missing>>] = r
                            /\ work'[r][o].role = "follow" =>
                                  Leads(work', work'[r][o].leader, o, work'[r][o].missing)
                      /\ \A m \in SUBSET Projection :
                            flights[<<o, m>>] # None => Leads(work', flights[<<o, m>>], o, m)
    BY DEF KeysOwned
  <1>1. \A r, m : Leads(work, r, o, m) => Leads(work', r, o, m)
    BY DEF Leads, RolesKept
  <1> QED
    BY <1>1 DEF FlightInv, KeysOwned, RolesKept, Leads

(* A chunk's step keeps them. *)
LEMMA KeysChunk ==
    ASSUME FlightInv, NEW r \in Request, NEW ch \in Chunks(r),
           StartChunk(r, ch) \/ RefuseChunk(r, ch) \/ ProviderReturns(r, ch)
    PROVE  KeysOwned'
  <1>1. UNCHANGED flights
    BY DEF StartChunk, RefuseChunk, ProviderReturns
  <1>2. /\ RolesKept /\ \A o \in ch : work[r][o].stage \in {"acquired", "calling"}
        /\ \A s \in Request, q \in Object : (s # r \/ q \notin ch) => work'[s][q] = work[s][q]
    BY ChunkMoves
  <1>3. \A s \in Request, o \in Object :
           work'[s][o].stage # "applied" => work[s][o].stage # "applied"
    BY <1>2
  <1> QED
    BY <1>1, <1>2, <1>3, KeysKept

(* The first half of complete and the followers' steps keep them. *)
LEMMA KeysItem ==
    ASSUME FlightInv, NEW r \in Request, NEW o \in Object,
           CloseCall(r, o) \/ FollowerWakes(r, o) \/ FollowerGivesUp(r, o)
    PROVE  KeysOwned'
  <1>1. UNCHANGED flights
    BY DEF CloseCall, FollowerWakes, FollowerGivesUp
  <1>2. /\ RolesKept /\ work[r][o].stage # "applied"
        /\ \A s \in Request, q \in Object : (s # r \/ q # o) => work'[s][q] = work[s][q]
    <2>1. RolesKept /\ \A s \in Request, q \in Object : (s # r \/ q # o) => work'[s][q] = work[s][q]
      BY ItemMoves
    <2>2. work[r][o].stage # "applied"
      BY DEF CloseCall, FollowerWakes, FollowerGivesUp
    <2> QED
      BY <2>1, <2>2
  <1>3. \A s \in Request, q \in Object :
           work'[s][q].stage # "applied" => work[s][q].stage # "applied"
    BY <1>2
  <1> QED
    BY <1>1, <1>2, <1>3, KeysKept

(* A key is released by the request that holds it. *)
LEMMA KeysReleased ==
    ASSUME FlightInv, NEW r \in Request, NEW o \in Object, ReleaseCall(r, o)
    PROVE  KeysOwned'
  <1> DEFINE m == work[r][o].missing
  <1>1. /\ RolesKept /\ work[r][o].role = "lead" /\ work[r][o].stage = "closed"
        /\ work'[r][o].stage = "applied"
        /\ \A s \in Request, q \in Object : (s # r \/ q # o) => work'[s][q] = work[s][q]
    BY ItemMoves DEF ReleaseCall
  <1>2. m \in SUBSET Projection /\ <<o, m>> \in Key
    BY WorkFields DEF FlightInv, TypeOK, Key
  <1>3. /\ flights' = [flights EXCEPT ![<<o, m>>] = None]
        /\ flights \in [Key -> Request \cup {None}]
    BY DEF ReleaseCall, ReleaseKey, FlightInv, TypeOK
  <1>4. flights[<<o, m>>] = r
    BY <1>1 DEF FlightInv, KeysOwned
  <1>5. ASSUME NEW q \in Object, NEW n \in SUBSET Projection
        PROVE  /\ <<q, n>> \in Key
               /\ flights'[<<q, n>>] = IF q = o /\ n = m THEN None ELSE flights[<<q, n>>]
    BY <1>2, <1>3 DEF Key
  <1>6. \A s, q, n : q \in Object /\ Leads(work, s, q, n) => Leads(work', s, q, n)
    BY <1>1 DEF Leads, RolesKept
  <1>7. ASSUME NEW q \in Object, NEW s \in Request,
               work'[s][q].role = "lead", work'[s][q].stage # "applied"
        PROVE  flights'[<<q, work'[s][q].missing>>] = s
    <2>1. /\ work'[s][q] = work[s][q] /\ (s # r \/ q # o)
          /\ work[s][q].missing \in SUBSET Projection
      BY <1>1, <1>7, WorkFields DEF FlightInv, TypeOK
    <2>2. flights[<<q, work[s][q].missing>>] = s
      BY <1>7, <2>1 DEF FlightInv, KeysOwned
    <2> QED
      BY <1>4, <1>5, <2>1, <2>2
  <1>8. ASSUME NEW q \in Object, NEW s \in Request, work'[s][q].role = "follow"
        PROVE  Leads(work', work'[s][q].leader, q, work'[s][q].missing)
    <2>1. /\ work[s][q].role = "follow" /\ work'[s][q].leader = work[s][q].leader
          /\ work'[s][q].missing = work[s][q].missing
      BY <1>1, <1>8 DEF RolesKept
    <2>2. Leads(work, work[s][q].leader, q, work[s][q].missing)
      BY <2>1 DEF FlightInv, KeysOwned
    <2> QED
      BY <1>6, <2>1, <2>2
  <1>9. ASSUME NEW q \in Object, NEW n \in SUBSET Projection, flights'[<<q, n>>] # None
        PROVE  Leads(work', flights'[<<q, n>>], q, n)
    <2>1. flights'[<<q, n>>] = flights[<<q, n>>] /\ Leads(work, flights[<<q, n>>], q, n)
      BY <1>5, <1>9 DEF FlightInv, KeysOwned
    <2> QED
      BY <1>6, <2>1 DEF Leads
  <1> QED
    BY <1>7, <1>8, <1>9 DEF KeysOwned, Leads

(* Acquire hands a free key to its leader, and a key in use to a follower. *)
LEMMA KeysPrepared ==
    ASSUME FlightInv, NEW r \in Request, NEW o \in Object,
           PrepareDirect(r, o) \/ PrepareFlight(r, o)
    PROVE  KeysOwned'
  <1>0. TypeOK
    BY DEF FlightInv
  <1>1. work[r][o].role = "none"
    BY NoWorkFields DEF FlightInv, Untouched, PrepareDirect, PrepareFlight
  <1>2. \A s \in Request, q \in Object : (s # r \/ q # o) => work'[s][q] = work[s][q]
    BY <1>0, Answered, Prepared
  <1>3. \A s, q, n : q \in Object /\ Leads(work, s, q, n) => Leads(work', s, q, n)
    BY <1>1, <1>2 DEF Leads
  <1>4. CASE PrepareDirect(r, o)
    <2>1. work'[r][o].role = "direct" /\ UNCHANGED flights
      BY <1>0, <1>4, Answered DEF PrepareDirect
    <2>2. ASSUME NEW q \in Object, NEW s \in Request, work'[s][q].role \in {"lead", "follow"}
          PROVE  work'[s][q] = work[s][q]
      BY <1>2, <2>1, <2>2
    <2>3. ASSUME NEW q \in Object, NEW s \in Request
          PROVE  /\ work'[s][q].role = "lead" /\ work'[s][q].stage # "applied" =>
                        flights'[<<q, work'[s][q].missing>>] = s
                 /\ work'[s][q].role = "follow" =>
                        Leads(work', work'[s][q].leader, q, work'[s][q].missing)
      <3>1. /\ work[s][q].role = "lead" /\ work[s][q].stage # "applied" =>
                  flights[<<q, work[s][q].missing>>] = s
            /\ work[s][q].role = "follow" => Leads(work, work[s][q].leader, q, work[s][q].missing)
        BY DEF FlightInv, KeysOwned
      <3> QED
        BY <1>3, <2>1, <2>2, <3>1
    <2>4. ASSUME NEW q \in Object, NEW n \in SUBSET Projection, flights'[<<q, n>>] # None
          PROVE  Leads(work', flights'[<<q, n>>], q, n)
      BY <1>3, <2>1, <2>4 DEF FlightInv, KeysOwned, Leads
    <2> QED
      BY <2>3, <2>4 DEF KeysOwned, Leads
  <1>5. CASE PrepareFlight(r, o)
    <2> DEFINE m == Missing(r, o)
    <2>1. /\ m \in SUBSET Projection /\ <<o, m>> \in Key
          /\ work'[r][o].missing = m /\ work'[r][o].stage = "acquired"
          /\ \/ /\ flights[<<o, m>>] = None /\ work'[r][o].role = "lead"
                /\ flights' = [flights EXCEPT ![<<o, m>>] = r]
             \/ /\ flights[<<o, m>>] \in Request /\ work'[r][o].role = "follow"
                /\ work'[r][o].leader = flights[<<o, m>>] /\ flights' = flights
      BY <1>0, <1>5, Prepared
    <2>2. None \notin Request
      BY FetchAssumption DEF FetchAssumption
    <2> HIDE DEF m
    <2>3. CASE work'[r][o].role = "follow"
      <3>1. flights[<<o, m>>] # None /\ Leads(work, flights[<<o, m>>], o, m)
        BY <2>1, <2>2, <2>3 DEF FlightInv, KeysOwned
      <3>2. /\ work'[r][o].leader = flights[<<o, m>>] /\ flights' = flights
            /\ Leads(work', work'[r][o].leader, o, work'[r][o].missing)
        BY <1>3, <2>1, <2>3, <3>1 DEF Leads
      <3>3. ASSUME NEW q \in Object, NEW s \in Request
            PROVE  /\ work'[s][q].role = "lead" /\ work'[s][q].stage # "applied" =>
                          flights'[<<q, work'[s][q].missing>>] = s
                   /\ work'[s][q].role = "follow" =>
                          Leads(work', work'[s][q].leader, q, work'[s][q].missing)
        <4>1. CASE s = r /\ q = o
          BY <2>3, <3>2, <4>1
        <4>2. CASE s # r \/ q # o
          <5>1. /\ work[s][q].role = "lead" /\ work[s][q].stage # "applied" =>
                      flights[<<q, work[s][q].missing>>] = s
                /\ work[s][q].role = "follow" => Leads(work, work[s][q].leader, q, work[s][q].missing)
            BY DEF FlightInv, KeysOwned
          <5> QED
            BY <1>2, <1>3, <3>2, <4>2, <5>1
        <4> QED
          BY <4>1, <4>2
      <3>4. ASSUME NEW q \in Object, NEW n \in SUBSET Projection, flights'[<<q, n>>] # None
            PROVE  Leads(work', flights'[<<q, n>>], q, n)
        BY <1>3, <3>2, <3>4 DEF FlightInv, KeysOwned, Leads
      <3> QED
        BY <3>3, <3>4 DEF KeysOwned, Leads
    <2>4. CASE work'[r][o].role = "lead"
      <3>1. /\ flights[<<o, m>>] = None /\ flights' = [flights EXCEPT ![<<o, m>>] = r]
            /\ flights \in [Key -> Request \cup {None}]
        BY <1>0, <2>1, <2>4 DEF TypeOK
      <3>2. ASSUME NEW q \in Object, NEW n \in SUBSET Projection
            PROVE  flights'[<<q, n>>] = IF q = o /\ n = m THEN r ELSE flights[<<q, n>>]
        BY <2>1, <3>1 DEF Key
      <3>3. ASSUME NEW q \in Object, NEW s \in Request
            PROVE  /\ work'[s][q].role = "lead" /\ work'[s][q].stage # "applied" =>
                          flights'[<<q, work'[s][q].missing>>] = s
                   /\ work'[s][q].role = "follow" =>
                          Leads(work', work'[s][q].leader, q, work'[s][q].missing)
        <4>1. CASE s = r /\ q = o
          BY <2>1, <2>4, <3>2, <4>1
        <4>2. CASE s # r \/ q # o
          <5>1. work'[s][q] = work[s][q] /\ work[s][q].missing \in SUBSET Projection
            BY <1>0, <1>2, <4>2, WorkFields DEF TypeOK
          <5>2. ASSUME work[s][q].role = "lead", work[s][q].stage # "applied"
                PROVE  flights'[<<q, work[s][q].missing>>] = s
            <6>1. flights[<<q, work[s][q].missing>>] = s
              BY <5>2 DEF FlightInv, KeysOwned
            <6> QED
              BY <2>2, <3>1, <3>2, <5>1, <6>1
          <5> QED
            BY <1>3, <5>1, <5>2 DEF FlightInv, KeysOwned, Leads
        <4> QED
          BY <4>1, <4>2
      <3>4. ASSUME NEW q \in Object, NEW n \in SUBSET Projection, flights'[<<q, n>>] # None
            PROVE  Leads(work', flights'[<<q, n>>], q, n)
        <4>1. CASE q = o /\ n = m
          BY <2>1, <2>4, <3>2, <4>1 DEF Leads
        <4>2. CASE ~(q = o /\ n = m)
          BY <1>3, <3>2, <3>4, <4>2 DEF FlightInv, KeysOwned, Leads
        <4> QED
          BY <4>1, <4>2
      <3> QED
        BY <3>3, <3>4 DEF KeysOwned, Leads
    <2> QED
      BY <2>1, <2>3, <2>4
  <1> QED
    BY <1>4, <1>5

(* Items not yet prepared are left alone. *)
LEMMA UntouchedNext ==
    ASSUME FlightInv, [Next]_vars
    PROVE  Untouched'
  <1>0. TypeOK /\ Untouched
    BY DEF FlightInv
  <1>1. ASSUME NEW r \in Request,
               Begin(r) \/ Launch(r) \/ WriteBack(r) \/ Expire(r) \/ UNCHANGED vars
        PROVE  Untouched'
    <2>1. UNCHANGED work
      BY <1>1 DEF Begin, Launch, WriteBack, Expire, vars
    <2>2. ASSUME NEW s \in Request, NEW q \in Object, q \in todo'[s] \/ pc'[s] = "start"
          PROVE  q \in todo[s] \/ pc[s] = "start"
      BY <1>0, <1>1, <2>2 DEF Begin, Launch, WriteBack, Expire, vars, TypeOK
    <2> QED
      BY <1>0, <2>1, <2>2 DEF Untouched
  <1>2. ASSUME NEW r \in Request, NEW o \in Object, PrepareDirect(r, o) \/ PrepareFlight(r, o)
        PROVE  Untouched'
    <2>1. /\ \A s \in Request, q \in Object : (s # r \/ q # o) => work'[s][q] = work[s][q]
          /\ pc' = pc /\ pc[r] = "prepare" /\ todo' = [todo EXCEPT ![r] = @ \ {o}]
      <3>1. \A s \in Request, q \in Object : (s # r \/ q # o) => work'[s][q] = work[s][q]
        BY <1>0, <1>2, Answered, Prepared
      <3>2. pc' = pc /\ pc[r] = "prepare" /\ todo' = [todo EXCEPT ![r] = @ \ {o}]
        BY <1>2 DEF PrepareDirect, PrepareFlight
      <3> QED
        BY <3>1, <3>2
    <2>2. ASSUME NEW s \in Request, NEW q \in Object, q \in todo'[s] \/ pc'[s] = "start"
          PROVE  (s # r \/ q # o) /\ (q \in todo[s] \/ pc[s] = "start")
      BY <1>0, <2>1, <2>2 DEF TypeOK
    <2> QED
      BY <1>0, <2>1, <2>2 DEF Untouched
  <1>3. ASSUME RolesKept, UNCHANGED <<todo, pc>>,
               \A s \in Request, q \in Object : work'[s][q] # work[s][q] => work[s][q].role # "none"
        PROVE  Untouched'
    BY <1>0, <1>3, NoWorkFields DEF Untouched
  <1>4. ASSUME NEW r \in Request, NEW ch \in Chunks(r),
               StartChunk(r, ch) \/ RefuseChunk(r, ch) \/ ProviderReturns(r, ch)
        PROVE  Untouched'
    <2>1. UNCHANGED <<todo, pc>>
      BY <1>4 DEF StartChunk, RefuseChunk, ProviderReturns
    <2>2. /\ RolesKept /\ \A o \in ch : work[r][o].role = "lead"
          /\ \A s \in Request, q \in Object : (s # r \/ q \notin ch) => work'[s][q] = work[s][q]
      BY <1>4, ChunkMoves
    <2> QED
      BY <1>3, <2>1, <2>2
  <1>5. ASSUME NEW r \in Request, NEW o \in Object,
               \/ CloseCall(r, o) \/ ReleaseCall(r, o)
               \/ FollowerWakes(r, o) \/ FollowerGivesUp(r, o)
        PROVE  Untouched'
    <2>1. UNCHANGED <<todo, pc>>
      BY <1>5 DEF CloseCall, ReleaseCall, FollowerWakes, FollowerGivesUp
    <2>2. /\ RolesKept /\ work[r][o].role \in {"lead", "follow"}
          /\ \A s \in Request, q \in Object : (s # r \/ q # o) => work'[s][q] = work[s][q]
      BY <1>5, ItemMoves
    <2> QED
      BY <1>3, <2>1, <2>2
  <1>6. CASE UNCHANGED vars
    BY <1>0, <1>6 DEF vars, Untouched
  <1> QED
    BY <1>1, <1>2, <1>4, <1>5, <1>6 DEF Next, Step

(* Chunks are made of leaders, whose role never changes. *)
LEMMA LeadersNext ==
    ASSUME FlightInv, [Next]_vars
    PROVE  LeadersLead'
  <1>0. TypeOK /\ LeadersLead
    BY DEF FlightInv
  <1>1. ASSUME UNCHANGED lead,
               \A s \in Request, q \in Object : work[s][q].role = "lead" => work'[s][q].role = "lead"
        PROVE  LeadersLead'
    <2>1. ASSUME NEW s \in Request, NEW i \in DOMAIN lead[s] PROVE work'[s][lead[s][i]].role = "lead"
      <3>1. lead[s][i] \in Object /\ work[s][lead[s][i]].role = "lead"
        BY <1>0 DEF LeadersLead, TypeOK
      <3> QED
        BY <1>1, <3>1
    <2> QED
      BY <1>1, <2>1 DEF LeadersLead
  <1>2. CASE UNCHANGED <<lead, work>>
    BY <1>1, <1>2
  <1>3. ASSUME NEW r \in Request, NEW o \in Object, PrepareDirect(r, o)
        PROVE  LeadersLead'
    <2>1. UNCHANGED lead /\ work[r][o].role = "none"
      BY <1>3, NoWorkFields DEF PrepareDirect, FlightInv, Untouched
    <2> QED
      BY <1>0, <1>1, <1>3, <2>1, Answered
  <1>4. ASSUME NEW r \in Request, NEW o \in Object, PrepareFlight(r, o)
        PROVE  LeadersLead'
    <2>1. /\ work[r][o].role = "none"
          /\ \A s \in Request, q \in Object : (s # r \/ q # o) => work'[s][q] = work[s][q]
          /\ \/ /\ work'[r][o].role = "lead" /\ lead' = [lead EXCEPT ![r] = Append(lead[r], o)]
             \/ UNCHANGED lead
      BY <1>0, <1>4, NoWorkFields, Prepared DEF PrepareFlight, FlightInv, Untouched
    <2>2. \A s \in Request, q \in Object : work[s][q].role = "lead" => work'[s][q].role = "lead"
      BY <2>1
    <2>3. CASE work'[r][o].role = "lead" /\ lead' = [lead EXCEPT ![r] = Append(lead[r], o)]
      <3>1. ASSUME NEW s \in Request, NEW i \in DOMAIN lead'[s]
            PROVE  work'[s][lead'[s][i]].role = "lead"
        <4>1. CASE s = r
          <5>1. lead'[s] = Append(lead[r], o) /\ lead[r] \in Seq(Object)
            BY <1>0, <2>3, <4>1 DEF TypeOK
          <5>2. CASE i \in DOMAIN lead[r]
            <6>1. lead'[s][i] = lead[r][i] /\ lead[r][i] \in Object
              BY <5>1, <5>2
            <6> QED
              BY <1>0, <2>2, <4>1, <5>2, <6>1 DEF LeadersLead
          <5>3. CASE i \notin DOMAIN lead[r]
            <6>1. lead'[s][i] = o
              BY <5>1, <5>3
            <6> QED
              BY <2>3, <4>1, <6>1
          <5> QED
            BY <5>2, <5>3
        <4>2. CASE s # r
          <5>1. lead'[s] = lead[s] /\ lead[s] \in Seq(Object)
            BY <1>0, <2>3, <4>2 DEF TypeOK
          <5>2. lead[s][i] \in Object
            BY <5>1
          <5> QED
            BY <1>0, <2>2, <5>1, <5>2 DEF LeadersLead
        <4> QED
          BY <4>1, <4>2
      <3> QED
        BY <3>1 DEF LeadersLead
    <2> QED
      BY <1>1, <2>1, <2>2, <2>3
  <1>5. ASSUME UNCHANGED lead, RolesKept PROVE LeadersLead'
    BY <1>1, <1>5 DEF RolesKept
  <1>6. ASSUME NEW r \in Request, Begin(r) \/ Launch(r) \/ WriteBack(r) \/ Expire(r) PROVE LeadersLead'
    BY <1>2, <1>6 DEF Begin, Launch, WriteBack, Expire
  <1>7. ASSUME NEW r \in Request, NEW ch \in Chunks(r),
               StartChunk(r, ch) \/ RefuseChunk(r, ch) \/ ProviderReturns(r, ch)
        PROVE  LeadersLead'
    <2>1. UNCHANGED lead
      BY <1>7 DEF StartChunk, RefuseChunk, ProviderReturns
    <2> QED
      BY <1>5, <1>7, <2>1, ChunkMoves
  <1>8. ASSUME NEW r \in Request, NEW o \in Object,
               \/ CloseCall(r, o) \/ ReleaseCall(r, o)
               \/ FollowerWakes(r, o) \/ FollowerGivesUp(r, o)
        PROVE  LeadersLead'
    <2>1. UNCHANGED lead
      BY <1>8 DEF CloseCall, ReleaseCall, FollowerWakes, FollowerGivesUp
    <2> QED
      BY <1>5, <1>8, <2>1, ItemMoves
  <1>9. CASE UNCHANGED vars
    BY <1>2, <1>9 DEF vars
  <1> QED
    BY <1>3, <1>4, <1>6, <1>7, <1>8, <1>9 DEF Next, Step

(* Values and stages move together. *)
LEMMA StagesNext ==
    ASSUME FlightInv, [Next]_vars
    PROVE  Stages'
  <1>0. TypeOK /\ \A s \in Request, q \in Object : Staged(work[s][q])
    BY DEF FlightInv, Stages
  <1>1. SUFFICES \A s \in Request, q \in Object : Staged(work'[s][q])
    BY DEF Stages
  <1>2. CASE UNCHANGED work
    BY <1>0, <1>2
  <1>3. ASSUME NEW r \in Request, NEW o \in Object, PrepareDirect(r, o)
        PROVE  \A s \in Request, q \in Object : Staged(work'[s][q])
    <2>1. Staged(work'[r][o])
      BY <1>0, <1>3, Answered DEF Staged
    <2> QED
      BY <1>0, <1>3, <2>1, Answered
  <1>4. ASSUME NEW r \in Request, NEW o \in Object, PrepareFlight(r, o)
        PROVE  \A s \in Request, q \in Object : Staged(work'[s][q])
    <2>1. work'[r][o].stage = "acquired" /\ work'[r][o].val = "none" /\ work'[r][o].role \in {"lead", "follow"}
      BY <1>0, <1>4, Prepared
    <2>2. Staged(work'[r][o])
      BY <2>1 DEF Staged
    <2>3. \A s \in Request, q \in Object : (s # r \/ q # o) => work'[s][q] = work[s][q]
      BY <1>0, <1>4, Prepared
    <2> QED
      BY <1>0, <2>2, <2>3
  <1>5. ASSUME NEW r \in Request, NEW ch \in Chunks(r),
               StartChunk(r, ch) \/ RefuseChunk(r, ch) \/ ProviderReturns(r, ch)
        PROVE  \A s \in Request, q \in Object : Staged(work'[s][q])
    <2>1. /\ \A o \in ch : work[r][o].role = "lead" /\ work'[r][o].role = work[r][o].role
          /\ \A s \in Request, q \in Object : (s # r \/ q \notin ch) => work'[s][q] = work[s][q]
      BY <1>5, ChunkMoves DEF RolesKept
    <2>2. \A o \in ch : \/ work'[r][o].stage = "calling" /\ work'[r][o].val = "none"
                        \/ /\ work'[r][o].stage = "settled"
                           /\ work'[r][o].val \in {"valid", "failed", "budget"}
      BY <1>5, ChunkMoves
    <2>3. \A o \in ch : Staged(work'[r][o])
      BY <2>1, <2>2 DEF Staged
    <2> QED
      BY <1>0, <2>1, <2>3
  <1>6. ASSUME NEW r \in Request, NEW o \in Object,
               \/ CloseCall(r, o) \/ ReleaseCall(r, o)
               \/ FollowerWakes(r, o) \/ FollowerGivesUp(r, o)
        PROVE  \A s \in Request, q \in Object : Staged(work'[s][q])
    <2>1. /\ work'[r][o].role = work[r][o].role
          /\ \A s \in Request, q \in Object : (s # r \/ q # o) => work'[s][q] = work[s][q]
      BY <1>6, ItemMoves DEF RolesKept
    <2>2. \/ /\ work[r][o].role = "lead" /\ work'[r][o].stage = "closed"
             /\ work'[r][o].val \in {"ok", "failed", "budget", "overdrawn"}
          \/ /\ work[r][o].role = "lead" /\ work[r][o].stage = "closed"
             /\ work'[r][o].stage = "applied" /\ work'[r][o].val = work[r][o].val
          \/ work[r][o].role = "follow" /\ work'[r][o].stage = "applied"
      BY <1>6, ItemMoves
    <2>3. Staged(work'[r][o])
      BY <1>0, <2>1, <2>2 DEF Staged
    <2> QED
      BY <1>0, <2>1, <2>3
  <1>7. ASSUME NEW r \in Request, Begin(r) \/ Launch(r) \/ WriteBack(r) \/ Expire(r) PROVE UNCHANGED work
    BY <1>7 DEF Begin, Launch, WriteBack, Expire
  <1>8. CASE UNCHANGED vars
    BY <1>2, <1>8 DEF vars
  <1> QED
    BY <1>2, <1>3, <1>4, <1>5, <1>6, <1>7, <1>8 DEF Next, Step

(* Every step keeps the keys where they belong. *)
LEMMA KeysNext ==
    ASSUME FlightInv, [Next]_vars
    PROVE  KeysOwned'
  <1>1. CASE UNCHANGED <<work, flights>>
    <2>1. RolesKept
      BY <1>1 DEF RolesKept
    <2> QED
      BY <1>1, <2>1, KeysKept
  <1>2. ASSUME NEW r \in Request, Begin(r) \/ Launch(r) \/ WriteBack(r) \/ Expire(r)
        PROVE  UNCHANGED <<work, flights>>
    BY <1>2 DEF Begin, Launch, WriteBack, Expire
  <1>3. CASE UNCHANGED vars
    BY <1>1, <1>3 DEF vars
  <1> QED
    BY <1>1, <1>2, <1>3, KeysPrepared, KeysChunk, KeysItem, KeysReleased DEF Next, Step

(* The flights start empty. *)
LEMMA FlightInit == Init => FlightInv
  <1> SUFFICES ASSUME Init PROVE FlightInv
    OBVIOUS
  <1>1. TypeOK
    BY TypeInit
  <1>2. /\ \A r \in Request, o \in Object : work[r][o] = NoWork
        /\ \A o \in Object, m \in SUBSET Projection : flights[<<o, m>>] = None
    BY DEF Init, Key
  <1>3. Untouched
    BY <1>2 DEF Untouched
  <1>4. LeadersLead
    BY DEF Init, LeadersLead
  <1>5. Stages
    BY <1>2, NoWorkFields DEF Stages, Staged
  <1>6. KeysOwned
    BY <1>2, NoWorkFields DEF KeysOwned
  <1> QED
    BY <1>1, <1>3, <1>4, <1>5, <1>6 DEF FlightInv

\* Every step keeps the invariant.
LEMMA FlightNext == FlightInv /\ [Next]_vars => FlightInv'
  BY TypeNext, UntouchedNext, LeadersNext, StagesNext, KeysNext DEF FlightInv

(* Acquire, the two halves of complete and the waiting followers keep the     *)
(* flights in order.                                                         *)
LEMMA FlightsInOrder == Spec => []FlightInv
  BY FlightInit, FlightNext, PTL DEF Spec

(* Two requests that are both waiting for the provider with the same item    *)
(* have led the same key, which has one leader at a time: the provider is    *)
(* never asked for the same object and projections twice at once.            *)
THEOREM OneCallPerKey == Spec => []OneFlightPerKey
  <1>1. FlightInv => OneFlightPerKey
    <2> SUFFICES ASSUME FlightInv, NEW r \in Request, NEW s \in Request, NEW o \in Object,
                        work[r][o].stage = "calling", work[s][o].stage = "calling",
                        work[r][o].missing = work[s][o].missing
                 PROVE  r = s
      BY DEF OneFlightPerKey
    <2>1. work[r][o].role = "lead" /\ work[s][o].role = "lead"
      BY DEF FlightInv, Stages, Staged
    <2>2. flights[<<o, work[r][o].missing>>] = r /\ flights[<<o, work[s][o].missing>>] = s
      BY <2>1 DEF FlightInv, KeysOwned
    <2> QED
      BY <2>2
  <1> QED
    BY <1>1, FlightsInOrder, PTL

----------------------------------------------------------------------------
(* Results. *)

(* No request loses a projection it has, once it has read the session. *)
LEMMA LocalGrows ==
    ASSUME TypeOK, [Next]_vars
    PROVE  \A s \in Request, q \in Object : pc[s] # "start" => local[s][q] \subseteq local'[s][q]
  <1>1. CASE UNCHANGED local
    BY <1>1
  <1>2. ASSUME NEW r \in Request, Begin(r)
        PROVE  \A s \in Request, q \in Object : pc[s] # "start" => local[s][q] \subseteq local'[s][q]
    BY <1>2 DEF Begin, TypeOK
  <1>3. ASSUME NEW r \in Request, NEW o \in Object, ReleaseCall(r, o) \/ FollowerWakes(r, o)
        PROVE  \A s \in Request, q \in Object : pc[s] # "start" => local[s][q] \subseteq local'[s][q]
    <2>1. \E val : Apply(r, o, val)
      BY <1>3 DEF ReleaseCall, FollowerWakes
    <2> QED
      BY <2>1, AppliedLocal
  <1>4. ASSUME NEW r \in Request, Launch(r) \/ WriteBack(r) \/ Expire(r) PROVE UNCHANGED local
    BY <1>4 DEF Launch, WriteBack, Expire
  <1>5. ASSUME NEW r \in Request, NEW o \in Object,
               PrepareDirect(r, o) \/ PrepareFlight(r, o) \/ CloseCall(r, o) \/ FollowerGivesUp(r, o)
        PROVE  UNCHANGED local
    BY <1>5 DEF PrepareDirect, PrepareFlight, CloseCall, FollowerGivesUp
  <1>6. ASSUME NEW r \in Request, NEW ch \in Chunks(r),
               StartChunk(r, ch) \/ RefuseChunk(r, ch) \/ ProviderReturns(r, ch)
        PROVE  UNCHANGED local
    BY <1>6 DEF StartChunk, RefuseChunk, ProviderReturns
  <1>7. CASE UNCHANGED vars
    BY <1>1, <1>7 DEF vars
  <1> QED
    BY <1>1, <1>2, <1>3, <1>4, <1>5, <1>6, <1>7 DEF Next, Step

(* A request that gets more is still supplied. *)
LEMMA StillSupplied ==
    ASSUME NEW w, NEW l, NEW l2, NEW want, Supplied(w, l, want), l \subseteq l2
    PROVE  Supplied(w, l2, want)
  BY DEF Supplied

(* A step leaves every item supplied. *)
LEMMA CoveredNext ==
    ASSUME FlightInv, Covered, [Next]_vars
    PROVE  Covered'
  <1>0. /\ TypeOK /\ \A s \in Request, q \in Object : Supplied(work[s][q], local[s][q], Wanted[s][q])
        /\ \A s \in Request, q \in Object : pc[s] # "start" => local[s][q] \subseteq local'[s][q]
    BY LocalGrows DEF FlightInv, Covered
  <1>1. SUFFICES ASSUME NEW s \in Request, NEW q \in Object
                 PROVE  Supplied(work'[s][q], local'[s][q], Wanted[s][q])
    BY DEF Covered
  <1>2. CASE work'[s][q] = work[s][q]
    <2>1. CASE pc[s] = "start"
      <3>1. work[s][q].role = "none" /\ work[s][q].val = "none"
        BY <2>1, NoWorkFields DEF FlightInv, Untouched
      <3> QED
        BY <1>2, <3>1 DEF Supplied
    <2>2. CASE pc[s] # "start"
      BY <1>0, <1>2, <2>2, StillSupplied
    <2> QED
      BY <2>1, <2>2
  <1>3. CASE PrepareDirect(s, q)
    <2>1. local' = local
      BY <1>3 DEF PrepareDirect
    <2> QED
      BY <1>0, <1>3, <2>1, Answered DEF Supplied
  <1>4. CASE PrepareFlight(s, q)
    <2>1. local' = local
      BY <1>4 DEF PrepareFlight
    <2>2. /\ work'[s][q].missing = Missing(s, q)
          /\ work'[s][q].stage = "acquired" /\ work'[s][q].val = "none"
      BY <1>0, <1>4, Prepared
    <2> QED
      BY <2>1, <2>2 DEF Supplied, Missing
  <1>5. ASSUME NEW ch \in Chunks(s), q \in ch,
               StartChunk(s, ch) \/ RefuseChunk(s, ch) \/ ProviderReturns(s, ch)
        PROVE  Supplied(work'[s][q], local'[s][q], Wanted[s][q])
    <2>1. local' = local
      BY <1>5 DEF StartChunk, RefuseChunk, ProviderReturns
    <2>2. work'[s][q].role = work[s][q].role /\ work'[s][q].missing = work[s][q].missing
      BY <1>5, ChunkMoves DEF RolesKept
    <2>3. work'[s][q].val \in {"none", "valid", "failed", "budget"}
      BY <1>5, ChunkMoves
    <2> QED
      BY <1>0, <2>1, <2>2, <2>3 DEF Supplied
  <1>6. CASE CloseCall(s, q) \/ ReleaseCall(s, q) \/ FollowerWakes(s, q) \/ FollowerGivesUp(s, q)
    <2>1. /\ work'[s][q].role = work[s][q].role /\ work'[s][q].missing = work[s][q].missing
          /\ work[s][q].role \in {"lead", "follow"}
      BY <1>6, ItemMoves DEF RolesKept
    <2>2. pc[s] # "start" /\ local[s][q] \subseteq local'[s][q]
      BY <1>0, <2>1, NoWorkFields DEF FlightInv, Untouched
    <2>3. \/ /\ work'[s][q].stage = "closed"
             /\ work'[s][q].val \in {"ok", "failed", "budget", "overdrawn"}
          \/ /\ work'[s][q].stage = "applied" /\ Apply(s, q, work'[s][q].val)
             /\ work'[s][q].val \in {"ok", "failed", "budget", "overdrawn"}
          \/ work'[s][q].val = "cancelled"
      <3>1. \/ /\ work'[s][q].stage = "closed"
               /\ work'[s][q].val \in {"ok", "failed", "budget", "overdrawn"}
            \/ /\ ReleaseCall(s, q) /\ work[s][q].role = "lead" /\ work[s][q].stage = "closed"
               /\ work'[s][q].stage = "applied" /\ work'[s][q].val = work[s][q].val
            \/ /\ FollowerWakes(s, q) /\ work'[s][q].stage = "applied"
               /\ work'[s][q].val = CallOf(s, q).val
               /\ CallOf(s, q).val \in {"ok", "failed", "budget", "overdrawn"}
            \/ work'[s][q].val = "cancelled"
        BY <1>6, ItemMoves
      <3>2. work[s][q].role = "lead" /\ work[s][q].stage = "closed" =>
               work[s][q].val \in {"ok", "failed", "budget", "overdrawn"}
        BY DEF FlightInv, Stages, Staged
      <3> QED
        BY <3>1, <3>2 DEF ReleaseCall, FollowerWakes
    <2>4. work'[s][q].stage = "applied" /\ work'[s][q].val = "ok" =>
             work[s][q].missing \subseteq local'[s][q]
      BY <1>0, <2>3, AppliedLocal
    <2> QED
      BY <1>0, <2>1, <2>2, <2>3, <2>4 DEF Supplied
  <1>7. ASSUME work'[s][q] # work[s][q]
        PROVE  \/ PrepareDirect(s, q) \/ PrepareFlight(s, q)
               \/ CloseCall(s, q) \/ ReleaseCall(s, q) \/ FollowerWakes(s, q) \/ FollowerGivesUp(s, q)
               \/ \E ch \in Chunks(s) : /\ q \in ch
                                        /\ \/ StartChunk(s, ch) \/ RefuseChunk(s, ch)
                                           \/ ProviderReturns(s, ch)
    <2>0. ~UNCHANGED vars
      BY <1>7 DEF vars
    <2>1. PICK r \in Request : Step(r) \/ Expire(r)
      BY <2>0 DEF Next
    <2>2. ~(Begin(r) \/ Launch(r) \/ WriteBack(r) \/ Expire(r))
      BY <1>7 DEF Begin, Launch, WriteBack, Expire
    <2>3. ASSUME NEW o \in Object, PrepareDirect(r, o) \/ PrepareFlight(r, o)
          PROVE  s = r /\ q = o
      <3>1. \A s2 \in Request, q2 \in Object : (s2 # r \/ q2 # o) => work'[s2][q2] = work[s2][q2]
        BY <1>0, <2>3, Answered, Prepared
      <3> QED
        BY <1>7, <3>1
    <2>4. ASSUME NEW o \in Object, CloseCall(r, o) \/ ReleaseCall(r, o) \/ FollowerWakes(r, o) \/ FollowerGivesUp(r, o)
          PROVE  s = r /\ q = o
      BY <1>7, <2>4, ItemMoves
    <2>5. ASSUME NEW ch \in Chunks(r), StartChunk(r, ch) \/ RefuseChunk(r, ch) \/ ProviderReturns(r, ch)
          PROVE  s = r /\ q \in ch
      BY <1>7, <2>5, ChunkMoves
    <2> QED
      BY <2>1, <2>2, <2>3, <2>4, <2>5 DEF Step
  <1> QED
    BY <1>2, <1>3, <1>4, <1>5, <1>6, <1>7

(* What the session held survives every step. *)
LEMMA KernelNext ==
    ASSUME TypeOK, Kernel, [Next]_vars
    PROVE  Kernel'
  <1>1. \A s \in Request, q \in Object : pc[s] # "start" => local[s][q] \subseteq local'[s][q]
    BY LocalGrows
  <1>2. CASE UNCHANGED <<artifacts, pc>>
    BY <1>1, <1>2 DEF Kernel
  <1>3. ASSUME NEW r \in Request, Begin(r) PROVE Kernel'
    BY <1>3 DEF Kernel, Begin, TypeOK
  <1>4. ASSUME NEW r \in Request, Launch(r) PROVE Kernel'
    BY <1>4 DEF Kernel, Launch, TypeOK
  <1>5. ASSUME NEW r \in Request, WriteBack(r) PROVE Kernel'
    BY <1>5 DEF Kernel, WriteBack, Written, TypeOK
  <1>6. ASSUME NEW r \in Request, Expire(r) PROVE UNCHANGED <<artifacts, pc>>
    BY <1>6 DEF Expire
  <1>7. ASSUME NEW r \in Request, NEW o \in Object,
               \/ PrepareDirect(r, o) \/ PrepareFlight(r, o) \/ CloseCall(r, o)
               \/ ReleaseCall(r, o) \/ FollowerWakes(r, o) \/ FollowerGivesUp(r, o)
        PROVE  UNCHANGED <<artifacts, pc>>
    BY <1>7 DEF PrepareDirect, PrepareFlight, CloseCall, ReleaseCall, FollowerWakes, FollowerGivesUp
  <1>8. ASSUME NEW r \in Request, NEW ch \in Chunks(r),
               StartChunk(r, ch) \/ RefuseChunk(r, ch) \/ ProviderReturns(r, ch)
        PROVE  UNCHANGED <<artifacts, pc>>
    BY <1>8 DEF StartChunk, RefuseChunk, ProviderReturns
  <1>9. CASE UNCHANGED vars
    BY <1>2, <1>9 DEF vars
  <1> QED
    BY <1>2, <1>3, <1>4, <1>5, <1>6, <1>7, <1>8, <1>9 DEF Next, Step

(* Whoever fetched it, an item reported without an error has all that was     *)
(* asked for, and no write-back loses what the session held at first.        *)
THEOREM ResultsAlwaysComplete == Spec => []ResultsComplete
  <1>1. Init => Covered /\ Kernel
    <2> SUFFICES ASSUME Init PROVE Covered /\ Kernel
      OBVIOUS
    <2>1. \A r \in Request, o \in Object : work[r][o].role = "none" /\ work[r][o].val = "none"
      BY NoWorkFields DEF Init
    <2> QED
      BY <2>1 DEF Init, Covered, Supplied, Kernel
  <1>2. FlightInv /\ Covered /\ Kernel /\ [Next]_vars => Covered' /\ Kernel'
    BY CoveredNext, KernelNext DEF FlightInv
  <1>3. Covered /\ Kernel => ResultsComplete
    BY DEF Covered, Supplied, Kernel, ResultsComplete
  <1> QED
    BY <1>1, <1>2, <1>3, FlightsInOrder, PTL DEF Spec

----------------------------------------------------------------------------
(* Budgets. *)

(* An item that was sent to the provider, and one whose artifact was kept. *)
IsSent(w) ==
    w.role = "lead" /\ (w.stage = "calling" \/ w.val \in {"valid", "ok", "failed", "overdrawn"})

\* Its artifact was accepted.
IsKept(w) == IsSent(w) /\ w.val = "ok"

(* The account of one ledger is settled. *)
PaidFor(a) ==
    /\ ledger[a].used["fetches"] = Cardinality(Sent(a))
    /\ ledger[a].used["bytes"] = Cardinality(Kept(a))
    /\ WithinBudget(ledger[a])

(* Sets of items are determined by the pairs in them. *)
LEMMA PairSets ==
    ASSUME NEW S \in SUBSET (Request \X Object), NEW T \in SUBSET (Request \X Object),
           \A s \in Request, q \in Object : <<s, q>> \in S <=> <<s, q>> \in T
    PROVE  S = T
  <1>1. ASSUME NEW x \in Request \X Object PROVE x \in S <=> x \in T
    <2>1. PICK s \in Request, q \in Object : x = <<s, q>>
      OBVIOUS
    <2> QED
      BY <2>1
  <1> QED
    BY <1>1

(* The items sent for a ledger's requests are finitely many. *)
LEMMA SentItems ==
    ASSUME NEW a
    PROVE  /\ Sent(a) \in SUBSET (Request \X Object) /\ Kept(a) \in SUBSET (Request \X Object)
           /\ \A s \in Request, q \in Object :
                  /\ <<s, q>> \in Sent(a) <=> Account[s] = a /\ IsSent(work[s][q])
                  /\ <<s, q>> \in Kept(a) <=> Account[s] = a /\ IsKept(work[s][q])
           /\ IsFiniteSet(Sent(a)) /\ IsFiniteSet(Kept(a))
           /\ Cardinality(Sent(a)) \in Nat /\ Cardinality(Kept(a)) \in Nat
  <1>1. IsFiniteSet(Request \X Object)
    BY FetchAssumption, FS_Product DEF FetchAssumption
  <1>2. /\ Sent(a) \in SUBSET (Request \X Object) /\ Kept(a) \in SUBSET (Request \X Object)
        /\ \A s \in Request, q \in Object :
              /\ <<s, q>> \in Sent(a) <=> Account[s] = a /\ IsSent(work[s][q])
              /\ <<s, q>> \in Kept(a) <=> Account[s] = a /\ IsKept(work[s][q])
    BY DEF Sent, Kept, IsSent, IsKept
  <1> QED
    BY <1>1, <1>2, FS_Subset, FS_CardinalityType

(* The same after a step. *)
LEMMA SentItemsNext ==
    ASSUME NEW a
    PROVE  /\ Sent(a)' \in SUBSET (Request \X Object) /\ Kept(a)' \in SUBSET (Request \X Object)
           /\ \A s \in Request, q \in Object :
                  /\ <<s, q>> \in Sent(a)' <=> Account[s] = a /\ IsSent(work'[s][q])
                  /\ <<s, q>> \in Kept(a)' <=> Account[s] = a /\ IsKept(work'[s][q])
  BY DEF Sent, Kept, IsSent, IsKept

(* Items that stay what they are leave the accounts of an unchanged ledger. *)
LEMMA PaidSame ==
    ASSUME NEW a, PaidFor(a), ledger'[a] = ledger[a],
           \A s \in Request, q \in Object : Account[s] = a =>
               /\ IsSent(work'[s][q]) <=> IsSent(work[s][q])
               /\ IsKept(work'[s][q]) <=> IsKept(work[s][q])
    PROVE  PaidFor(a)'
  <1>1. \A s \in Request, q \in Object : /\ <<s, q>> \in Sent(a)' <=> <<s, q>> \in Sent(a)
                                         /\ <<s, q>> \in Kept(a)' <=> <<s, q>> \in Kept(a)
    BY SentItems, SentItemsNext
  <1>2. Sent(a)' = Sent(a)
    BY <1>1, SentItems, SentItemsNext, PairSets
  <1>3. Kept(a)' = Kept(a)
    BY <1>1, SentItems, SentItemsNext, PairSets
  <1> QED
    BY <1>2, <1>3 DEF PaidFor

(* Launching a chunk is paid with its size. *)
LEMMA PaidStart ==
    ASSUME FlightInv, FetchesPaid, NEW r \in Request, NEW ch \in Chunks(r), StartChunk(r, ch)
    PROVE  FetchesPaid'
  <1> DEFINE b == Account[r]
             n == Cardinality(ch)
  <1>1. /\ TypeOK /\ b \in Ledgers /\ ch \in SUBSET Object /\ n \in Nat /\ IsFiniteSet(ch)
    BY ChunkMoves, ObjectSets DEF FlightInv, Ledgers
  <1>2. /\ \A s \in Request, q \in Object : (s # r \/ q \notin ch) => work'[s][q] = work[s][q]
        /\ RolesKept /\ \A o \in ch : work[r][o].role = "lead"
        /\ \A o \in ch : work[r][o].stage = "acquired"
    <2>1. \A o \in ch : work[r][o].stage = "acquired"
      BY DEF StartChunk
    <2> QED
      BY <2>1, ChunkMoves
  <1>3. \A o \in ch : ~IsSent(work[r][o])
    BY <1>1, <1>2 DEF IsSent, FlightInv, Stages, Staged
  <1>4. \A o \in ch : IsSent(work'[r][o]) /\ ~IsKept(work'[r][o])
    <2>1. SetChunk(r, ch, "calling", [o \in ch |-> "none"]) /\ [o \in ch |-> "none"] \in [ch -> Value]
      BY DEF StartChunk, Value
    <2>2. \A o \in ch : work'[r][o].stage = "calling" /\ work'[r][o].val = "none"
      BY <1>1, <2>1, SetChunkFrame
    <2> QED
      BY <1>1, <1>2, <2>2 DEF IsSent, IsKept, RolesKept
  <1>5. /\ ledger[b] \in Ledger /\ CanReserve(ledger[b], FetchCost(1, n))
        /\ ledger' = [ledger EXCEPT ![b] = Charge(ledger[b], FetchCost(1, n))]
    BY <1>1 DEF StartChunk, TypeOK
  <1> HIDE DEF b, n
  <1>6. /\ ledger'[b] = Charge(ledger[b], FetchCost(1, n))
        /\ WithinBudget(ledger'[b])
        /\ ledger'[b].used["fetches"] = ledger[b].used["fetches"] + n
        /\ ledger'[b].used["bytes"] = ledger[b].used["bytes"] + 0
    <2>1. ledger'[b] = Charge(ledger[b], FetchCost(1, n))
      BY <1>1, <1>5 DEF TypeOK
    <2> QED
      BY <1>1, <1>5, <2>1, Costs, ChargeFits
  <1>7. PaidFor(b)'
    <2> DEFINE X == {r} \X ch
    <2>1. Sent(b)' = Sent(b) \cup X
      <3>1. ASSUME NEW s \in Request, NEW q \in Object
            PROVE  IsSent(work'[s][q]) <=> IsSent(work[s][q]) \/ (s = r /\ q \in ch)
        BY <1>2, <1>4
      <3>2. \A s \in Request, q \in Object : <<s, q>> \in X <=> s = r /\ q \in ch
        OBVIOUS
      <3>3. Sent(b) \cup X \in SUBSET (Request \X Object) /\ Account[r] = b
        BY <1>1, SentItems DEF b
      <3>4. \A s \in Request, q \in Object : <<s, q>> \in Sent(b)' <=> <<s, q>> \in Sent(b) \cup X
        <4>1. ASSUME NEW s \in Request, NEW q \in Object
              PROVE  <<s, q>> \in Sent(b)' <=> <<s, q>> \in Sent(b) \/ <<s, q>> \in X
          <5>1. /\ <<s, q>> \in Sent(b)' <=> Account[s] = b /\ IsSent(work'[s][q])
                /\ <<s, q>> \in Sent(b) <=> Account[s] = b /\ IsSent(work[s][q])
            BY SentItems, SentItemsNext
          <5>2. <<s, q>> \in X <=> s = r /\ q \in ch
            BY <3>2
          <5>3. IsSent(work'[s][q]) <=> IsSent(work[s][q]) \/ (s = r /\ q \in ch)
            BY <3>1
          <5> HIDE DEF X
          <5> QED
            BY <3>3, <5>1, <5>2, <5>3
        <4> QED
          BY <4>1
      <3> QED
        BY <3>3, <3>4, SentItemsNext, PairSets
    <2>2. Sent(b) \cap X = {}
      BY <1>1, <1>3, SentItems
    <2>3. Kept(b)' = Kept(b)
      <3>1. \A s \in Request, q \in Object : IsKept(work'[s][q]) <=> IsKept(work[s][q])
        <4>1. ASSUME NEW s \in Request, NEW q \in Object PROVE IsKept(work'[s][q]) <=> IsKept(work[s][q])
          <5>1. CASE s = r /\ q \in ch
            <6>1. ~IsSent(work[r][q]) /\ ~IsKept(work'[r][q])
              BY <1>3, <1>4, <5>1
            <6> QED
              BY <5>1, <6>1 DEF IsKept
          <5>2. CASE s # r \/ q \notin ch
            BY <1>2, <5>2
          <5> QED
            BY <5>1, <5>2
        <4> QED
          BY <4>1
      <3>2. \A s \in Request, q \in Object : <<s, q>> \in Kept(b)' <=> <<s, q>> \in Kept(b)
        BY <3>1, SentItems, SentItemsNext
      <3>3. Kept(b) \in SUBSET (Request \X Object) /\ Kept(b)' \in SUBSET (Request \X Object)
        BY SentItems, SentItemsNext
      <3> QED
        BY <3>2, <3>3, PairSets
    <2>4. IsFiniteSet(X) /\ Cardinality(X) = n
      <3>1. IsFiniteSet({r}) /\ Cardinality({r}) = 1
        BY FS_Singleton
      <3>2. IsFiniteSet(X) /\ Cardinality(X) = 1 * Cardinality(ch)
        BY <1>1, <3>1, FS_Product
      <3> QED
        BY <1>1, <3>2 DEF n
    <2> HIDE DEF X
    <2>5. Cardinality(Sent(b)') = Cardinality(Sent(b)) + n
      <3>1. /\ IsFiniteSet(Sent(b)) /\ Cardinality(Sent(b)) \in Nat
            /\ Cardinality(Sent(b) \cap X) = 0
        BY <2>2, SentItems, FS_EmptySet
      <3>2. Cardinality(Sent(b) \cup X) = Cardinality(Sent(b)) + Cardinality(X) - Cardinality(Sent(b) \cap X)
        BY <2>4, <3>1, FS_Union
      <3> QED
        BY <1>1, <2>1, <2>4, <3>1, <3>2
    <2>6. /\ ledger[b].used["fetches"] = Cardinality(Sent(b))
          /\ ledger[b].used["bytes"] = Cardinality(Kept(b)) /\ Cardinality(Kept(b)) \in Nat
      BY <1>1, SentItems DEF FetchesPaid
    <2>7. /\ ledger'[b].used["fetches"] = Cardinality(Sent(b)')
          /\ ledger'[b].used["bytes"] = Cardinality(Kept(b)')
      BY <1>6, <2>3, <2>5, <2>6
    <2> QED
      BY <1>6, <2>7 DEF PaidFor
  <1>8. ASSUME NEW a \in Ledgers, a # b PROVE PaidFor(a)'
    <2>1. ledger'[a] = ledger[a] /\ PaidFor(a)
      BY <1>5, <1>8 DEF FetchesPaid, PaidFor, TypeOK
    <2>2. \A s \in Request : Account[s] = a => s # r
      BY <1>8 DEF b
    <2> QED
      BY <1>2, <2>1, <2>2, PaidSame
  <1>9. \A a \in Ledgers : PaidFor(a)'
    BY <1>7, <1>8
  <1> QED
    BY <1>9 DEF FetchesPaid, PaidFor

(* An accepted artifact is paid with its bytes, any other costs nothing more. *)
LEMMA PaidClose ==
    ASSUME FlightInv, FetchesPaid, NEW r \in Request, NEW o \in Object, CloseCall(r, o)
    PROVE  FetchesPaid'
  <1> DEFINE b == Account[r]
  <1>1. TypeOK /\ b \in Ledgers /\ ledger[b] \in Ledger
    BY DEF FlightInv, TypeOK, Ledgers
  <1>2. /\ \A s \in Request, q \in Object : (s # r \/ q # o) => work'[s][q] = work[s][q]
        /\ RolesKept /\ work[r][o].role = "lead" /\ work[r][o].stage = "settled"
        /\ work[r][o].val \in {"valid", "failed", "budget"}
    <2>1. work[r][o].role = "lead" /\ work[r][o].stage = "settled"
      BY DEF CloseCall
    <2> QED
      BY <2>1, ItemMoves DEF FlightInv, Stages, Staged
  <1>3. /\ work'[r][o].stage = "closed" /\ AddBytes(r, work[r][o].val, work'[r][o].val)
    BY <1>2, ItemMoves DEF ReleaseCall, FollowerWakes, FollowerGivesUp
  <1>4. ~IsKept(work[r][o]) /\ work'[r][o].role = "lead"
    BY <1>1, <1>2 DEF IsKept, RolesKept
  <1> HIDE DEF b
  <1>5. CASE work'[r][o].val # "ok"
    <2>1. /\ UNCHANGED ledger /\ ~IsKept(work'[r][o])
          /\ work'[r][o].val \in {"failed", "budget", "overdrawn"}
          /\ work'[r][o].val = "budget" <=> work[r][o].val = "budget"
      BY <1>2, <1>3, <1>5 DEF AddBytes, IsKept
    <2>2. IsSent(work'[r][o]) <=> IsSent(work[r][o])
      BY <1>2, <1>3, <1>4, <2>1 DEF IsSent
    <2>3. ASSUME NEW s \in Request, NEW q \in Object
          PROVE  /\ IsSent(work'[s][q]) <=> IsSent(work[s][q])
                 /\ IsKept(work'[s][q]) <=> IsKept(work[s][q])
      <3>1. CASE s = r /\ q = o
        BY <1>4, <2>1, <2>2, <3>1
      <3>2. CASE s # r \/ q # o
        BY <1>2, <3>2
      <3> QED
        BY <3>1, <3>2
    <2>4. ASSUME NEW a \in Ledgers PROVE PaidFor(a)'
      <3>1. PaidFor(a) /\ ledger'[a] = ledger[a]
        BY <2>1 DEF FetchesPaid, PaidFor
      <3> QED
        BY <2>3, <3>1, PaidSame
    <2> QED
      BY <2>4 DEF FetchesPaid, PaidFor
  <1>6. CASE work'[r][o].val = "ok"
    <2>1. /\ work[r][o].val = "valid" /\ CanReserve(ledger[b], ByteCost(1))
          /\ ledger' = [ledger EXCEPT ![b] = Charge(ledger[b], ByteCost(1))]
      BY <1>2, <1>3, <1>6 DEF AddBytes, b
    <2>2. /\ IsSent(work[r][o]) /\ IsSent(work'[r][o]) /\ IsKept(work'[r][o])
      BY <1>2, <1>4, <1>6, <2>1 DEF IsSent, IsKept
    <2>3. ASSUME NEW s \in Request, NEW q \in Object
          PROVE  /\ IsSent(work'[s][q]) <=> IsSent(work[s][q])
                 /\ IsKept(work'[s][q]) <=> IsKept(work[s][q]) \/ (s = r /\ q = o)
      <3>1. CASE s = r /\ q = o
        BY <2>2, <3>1
      <3>2. CASE s # r \/ q # o
        BY <1>2, <3>2
      <3> QED
        BY <3>1, <3>2
    <2>4. /\ ledger'[b] = Charge(ledger[b], ByteCost(1)) /\ WithinBudget(ledger'[b])
          /\ ledger'[b].used["fetches"] = ledger[b].used["fetches"] + 0
          /\ ledger'[b].used["bytes"] = ledger[b].used["bytes"] + 1
      <3>1. ledger'[b] = Charge(ledger[b], ByteCost(1))
        BY <1>1, <2>1 DEF TypeOK
      <3>2. ByteCost(1) \in [Dimension -> Int] /\ "fetches" \in Dimension /\ "bytes" \in Dimension
            /\ ByteCost(1)["fetches"] = 0 /\ ByteCost(1)["bytes"] = 1
        BY DEF ByteCost, Dimension
      <3> QED
        BY <1>1, <2>1, <3>1, <3>2, ChargeFits
    <2>5. PaidFor(b)'
      <3>1. Sent(b)' = Sent(b)
        <4>1. \A s \in Request, q \in Object : <<s, q>> \in Sent(b)' <=> <<s, q>> \in Sent(b)
          BY <2>3, SentItems, SentItemsNext
        <4> QED
          BY <4>1, SentItems, SentItemsNext, PairSets
      <3>2. Kept(b)' = Kept(b) \cup {<<r, o>>}
        <4>1. Kept(b) \cup {<<r, o>>} \in SUBSET (Request \X Object) /\ Account[r] = b
          BY SentItems DEF b
        <4>2. \A s \in Request, q \in Object :
                 <<s, q>> \in Kept(b)' <=> <<s, q>> \in Kept(b) \cup {<<r, o>>}
          BY <2>3, <4>1, SentItems, SentItemsNext
        <4> QED
          BY <4>1, <4>2, SentItemsNext, PairSets
      <3>3. <<r, o>> \notin Kept(b)
        BY <1>4, SentItems
      <3>4. Cardinality(Kept(b)') = Cardinality(Kept(b)) + 1
        BY <3>2, <3>3, SentItems, FS_AddElement
      <3>5. /\ ledger[b].used["fetches"] = Cardinality(Sent(b)) /\ Cardinality(Sent(b)) \in Nat
            /\ ledger[b].used["bytes"] = Cardinality(Kept(b))
        BY <1>1, SentItems DEF FetchesPaid
      <3>6. /\ ledger'[b].used["fetches"] = Cardinality(Sent(b)')
            /\ ledger'[b].used["bytes"] = Cardinality(Kept(b)')
        BY <2>4, <3>1, <3>4, <3>5
      <3> QED
        BY <2>4, <3>6 DEF PaidFor
    <2>6. ASSUME NEW a \in Ledgers, a # b PROVE PaidFor(a)'
      <3>1. ledger'[a] = ledger[a] /\ PaidFor(a)
        BY <1>1, <2>1, <2>6 DEF FetchesPaid, PaidFor, TypeOK
      <3>2. \A s \in Request : Account[s] = a => s # r
        BY <2>6 DEF b
      <3> QED
        BY <1>2, <3>1, <3>2, PaidSame
    <2>7. \A a \in Ledgers : PaidFor(a)'
      BY <2>5, <2>6
    <2> QED
      BY <2>7 DEF FetchesPaid, PaidFor
  <1> QED
    BY <1>5, <1>6

(* No other step is charged, or sends or keeps an item. *)
LEMMA PaidOther ==
    ASSUME FlightInv, FetchesPaid, UNCHANGED ledger,
           \A s \in Request, q \in Object :
               /\ IsSent(work'[s][q]) <=> IsSent(work[s][q])
               /\ IsKept(work'[s][q]) <=> IsKept(work[s][q])
    PROVE  FetchesPaid'
  <1>1. ASSUME NEW a \in Ledgers PROVE PaidFor(a)'
    <2>1. PaidFor(a) /\ ledger'[a] = ledger[a]
      BY DEF FetchesPaid, PaidFor
    <2> QED
      BY <2>1, PaidSame
  <1> QED
    BY <1>1 DEF FetchesPaid, PaidFor

\* Every step keeps the accounts.
LEMMA PaidNext == FlightInv /\ FetchesPaid /\ [Next]_vars => FetchesPaid'
  <1> SUFFICES ASSUME FlightInv, FetchesPaid, [Next]_vars PROVE FetchesPaid'
    OBVIOUS
  <1>0. TypeOK
    BY DEF FlightInv
  <1>1. CASE UNCHANGED <<ledger, work>>
    BY <1>1, PaidOther
  <1>2. ASSUME NEW r \in Request, NEW o \in Object, PrepareDirect(r, o) \/ PrepareFlight(r, o)
        PROVE  FetchesPaid'
    <2>1. /\ \A s \in Request, q \in Object : (s # r \/ q # o) => work'[s][q] = work[s][q]
          /\ \/ work'[r][o].role = "direct"
             \/ work'[r][o].stage = "acquired" /\ work'[r][o].val = "none"
      <3>1. CASE PrepareDirect(r, o)
        BY <1>0, <3>1, Answered
      <3>2. CASE PrepareFlight(r, o)
        BY <1>0, <3>2, Prepared
      <3> QED
        BY <1>2, <3>1, <3>2
    <2>2. UNCHANGED ledger /\ work[r][o].role = "none"
      BY <1>2, NoWorkFields DEF PrepareDirect, PrepareFlight, FlightInv, Untouched
    <2>3. /\ ~IsSent(work[r][o]) /\ ~IsKept(work[r][o])
          /\ ~IsSent(work'[r][o]) /\ ~IsKept(work'[r][o])
      BY <2>1, <2>2 DEF IsSent, IsKept
    <2>4. ASSUME NEW s \in Request, NEW q \in Object
          PROVE  /\ IsSent(work'[s][q]) <=> IsSent(work[s][q])
                 /\ IsKept(work'[s][q]) <=> IsKept(work[s][q])
      BY <2>1, <2>3
    <2> QED
      BY <2>2, <2>4, PaidOther
  <1>3. ASSUME NEW r \in Request, NEW ch \in Chunks(r), RefuseChunk(r, ch) \/ ProviderReturns(r, ch)
        PROVE  FetchesPaid'
    <2>1. /\ UNCHANGED ledger
          /\ \A s \in Request, q \in Object : (s # r \/ q \notin ch) => work'[s][q] = work[s][q]
          /\ \A o \in ch : work[r][o].role = "lead" /\ work'[r][o].role = "lead"
      <3>1. UNCHANGED ledger
        BY <1>3 DEF RefuseChunk, ProviderReturns
      <3> QED
        BY <1>3, <3>1, ChunkMoves DEF RolesKept
    <2>2. \A o \in ch : /\ work[r][o].val = "none"
                        /\ \/ /\ work[r][o].stage = "acquired" /\ work'[r][o].val = "budget"
                              /\ work'[r][o].stage = "settled"
                           \/ /\ work[r][o].stage = "calling" /\ work'[r][o].val \in {"valid", "failed"}
                              /\ work'[r][o].stage = "settled"
      <3>1. CASE RefuseChunk(r, ch)
        <4>1. /\ SetChunk(r, ch, "settled", [o \in ch |-> "budget"])
              /\ [o \in ch |-> "budget"] \in [ch -> Value]
              /\ \A o \in ch : work[r][o].stage = "acquired"
          BY <3>1 DEF RefuseChunk, Value
        <4>2. \A o \in ch : work'[r][o].stage = "settled" /\ work'[r][o].val = "budget"
          BY <1>0, <4>1, SetChunkFrame
        <4> QED
          BY <3>1, <4>1, <4>2, ChunkMoves
      <3>2. CASE ProviderReturns(r, ch)
        <4>1. \A o \in ch : work[r][o].stage = "calling"
          BY <3>2 DEF ProviderReturns
        <4> QED
          BY <3>2, <4>1, ChunkMoves
      <3> QED
        BY <1>3, <3>1, <3>2
    <2>3. \A o \in ch : /\ IsSent(work'[r][o]) <=> IsSent(work[r][o])
                        /\ ~IsKept(work'[r][o]) /\ ~IsKept(work[r][o])
      BY <2>1, <2>2 DEF IsSent, IsKept
    <2>4. ASSUME NEW s \in Request, NEW q \in Object
          PROVE  /\ IsSent(work'[s][q]) <=> IsSent(work[s][q])
                 /\ IsKept(work'[s][q]) <=> IsKept(work[s][q])
      BY <2>1, <2>3
    <2> QED
      BY <2>1, <2>4, PaidOther
  <1>4. ASSUME NEW r \in Request, NEW o \in Object,
               ReleaseCall(r, o) \/ FollowerWakes(r, o) \/ FollowerGivesUp(r, o)
        PROVE  FetchesPaid'
    <2>1. /\ UNCHANGED ledger
          /\ \A s \in Request, q \in Object : (s # r \/ q # o) => work'[s][q] = work[s][q]
          /\ work'[r][o].role = work[r][o].role
      <3>1. UNCHANGED ledger
        BY <1>4 DEF ReleaseCall, FollowerWakes, FollowerGivesUp
      <3> QED
        BY <1>4, <3>1, ItemMoves DEF RolesKept
    <2>2. \/ work[r][o].role = "follow"
          \/ /\ work[r][o].stage = "closed" /\ work'[r][o].stage = "applied"
             /\ work'[r][o].val = work[r][o].val
      <3>1. CASE ReleaseCall(r, o)
        <4>1. work[r][o].role = "lead" /\ work[r][o].stage = "closed"
          BY <3>1 DEF ReleaseCall
        <4> QED
          BY <3>1, <4>1, ItemMoves
      <3>2. CASE FollowerWakes(r, o) \/ FollowerGivesUp(r, o)
        BY <3>2 DEF FollowerWakes, FollowerGivesUp
      <3> QED
        BY <1>4, <3>1, <3>2
    <2>3. /\ IsSent(work'[r][o]) <=> IsSent(work[r][o])
          /\ IsKept(work'[r][o]) <=> IsKept(work[r][o])
      BY <2>1, <2>2 DEF IsSent, IsKept
    <2>4. ASSUME NEW s \in Request, NEW q \in Object
          PROVE  /\ IsSent(work'[s][q]) <=> IsSent(work[s][q])
                 /\ IsKept(work'[s][q]) <=> IsKept(work[s][q])
      BY <2>1, <2>3
    <2> QED
      BY <2>1, <2>4, PaidOther
  <1>5. ASSUME NEW r \in Request, Begin(r) \/ Launch(r) \/ WriteBack(r) \/ Expire(r)
        PROVE  UNCHANGED <<ledger, work>>
    BY <1>5 DEF Begin, Launch, WriteBack, Expire
  <1>6. CASE UNCHANGED vars
    BY <1>1, <1>6 DEF vars
  <1> QED
    BY <1>1, <1>2, <1>3, <1>4, <1>5, <1>6, PaidStart, PaidClose DEF Next, Step

(* However the requests on a ledger interleave, it was charged for exactly   *)
(* the objects a provider was asked for and the artifacts it delivered, and  *)
(* no limit was passed.                                                      *)
THEOREM FetchesAlwaysPaid == Spec => []FetchesPaid
  <1>1. Init => FetchesPaid
    <2> SUFFICES ASSUME Init, NEW a \in Ledgers PROVE PaidFor(a)
      BY DEF FetchesPaid, PaidFor
    <2>1. \A s \in Request, q \in Object : ~IsSent(work[s][q]) /\ ~IsKept(work[s][q])
      BY NoWorkFields DEF Init, IsSent, IsKept
    <2>2. Sent(a) = {} /\ Kept(a) = {}
      <3>1. \A s \in Request, q \in Object : <<s, q>> \notin Sent(a) /\ <<s, q>> \notin Kept(a)
        BY <2>1, SentItems
      <3>2. {} \in SUBSET (Request \X Object)
        OBVIOUS
      <3> QED
        BY <3>1, <3>2, SentItems, PairSets
    <2>3. ledger[a] = NewLedger(Limits[a]) /\ Limits[a] \in [Dimension -> Nat]
      BY FetchAssumption DEF FetchAssumption, Init
    <2>4. /\ ledger[a].used["fetches"] = 0 /\ ledger[a].used["bytes"] = 0
          /\ WithinBudget(ledger[a])
      BY <2>3 DEF NewLedger, WithinBudget, Dimension
    <2> QED
      BY <2>2, <2>4, FS_EmptySet DEF PaidFor
  <1> QED
    BY <1>1, PaidNext, FlightsInOrder, PTL DEF Spec
=============================================================================

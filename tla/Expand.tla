------------------------------- MODULE Expand -------------------------------
(***************************************************************************)
(* Engine.Expand (internal/engine/expand.go): a breadth-first traversal of *)
(* relations, one level at a time, by concurrent expansions that share one *)
(* session and, in a plan, one budget ledger.                              *)
(*                                                                         *)
(* A relation is a pair of objects.  What a provider would answer for an   *)
(* object is given (Graph); whether it does, fails or runs into a limit is *)
(* open.                                                                   *)
(***************************************************************************)
EXTENDS BudgetLedger, FiniteSets

CONSTANTS
    Task,         \* calls of Expand
    Object,
    Root,         \* [Task -> Object] the requested object
    MaxDepth,     \* [Task -> Int] requested depth
    Candidates,   \* objects the session's searches found
    Graph,        \* [Object -> SUBSET Object] the relations a provider knows
    Kinds,        \* a set of [Object -> "expands", "unsupported" or "refused"]
    Limits,       \* limits of the shared ledger
    Concurrency   \* GlobalConcurrency

ASSUME ExpandAssumption ==
    /\ Root \in [Task -> Object] /\ MaxDepth \in [Task -> Int]
    /\ Graph \in [Object -> SUBSET Object]
    /\ Kinds \subseteq [Object -> {"expands", "unsupported", "refused"}]
    /\ Limits \in [Dimension -> Nat] /\ Concurrency \in Nat \ {0}

VARIABLES
    kind,        \* what the provider of each object can do
    ledger,
    relations,   \* the session's relations
    pc,          \* [Task -> place]
    old,         \* [Task -> SUBSET relation] the snapshot's relations
    new,         \* [Task -> SUBSET relation] newRelations
    level,       \* [Task -> [Object -> state of this level's goroutine]]
    depth,       \* [Task -> Nat] of the current level
    visited,     \* [Task -> SUBSET Object]
    partial,     \* [Task -> SUBSET Object] keys of partialErrors
    asked,       \* [Task -> [Object -> Nat]] provider calls: for properties only
    overlap      \* two expansions ran at once: for properties only

taskVars == <<pc, old, new, level, depth, visited, partial, asked>>
vars == <<kind, ledger, relations, taskVars, overlap>>

Idle == [o \in Object |-> "none"]

Init ==
    /\ kind \in Kinds
    /\ ledger = NewLedger(Limits)
    /\ relations = {}
    /\ pc = [t \in Task |-> "idle"]
    /\ old = [t \in Task |-> {}] /\ new = [t \in Task |-> {}]
    /\ level = [t \in Task |-> Idle]
    /\ depth = [t \in Task |-> 0]
    /\ visited = [t \in Task |-> {}] /\ partial = [t \in Task |-> {}]
    /\ asked = [t \in Task |-> [o \in Object |-> 0]]
    /\ overlap = FALSE

GoTo(t, label) == pc' = [pc EXCEPT ![t] = label]

\* The requested depth, at least one level and at most two.
Depth(t) == IF MaxDepth[t] <= 0 THEN 1 ELSE IF MaxDepth[t] > 2 THEN 2 ELSE MaxDepth[t]

\* knownSessionRef: a candidate, or an end of a stored relation.
KnownSessionRef(o) == o \in Candidates \/ \E r \in relations : o \in {r[1], r[2]}

\* The checks, the snapshot and the first level.
Begin(t) ==
    /\ pc[t] = "idle"
    /\ KnownSessionRef(Root[t])
    /\ old' = [old EXCEPT ![t] = relations]
    /\ level' = [level EXCEPT ![t][Root[t]] = "wait"]
    /\ visited' = [visited EXCEPT ![t] = {Root[t]}]
    /\ overlap' = (overlap \/ \E u \in Task : pc[u] \notin {"idle", "done", "failed"})
    /\ GoTo(t, "level")
    /\ UNCHANGED <<kind, ledger, relations, new, depth, partial, asked>>

\* The ref is not present in the selected session.
BeginRefused(t) ==
    /\ pc[t] = "idle" /\ ~KnownSessionRef(Root[t])
    /\ GoTo(t, "failed")
    /\ UNCHANGED <<kind, ledger, relations, old, new, level, depth, visited, partial, asked, overlap>>

\* Mutant: a goroutine that is out of budget leaves without wg.Done.
OutcomeUnlessExhausted(t, o, result) ==
    level' = [level EXCEPT ![t][o] = IF result = "exhausted" THEN "lost" ELSE result]

\* The goroutine sends its result (the channel has room) and is done, or makes
\* its call.
Outcome(t, o, result) == level' = [level EXCEPT ![t][o] = result]

Running(t) == {o \in Object : level[t][o] = "called"}

ExpandCost == [d \in Dimension |-> IF d \in {"calls", "expanded"} THEN 1 ELSE 0]

\* No provider, an unsupported operation, or one that is no Expander.
CannotExpand(o) == kind[o] = "unsupported"

\* A goroutine that ends before the provider call: a leaf of the traversal
\* unless it is the root, or an identity, source or kind that is refused.
Refuse(t, o) ==
    /\ level[t][o] = "wait" /\ Cardinality(Running(t)) < Concurrency
    /\ \/ CannotExpand(o) /\ Outcome(t, o, IF o = Root[t] THEN "error" ELSE "leaf")
       \/ kind[o] = "refused" /\ Outcome(t, o, "error")
    /\ UNCHANGED <<kind, ledger, relations, pc, old, new, depth, visited, partial, asked, overlap>>

\* budget.Reserve, then the provider call.
Call(t, o) ==
    /\ level[t][o] = "wait" /\ Cardinality(Running(t)) < Concurrency
    /\ ~CannotExpand(o) /\ kind[o] # "refused"
    /\ IF CanReserve(ledger, ExpandCost)
       THEN /\ ledger' = Charge(ledger, ExpandCost)
            /\ asked' = [asked EXCEPT ![t][o] = @ + 1]
            /\ Outcome(t, o, "called")
       ELSE /\ Outcome(t, o, "exhausted")
            /\ UNCHANGED <<ledger, asked>>
    /\ UNCHANGED <<kind, relations, pc, old, new, depth, visited, partial, overlap>>

\* The provider answers within the byte budget, or it fails, or a deadline, a
\* cancellation or the byte budget ends the call.
Answer(t, o) ==
    /\ level[t][o] = "called"
    /\ \/ /\ CanReserve(ledger, ByteCost(1))
          /\ ledger' = Charge(ledger, ByteCost(1))
          /\ Outcome(t, o, "ok")
       \/ /\ ~CanReserve(ledger, ByteCost(1))
          /\ Outcome(t, o, "exhausted") /\ UNCHANGED ledger
       \/ /\ \E result \in {"error", "exhausted"} : Outcome(t, o, result)
          /\ UNCHANGED ledger
    /\ UNCHANGED <<kind, relations, pc, old, new, depth, visited, partial, asked, overlap>>

With(t, result) == {o \in Object : level[t][o] = result}

Found(t) == {<<o, x>> : o \in With(t, "ok"), x \in Object}

\* The objects of the next level, in the depth that is left.
Frontier(t, rels) == {r[2] : r \in rels} \ visited[t]

\* Mutant: the traversal goes one level deeper than asked.
DeeperByOne(t) == depth[t] + 1 <= Depth(t)

\* item.depth+1 < req.MaxDepth.
Deeper(t) == depth[t] + 1 < Depth(t)

\* wg.Wait, until every goroutine of the level is done, and the loop over the
\* results: relations are merged, neighbours not met before become the next level;
\* exhaustion and deadlines stop the loop.
Collect(t) ==
    /\ pc[t] = "level"
    /\ \A o \in Object : level[t][o] \in {"none", "ok", "leaf", "error", "exhausted"}
    /\ LET rels == {r \in Found(t) : r[2] \in Graph[r[1]]}
           next == IF Deeper(t) /\ With(t, "exhausted") = {} THEN Frontier(t, rels) ELSE {}
       IN /\ new' = [new EXCEPT ![t] = @ \cup rels]
          /\ partial' = [partial EXCEPT ![t] = @ \cup With(t, "error") \cup With(t, "exhausted")]
          /\ visited' = [visited EXCEPT ![t] = @ \cup next]
          /\ level' = [level EXCEPT ![t] = [o \in Object |-> IF o \in next THEN "wait" ELSE "none"]]
          /\ depth' = [depth EXCEPT ![t] = @ + 1]
          /\ GoTo(t, IF next = {} THEN "finish" ELSE "level")
    /\ UNCHANGED <<kind, ledger, relations, old, asked, overlap>>

\* Mutant: the new relations replace the session's.
WriteNew(t) == new[t]

\* mergeRelations: the snapshot's relations and the new ones.
WriteBack(t) == old[t] \cup new[t]

\* The root failed and nothing was found: nothing is written.
ReturnError(t) ==
    /\ pc[t] = "finish" /\ new[t] = {} /\ Root[t] \in partial[t]
    /\ GoTo(t, "failed")
    /\ UNCHANGED <<kind, ledger, relations, old, new, level, depth, visited, partial, asked, overlap>>

\* The record is updated under its lock, then saved; a failing Save changes
\* only what is returned.
Return(t) ==
    /\ pc[t] = "finish" /\ ~(new[t] = {} /\ Root[t] \in partial[t])
    /\ relations' = WriteBack(t)
    /\ GoTo(t, "done")
    /\ UNCHANGED <<kind, ledger, old, new, level, depth, visited, partial, asked, overlap>>

Step(t) ==
    \/ Begin(t) \/ BeginRefused(t) \/ Collect(t) \/ ReturnError(t) \/ Return(t)
    \/ \E o \in Object : Refuse(t, o) \/ Call(t, o) \/ Answer(t, o)

Next == \E t \in Task : Step(t)

Spec == Init /\ [][Next]_vars /\ WF_vars(Next)

----------------------------------------------------------------------------
(* Properties. *)

\* What the traversal can find at an object, and the objects it has to ask.
Reachable(o) == IF CannotExpand(o) THEN {} ELSE Graph[o]
Near(t) == {Root[t]} \cup IF Depth(t) = 1 THEN {} ELSE Reachable(Root[t])

\* The traversal asks no object twice, asks only objects nearer to the root than
\* the depth, and a result that is not partial is complete: it has exactly the
\* relations of all those objects, although what cannot be expanded is skipped
\* without a word and levels end in any order.
ExpandExact ==
    \A t \in Task :
        /\ \A o \in Object : asked[t][o] <= IF o \in Near(t) THEN 1 ELSE 0
        /\ (pc[t] = "done" /\ partial[t] = {}) =>
              new[t] = UNION {{o} \X Reachable(o) : o \in Near(t)}

\* Unless expansions overlap, the session keeps every relation it was given: the
\* write-back of a copy loses nothing that an earlier expansion returned.
SerialRelationsKept ==
    ~overlap => \A t \in Task : pc[t] = "done" => new[t] \subseteq relations

\* Every expansion ends, whatever its providers answer.
ExpandsReturn == \A t \in Task : pc[t] = "level" ~> pc[t] \in {"done", "failed"}
=============================================================================

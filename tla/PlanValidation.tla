--------------------------- MODULE PlanValidation ---------------------------
(***************************************************************************)
(* What a retrieval plan must satisfy before it runs: the schema and       *)
(* semantic checks of internal/planvalidate and the executor's own         *)
(* validatePlan.  Both search the dependency graph depth first with three  *)
(* colours.                                                                *)
(*                                                                         *)
(* A plan is a record with a sequence of nodes, a sequence of output ids   *)
(* and a budget.  A request is Absent, Malformed (not the JSON shape of    *)
(* its operation) or a record of the fields the document has.              *)
(***************************************************************************)
EXTENDS Integers, SequencesExt

CONSTANTS
    Blank,       \* an empty string: id, query, text or source
    Absent,      \* no request
    Malformed,   \* a request of another shape
    NodeCap,     \* 200 nodes
    ItemCap      \* 100 items of a map_fetch

ASSUME CapAssumption == NodeCap \in Nat \ {0} /\ ItemCap \in Nat \ {0}

\* The operations of kernel/plan.go and the fields each request may have.
RequestFields ==
    [search |-> {"source", "query", "source_queries", "sources", "filters", "identity", "limit",
                 "limit_per_source", "budget", "strategy", "session_id"},
     query |-> {"source", "container", "filter", "sort", "limit", "cursor", "identity",
                "session_id", "budget"},
     fetch |-> {"session_id", "identity", "items", "budget"},
     expand |-> {"session_id", "identity", "ref", "relations", "max_depth", "budget"},
     resolve |-> {"source", "text", "kind", "identity", "limit"},
     rank |-> {"query", "limit", "k0", "weights", "quotas", "source_quota"},
     limit |-> {"top_k"},
     map_fetch |-> {"top_k", "max_items", "projection_by_kind", "default_projection"},
     merge |-> {}, dedup |-> {}, project |-> {}]

PlanOps == DOMAIN RequestFields
RequestRequired == {"search", "query", "fetch", "expand", "resolve"}

\* decodeStrict: no field the operation does not know.
decodeStrict(n) == DOMAIN n.request \subseteq RequestFields[n.op]

\* decodeNodeRequest and requireEmptyRequest.
decodeNodeRequest(n) ==
    IF n.request = Absent THEN n.op \notin RequestRequired
    ELSE n.request # Malformed /\ decodeStrict(n)

\* A decoded field, or the zero value the decoder leaves.
Field(n, f, zero) ==
    IF n.request # Absent /\ f \in DOMAIN n.request THEN n.request[f] ELSE zero

NotNegative(n, fields) == \A f \in fields : Field(n, f, 0) >= 0

\* ObjectRef.Validate, on the references a request may carry.
RefValid(ref) == ref = "ref"

\* SearchRequest.Validate after WithDefaults, which replaces limits below one:
\* a known profile, fusion and pagination.
StrategyKnown(n) == Field(n, "strategy", "default") # "unsupported"

SearchValid(n) ==
    /\ Field(n, "query", Blank) # Blank
    /\ ~(Field(n, "source", Blank) # Blank /\ Field(n, "sources", {}) # {})
    /\ StrategyKnown(n)

validateNodeRequest(n) ==
    /\ n.op \in PlanOps
    /\ decodeNodeRequest(n)
    /\ CASE n.op = "search" -> SearchValid(n)
         [] n.op = "query" ->
              /\ Field(n, "source", Blank) # Blank
              /\ NotNegative(n, {"limit"})
              /\ RefValid(Field(n, "container", "ref"))
         [] n.op = "fetch" ->
              /\ Field(n, "items", <<>>) # <<>>
              /\ \A i \in DOMAIN n.request.items :
                    /\ RefValid(n.request.items[i].ref)
                    /\ n.request.items[i].projection # {}
         [] n.op = "expand" ->
              RefValid(Field(n, "ref", Blank)) /\ Field(n, "max_depth", 0) \in 0 .. 2
         [] n.op = "resolve" ->
              Field(n, "text", Blank) # Blank /\ NotNegative(n, {"limit"})
         [] n.op = "rank" ->
              /\ NotNegative(n, {"limit", "k0"})
              /\ \A w \in Field(n, "weights", {}) \cup Field(n, "quotas", {}) : w >= 0
         [] n.op = "limit" -> NotNegative(n, {"top_k"})
         [] n.op = "map_fetch" ->
              \A f \in {"top_k", "max_items"} : Field(n, f, 0) \in 0 .. ItemCap
         [] OTHER -> TRUE

---------------------------------------------------------------------------
Ids(plan) == {plan.nodes[i].id : i \in DOMAIN plan.nodes}
NodeOf(plan, id) == plan.nodes[CHOOSE i \in DOMAIN plan.nodes : plan.nodes[i].id = id]
IdOrder(plan) == [i \in DOMAIN plan.nodes |-> plan.nodes[i].id]

\* The parts of the JSON schema the two validators rely on.
validateSchema(plan) ==
    /\ Len(plan.nodes) \in 1 .. NodeCap
    /\ \A i \in DOMAIN plan.nodes :
          /\ plan.nodes[i].op \in PlanOps
          /\ IsInjective(plan.nodes[i].dependsOn)
    /\ IsInjective(plan.output)
    /\ \A d \in DOMAIN plan.budget : plan.budget[d] >= 0

\* A loop over ids that visits each, and stops at the first visit that answers
\* FALSE.  A visit answers with that and with what is marked so far.
VisitEach(visit, ids, marked) ==
    LET upTo[i \in 0 .. Len(ids)] ==
          IF i = 0 THEN <<TRUE, marked>>
          ELSE IF upTo[i - 1][1] THEN visit[<<ids[i], upTo[i - 1][2]>>]
               ELSE upTo[i - 1]
    IN upTo[Len(ids)]

Colour == {"unvisited", "visiting", "visited"}

\* Mutant: a node is marked as done when the search enters it.
VisitOnce(visit, plan, id, state) ==
    IF state[id] = "visited" THEN <<TRUE, state>>
    ELSE VisitEach(visit, NodeOf(plan, id).dependsOn, [state EXCEPT ![id] = "visited"])

\* The body of visit: <<no cycle met, colours>> after the search from id.  An
\* id being visited is on the path that leads to it.
VisitNode(visit, plan, id, state) ==
    LET left == VisitEach(visit, NodeOf(plan, id).dependsOn, [state EXCEPT ![id] = "visiting"])
    IN CASE state[id] = "visiting" -> <<FALSE, state>>
         [] state[id] = "visited" -> <<TRUE, state>>
         [] OTHER -> <<left[1], [left[2] EXCEPT ![id] = "visited"]>>

\* The search from every node, in the order the roots are taken: the plan's
\* order in planvalidate, any order of a Go map in the executor.
NoCycle(plan, order) ==
    LET visit[x \in Ids(plan) \X [Ids(plan) -> Colour]] == VisitNode(visit, plan, x[1], x[2])
    IN VisitEach(visit, order, [id \in Ids(plan) |-> "unvisited"])[1]

KnownDependencies(plan) ==
    \A i \in DOMAIN plan.nodes : ToSet(plan.nodes[i].dependsOn) \subseteq Ids(plan)

\* validateSemantics, apart from the requests.
GraphValid(plan) ==
    /\ IsInjective(IdOrder(plan))
    /\ \A i \in DOMAIN plan.nodes :
          /\ plan.nodes[i].id \notin ToSet(plan.nodes[i].dependsOn) \cup {Blank}
          /\ Blank \notin ToSet(plan.nodes[i].dependsOn)
    /\ KnownDependencies(plan)
    /\ ToSet(plan.output) \subseteq Ids(plan)
    /\ NoCycle(plan, IdOrder(plan))

validateSemantics(plan) ==
    /\ \A i \in DOMAIN plan.nodes : validateNodeRequest(plan.nodes[i])
    /\ GraphValid(plan)

\* Validate and ValidateJSON.
Validate(plan) == validateSchema(plan) /\ validateSemantics(plan)

\* validatePlan of internal/planexec, whose roots come in the given order.
validatePlan(plan, order) ==
    /\ Len(plan.nodes) \in 1 .. NodeCap
    /\ Blank \notin Ids(plan) /\ IsInjective(IdOrder(plan))
    /\ KnownDependencies(plan)
    /\ NoCycle(plan, order)
=============================================================================

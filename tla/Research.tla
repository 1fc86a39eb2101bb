------------------------------ MODULE Research ------------------------------
(***************************************************************************)
(* The research and ask workflows (internal/research, internal/ask) with   *)
(* the planners and the AI features they call: one request is planned,     *)
(* confined to what its caller may do, executed, reranked, read further,   *)
(* turned into evidence and answered.                                      *)
(*                                                                         *)
(* Every call of a provider, of the model or of the session store may      *)
(* fail.  Objects stand for candidates, for the artifacts read from them   *)
(* and for the evidence their text gives.                                  *)
(***************************************************************************)
EXTENDS PlanValidation, FiniteSets

CONSTANTS
    Object, Source,
    Query, Compact, \* the caller's words, and what compactQuery and a source's limit leave
    Wanted,        \* sources whose cue words the query has
    Narrow,        \* sources whose query limit it exceeds
    Dim,           \* dimensions of a SearchBudget
    DefaultBudget, \* [Dim -> Nat] SearchBudget.WithDefaults
    DefaultTopK,   \* 8 reads
    DefaultLimit,  \* 40 candidates
    PerSource,     \* 8 candidates of one source
    Requests,      \* set of [sources, identity, filters, limit, deep, fetchTopK, budget, ask]
    Capabilities,  \* set of capability snapshots
    Drafts,        \* plans a model or a command may write
    Findings,      \* sequences of candidates an output node may hold
    TopN,          \* candidates a reranker is shown
    Textual,       \* objects whose artifact has text
    None

\* A document of the shape of a plan: nothing else is said of what it holds.
IsSequence(s) == Len(s) \in Nat /\ s = [i \in 1 .. Len(s) |-> s[i]]
IsPlan(p) ==
    /\ p = [identity |-> p.identity, nodes |-> p.nodes, output |-> p.output, budget |-> p.budget]
    /\ IsSequence(p.nodes) /\ IsSequence(p.output) /\ p.budget \in [Dim -> Int]
    /\ \A i \in DOMAIN p.nodes :
          LET n == p.nodes[i]
          IN /\ n = [id |-> n.id, op |-> n.op, dependsOn |-> n.dependsOn, request |-> n.request,
                     maxItems |-> n.maxItems]
             /\ IsSequence(n.dependsOn) /\ n.maxItems \in Int

ASSUME ResearchAssumption ==
    /\ DefaultBudget \in [Dim -> Nat \ {0}] /\ "fetches" \in Dim
    /\ {DefaultTopK, DefaultLimit, PerSource} \subseteq Nat \ {0} /\ TopN \in Nat
    /\ Wanted \cup Narrow \subseteq Source
    /\ Findings \subseteq Seq(Object) /\ Textual \subseteq Object
    /\ \A r \in Requests : r.budget \in [Dim -> Int] /\ {r.fetchTopK, r.limit} \subseteq Int
    /\ \A p \in Drafts : IsPlan(p)

VARIABLES
    request, caps,
    planner,      \* "rules", "ai" or "command"
    pc,
    plan,         \* the plan in hand
    executed,     \* the plan handed to the kernel
    found,        \* candidates of the output nodes, in order
    read,         \* artifacts of the output nodes
    session,      \* candidates and artifacts the session holds, or None
    candidates,   \* CandidatePack.Candidates
    artifacts,    \* ArtifactPack.Artifacts
    extra,        \* objects fetched after reranking: for properties only
    warned, partial,
    evidence,     \* EvidencePack, None before it is extracted
    answer        \* the answer, None without one

workVars == <<found, read, session, candidates, artifacts, extra>>
endVars == <<warned, partial, evidence, answer>>
vars == <<request, caps, planner, pc, plan, executed, workVars, endVars>>

Init ==
    /\ request \in Requests /\ caps \in Capabilities
    /\ planner \in {"rules", "ai", "command"}
    /\ pc = "capabilities"
    /\ plan = None /\ executed = None
    /\ found = <<>> /\ read = {} /\ session = None
    /\ candidates = <<>> /\ artifacts = {} /\ extra = {}
    /\ warned = FALSE /\ partial = FALSE /\ evidence = None /\ answer = None

Fail == pc' = "failed" /\ UNCHANGED <<request, caps, planner, plan, executed, workVars, endVars>>

\* Kernel.Capabilities, then the configured planner.
ReadCapabilities ==
    /\ pc = "capabilities"
    /\ pc' = planner
    /\ UNCHANGED <<request, caps, planner, plan, executed, workVars, endVars>>

CapabilitiesFail == pc = "capabilities" /\ Fail

---------------------------------------------------------------------------
(* Planners *)

WithDefaults(budget) ==
    [d \in Dim |-> IF budget[d] <= 0 THEN DefaultBudget[d] ELSE budget[d]]

\* Sources with a provider whose status is ok: those the query hints at, else
\* all of them.
selectSources ==
    LET available == {p.source : p \in {q \in caps : q.status = "ok"}}
    IN IF available \cap Wanted = {} THEN available ELSE available \cap Wanted

\* sourceQueries: a shortened query for the sources that need one.
sourceQueries(sources) == [s \in sources \cap Narrow |-> Compact]

\* normalizedResearchLimit and normalizedResearchLimitPerSource.
SearchLimit == IF request.limit > 0 THEN request.limit ELSE DefaultLimit
LimitPerSource == IF SearchLimit < PerSource THEN SearchLimit ELSE PerSource

\* Search the caller's sources, or those available, and read the best.
RulesPlan ==
    LET sources == IF request.sources # {} THEN request.sources ELSE selectSources
        top == IF request.fetchTopK <= 0 THEN DefaultTopK ELSE request.fetchTopK
        search == [id |-> "search", op |-> "search", dependsOn |-> <<>>, maxItems |-> 0,
                   request |-> [query |-> Compact, sources |-> sources,
                                source_queries |-> sourceQueries(sources),
                                filters |-> request.filters, limit |-> SearchLimit,
                                limit_per_source |-> PerSource]]
        fetch == [id |-> "fetch_top", op |-> "map_fetch", dependsOn |-> <<"search">>,
                  maxItems |-> top, request |-> [top_k |-> top, max_items |-> top]]
    IN [identity |-> request.identity,
        nodes |-> IF request.deep THEN <<search, fetch>> ELSE <<search>>,
        output |-> IF request.deep THEN <<"search", "fetch_top">> ELSE <<"search">>,
        budget |-> request.budget]

PlanIs(p, next) ==
    /\ plan' = p /\ pc' = next
    /\ UNCHANGED <<request, caps, planner, executed, workVars, endVars>>

PlanByRules == pc \in {"rules", "fallback"} /\ PlanIs(RulesPlan, "constrain")

\* CompleteJSON answers with some JSON document or fails.  An invalid answer
\* is sent back once for repair; after that the rules planner takes over.
AIPlan ==
    /\ pc \in {"ai", "repair"}
    /\ \E draft \in Drafts :
          PlanIs(draft, IF Validate(draft) THEN "constrain"
                        ELSE IF pc = "ai" THEN "repair" ELSE "fallback")

AIPlanFails == pc \in {"ai", "repair"} /\ PlanIs(None, IF pc = "ai" THEN "repair" ELSE "fallback")

\* The external command has one attempt and no fallback.
CommandPlan ==
    /\ pc = "command"
    /\ \E draft \in Drafts : PlanIs(draft, IF Validate(draft) THEN "constrain" ELSE "failed")

CommandFails == pc = "command" /\ Fail

---------------------------------------------------------------------------
(* constrainPlan *)

researchOps == {"search", "map_fetch", "merge", "dedup", "rank", "limit", "project"}

clampBudget(candidate, limit) ==
    [d \in Dim |-> IF candidate[d] <= 0 \/ candidate[d] > limit[d] THEN limit[d]
                   ELSE candidate[d]]

\* normalizedResearchFetchTopK
FetchTopK(budget) ==
    LET limit == IF request.fetchTopK <= 0 THEN DefaultTopK ELSE request.fetchTopK
        most == WithDefaults(budget)["fetches"]
    IN IF limit > most THEN most ELSE limit

capabilitySupports(source, operation) ==
    \E p \in caps : /\ p.source = source /\ operation \in p.operations
                    /\ p.status = "ok" \/ operation \in p.okOperations

\* The body of visit: whether no search was met, and the ids marked.  A marked
\* id is passed over, a search ends it all.
VisitOne(visit, p, id, seen) ==
    IF id \in seen THEN <<TRUE, seen>>
    ELSE IF NodeOf(p, id).op = "search" THEN <<FALSE, seen \cup {id}>>
    ELSE VisitEach(visit, NodeOf(p, id).dependsOn, seen \cup {id})

\* hasRetrievalAncestor: a depth-first search that marks what it visited.
hasRetrievalAncestor(n, p) ==
    LET visit[x \in Ids(p) \X SUBSET Ids(p)] == VisitOne(visit, p, x[1], x[2])
    IN ~VisitEach(visit, n.dependsOn, {})[1]

\* The sources a search names: its source, else its sources.
Named(n) ==
    IF Field(n, "source", Blank) # Blank THEN {Field(n, "source", Blank)}
    ELSE Field(n, "sources", {})

Allowed(source) == request.sources # {} => source \in request.sources

\* A search as the caller asked it, except for the texts of source_queries, whose
\* sources alone are looked at.
Pinned(n) ==
    [query |-> Query, filters |-> request.filters, limit |-> SearchLimit,
     limit_per_source |-> LimitPerSource,
     sources |-> IF request.sources # {} /\ Named(n) = {} THEN request.sources ELSE Named(n),
     source_queries |-> Field(n, "source_queries", <<>>)]

ConstrainSearch(n) == [n EXCEPT !.request = Pinned(n)]

SearchAuthorized(n) ==
    /\ \A s \in DOMAIN Field(n, "source_queries", <<>>) : Allowed(s)
    /\ \A s \in Pinned(n).sources \ {Blank} : Allowed(s) /\ capabilitySupports(s, "search")

Clamp(value, limit) == IF value <= 0 \/ value > limit THEN limit ELSE value

PinnedFetch(n, limit) ==
    [top_k |-> Clamp(Field(n, "top_k", 0), limit),
     max_items |-> Clamp(Field(n, "max_items", 0), limit), default_projection |-> "content"]

\* Mutant: the node's own max_items is left as planned.
ConstrainRequestOnly(n, budget) ==
    [n EXCEPT !.request = PinnedFetch(n, FetchTopK(budget))]

ConstrainFetch(n, budget) ==
    LET limit == FetchTopK(budget)
    IN [n EXCEPT !.request = PinnedFetch(n, limit), !.maxItems = Clamp(@, limit)]

FetchAuthorized(n, p) ==
    hasRetrievalAncestor(n, p) /\ request.deep /\ n.request # Absent

Authorized(p) ==
    \A i \in DOMAIN p.nodes :
        LET n == p.nodes[i]
        IN /\ n.op \in researchOps
           /\ n.op = "search" => SearchAuthorized(n)
           /\ n.op = "map_fetch" => FetchAuthorized(n, p)

Constrained(p) ==
    LET budget == clampBudget(p.budget, WithDefaults(request.budget))
    IN [p EXCEPT !.identity = request.identity, !.budget = budget,
                 !.nodes = [i \in DOMAIN @ |->
                    CASE @[i].op = "search" -> ConstrainSearch(@[i])
                      [] @[i].op = "map_fetch" -> ConstrainFetch(@[i], budget)
                      [] OTHER -> @[i]]]

Constrain ==
    /\ pc = "constrain" /\ Authorized(plan)
    /\ PlanIs(Constrained(plan), "execute")

RejectPlan == pc = "constrain" /\ ~Authorized(plan) /\ Fail

---------------------------------------------------------------------------
(* Execution *)

\* Objects in order, each once.
Distinct(seq) ==
    LET upTo[i \in 0 .. Len(seq)] ==
          IF i = 0 THEN <<>>
          ELSE IF seq[i] \in ToSet(upTo[i - 1]) THEN upTo[i - 1]
               ELSE Append(upTo[i - 1], seq[i])
    IN upTo[Len(seq)]

\* The nodes that make up the result: the plan's output, or all of them in
\* the order of a Go map.
outputIDs(p) == IF p.output = <<>> THEN SetToSeqs(Ids(p)) ELSE {p.output}

\* What those nodes may hold when the plan is done: a search its candidates,
\* a map_fetch the artifacts of some of them as well.
Outputs(p, ids) ==
    {o \in [DOMAIN ids -> [candidates : Findings, artifacts : SUBSET Object]] :
        \A i \in DOMAIN ids :
            o[i].artifacts \subseteq IF NodeOf(p, ids[i]).op = "map_fetch"
                                    THEN ToSet(o[i].candidates) ELSE {}}

\* Engine.Execute validates again.  Its events are drained before the result
\* is taken; the executor answers with one result.
Execute ==
    /\ pc = "execute"
    /\ Validate(plan) /\ validatePlan(plan, IdOrder(plan))
    /\ executed' = plan
    /\ \E ids \in outputIDs(plan), some \in BOOLEAN : \E out \in Outputs(plan, ids) :
          /\ found' = Distinct(FlattenSeq([i \in DOMAIN out |-> out[i].candidates]))
          /\ read' = UNION {out[i].artifacts : i \in DOMAIN out}
          /\ partial' = some
    /\ pc' = "session"
    /\ UNCHANGED <<request, caps, planner, plan, session, candidates, artifacts, extra,
                   warned, evidence, answer>>

ExecuteFails == pc = "execute" /\ Fail

\* The session holds each object the search nodes saw once, which the outputs
\* need not show.  A plan without a session, or a failing read, is not an error.
ReadSession ==
    /\ pc = "session"
    /\ \E snapshot \in {None} \cup [candidates : {f \in Findings : IsInjective(f)},
                                  artifacts : {{}, Textual}] :
          /\ session' = snapshot
          /\ candidates' = IF found = <<>> /\ snapshot # None THEN snapshot.candidates ELSE found
          /\ artifacts' = IF read = {} /\ snapshot # None THEN snapshot.artifacts ELSE read
    /\ pc' = "rerank"
    /\ UNCHANGED <<request, caps, planner, plan, executed, found, read, extra, endVars>>

---------------------------------------------------------------------------
(* Reranking *)

Shown == SubSeq(candidates, 1, IF TopN < Len(candidates) THEN TopN ELSE Len(candidates))

\* Mutant: the rest is appended without regard to what is already placed.
RerankRepeating(ids) == SubSeq(ids \o candidates, 1, Len(candidates))

\* Rerank: the model's order first, each id once, then the rest in place.
Rerank(ids) == Distinct(ids \o candidates)

RerankDone(order) ==
    /\ candidates' = order
    /\ pc' = IF request.deep THEN "supplement" ELSE "evidence"
    /\ UNCHANGED <<request, caps, planner, plan, executed, found, read, session, artifacts, extra,
                   endVars>>

\* The order stays as it was, with a warning.
RerankRefused ==
    /\ warned' = TRUE /\ pc' = "evidence"
    /\ UNCHANGED <<request, caps, planner, plan, executed, workVars, partial, evidence, answer>>

\* No reranker is configured, or there is nothing to order.
RerankSkipped ==
    /\ pc = "rerank" /\ pc' = "evidence"
    /\ UNCHANGED <<request, caps, planner, plan, executed, workVars, endVars>>

RerankAnswers ==
    /\ pc = "rerank" /\ Len(candidates) > 1
    /\ \E ids \in {s \in Findings : ToSet(s) \subseteq ToSet(Shown)} :
          LET order == IF Len(Shown) < 2 THEN candidates ELSE Rerank(ids)
          IN IF Len(order) = Len(candidates) THEN RerankDone(order) ELSE RerankRefused

\* The model fails or names an unknown id.
RerankFails == pc = "rerank" /\ Len(candidates) > 1 /\ RerankRefused

\* fetchReranked: the best candidates not read yet, on the request's own
\* budget.  A candidate without a readable projection is passed over.
Supplement ==
    /\ pc = "supplement"
    /\ LET limit == FetchTopK(request.budget)
           best == ToSet(SubSeq(candidates, 1, IF limit < Len(candidates) THEN limit
                                               ELSE Len(candidates)))
       IN \E got \in SUBSET (best \ artifacts) :
             /\ extra' = got
             /\ artifacts' = artifacts \cup got
             /\ warned' \in IF got = best \ artifacts THEN {warned} ELSE {warned, TRUE}
    /\ pc' = "evidence"
    /\ UNCHANGED <<request, caps, planner, plan, executed, found, read, session, candidates,
                   partial, evidence, answer>>

---------------------------------------------------------------------------
(* Evidence and answer *)

\* ExtractEvidence gives every piece of text of an artifact one stable id.
ExtractEvidence ==
    /\ pc = "evidence"
    /\ evidence' = artifacts \cap Textual
    /\ pc' = IF request.ask THEN "answer" ELSE "done"
    /\ UNCHANGED <<request, caps, planner, plan, executed, workVars, warned, partial, answer>>

\* ask: partial when the plan or the answer is, with a warning for an error.
AnswerIs(claims, incomplete, error) ==
    /\ answer' = [claims |-> claims, citations |-> UNION claims]
    /\ partial' = (partial \/ incomplete)
    /\ warned' = (warned \/ error)
    /\ pc' = "done"
    /\ UNCHANGED <<request, caps, planner, plan, executed, workVars, evidence>>

\* Claims that each cite evidence of the pack, which become citations.
Grounded(claims) ==
    claims # {} /\ \A c \in claims : c # {} /\ c \subseteq evidence

\* Answer: no evidence, a refusal, or claims that hold up; anything else is
\* an error.
Answer ==
    /\ pc = "answer"
    /\ IF evidence = {} THEN AnswerIs({}, TRUE, FALSE)
       ELSE \E claims \in SUBSET (SUBSET Object), insufficient \in BOOLEAN :
              \/ insufficient /\ claims = {} /\ AnswerIs({}, TRUE, FALSE)
              \/ ~insufficient /\ Grounded(claims) /\ AnswerIs(claims, FALSE, FALSE)

\* ask falls back to the deterministic summary.
AnswerFails == pc = "answer" /\ evidence # {} /\ AnswerIs({}, TRUE, TRUE)

Next ==
    \/ ReadCapabilities \/ CapabilitiesFail
    \/ PlanByRules \/ AIPlan \/ AIPlanFails \/ CommandPlan \/ CommandFails
    \/ Constrain \/ RejectPlan \/ Execute \/ ExecuteFails \/ ReadSession
    \/ RerankSkipped \/ RerankAnswers \/ RerankFails \/ Supplement
    \/ ExtractEvidence \/ Answer \/ AnswerFails

Spec == Init /\ [][Next]_vars

---------------------------------------------------------------------------
\* The graph alone, without a search: the ids can be ranked so that every
\* dependency ranks below its dependent.
WellFounded(p) ==
    /\ Blank \notin Ids(p) /\ Cardinality(Ids(p)) = Len(p.nodes)
    /\ KnownDependencies(p) /\ ToSet(p.output) \subseteq Ids(p)
    /\ \E rank \in [Ids(p) -> 1 .. Len(p.nodes)] :
          \A i \in DOMAIN p.nodes : \A d \in ToSet(p.nodes[i].dependsOn) :
              rank[d] < rank[p.nodes[i].id]

\* The depth-first searches of planvalidate and of the executor accept
\* exactly the plans without a cycle, whichever order the executor's map
\* gives its roots: a plan is never refused by one and stuck in the other.
ValidatorsAgree ==
    plan # None =>
        /\ GraphValid(plan) <=> WellFounded(plan)
        /\ \A order \in SetToSeqs(Ids(plan)) :
              validateSchema(plan) /\ GraphValid(plan) => validatePlan(plan, order)

\* Some search precedes id in the plan, by any path.
BelowSearch(p, id) ==
    \E up \in SUBSET Ids(p) :
        /\ \A x \in up \cup {id} : ToSet(NodeOf(p, x).dependsOn) \subseteq up
        /\ \A low \in SUBSET up :
              (\A x \in low \cup {id} : ToSet(NodeOf(p, x).dependsOn) \subseteq low) => low = up
        /\ \E x \in up : NodeOf(p, x).op = "search"

\* A plan stays within the caller's request: its identity, query, filters and
\* limits, its sources, also where a search asks one with words of its own, its
\* budget, reads only when deep retrieval was asked, and no more of them than it
\* allows.  Which words a search sends to one source is left to the planner.
WithinRequest(p) ==
    /\ p.identity = request.identity
    /\ \A d \in Dim : p.budget[d] \in 1 .. WithDefaults(request.budget)[d]
    /\ \A i \in DOMAIN p.nodes :
          LET n == p.nodes[i]
          IN /\ n.op \in researchOps
             /\ n.op = "search" =>
                   /\ n.request.query = Query /\ n.request.filters = request.filters
                   /\ n.request.limit = SearchLimit
                   /\ n.request.limit_per_source \in 1 .. SearchLimit
                   /\ request.sources # {} =>
                         /\ n.request.sources # {}
                         /\ n.request.sources \cup DOMAIN n.request.source_queries
                               \subseteq request.sources \cup {Blank}
             /\ n.op = "map_fetch" =>
                   /\ request.deep /\ n.request.default_projection = "content"
                   /\ {n.request.top_k, n.request.max_items, n.maxItems}
                         \subseteq 1 .. FetchTopK(p.budget)

\* It reads only what a search found.
ReadsBelowSearch(p) ==
    \A i \in DOMAIN p.nodes : p.nodes[i].op = "map_fetch" => BelowSearch(p, p.nodes[i].id)

\* What reaches the executor, whoever planned it, stays within the caller's
\* request and reads only below a search.
PlanWithinAuthority == executed # None => WithinRequest(executed) /\ ReadsBelowSearch(executed)

\* searchOne: what a source is asked, its own text or else the query.
Sent(n, source) ==
    LET texts == n.request.source_queries
    IN IF source \in DOMAIN texts /\ texts[source] # Blank THEN texts[source]
       ELSE n.request.query

\* What the documentation says: whoever planned, the query is the caller's
\* (docs/SECURITY_MODEL.md:165, docs/HTTP_API.md:278), so every source is asked
\* with the caller's words, in full or shortened.  constrainPlan leaves the texts
\* of source_queries to the planner.
QueryPinned ==
    executed # None =>
        \A i \in DOMAIN executed.nodes :
            executed.nodes[i].op = "search" =>
                \A s \in executed.nodes[i].request.sources :
                    Sent(executed.nodes[i], s) \in {Query, Compact}

\* Whatever the model does, reranking neither drops nor invents a candidate,
\* nothing the plan read is read again or lost from the evidence, and every
\* citation of an answer leads to an artifact that was read; an answer
\* without citations says that it is partial.
AnswerTraceable ==
    pc = "done" =>
        /\ IsInjective(candidates)
        /\ ToSet(candidates) = IF found = <<>> /\ session # None THEN ToSet(session.candidates)
                               ELSE ToSet(found)
        /\ extra \cap read = {} /\ read \cap Textual \subseteq evidence
        /\ evidence \subseteq artifacts
        /\ answer # None =>
              /\ answer.citations \subseteq evidence
              /\ answer.citations = UNION answer.claims
              /\ answer.citations = {} => partial
=============================================================================

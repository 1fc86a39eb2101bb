----------------------------- MODULE MCResearch -----------------------------
(***************************************************************************)
(* Requests that name sources or leave them open, shallow and deep, with   *)
(* small and default budgets, and the plans a model might write for them:  *)
(* every dependency graph over three nodes, requests of every kind with    *)
(* the mistakes the checks look for, and sources beyond the caller's.      *)
(***************************************************************************)
EXTENDS Research

CONSTANTS o1, o2, docs, mail

MCDefault == [d \in Dim |-> IF d = "fetches" THEN 2 ELSE 3]
NoBudget == [d \in Dim |-> 0]

ResearchRequest(s, deep, k, b, ask) ==
    [sources |-> s, identity |-> "user", filters |-> "mine", limit |-> k, deep |-> deep,
     fetchTopK |-> k, budget |-> b, ask |-> ask]
MCRequests ==
    {ResearchRequest({docs}, deep, 3, NoBudget, FALSE) : deep \in BOOLEAN}
    \cup {ResearchRequest({}, FALSE, 0, NoBudget, FALSE), ResearchRequest({}, TRUE, 0, [d \in Dim |-> 1], FALSE)}
    \cup {ResearchRequest({}, TRUE, k, NoBudget, TRUE) : k \in {1, 4}}

Listed(s, status, ok) ==
    [source |-> s, operations |-> {"search", "fetch"}, status |-> status, okOperations |-> ok]
MCCapabilities ==
    {{Listed(docs, "ok", {}), Listed(mail, "ok", {})},
     {Listed(docs, "degraded", {"search"}), Listed(mail, "degraded", {"fetch"})}}

Node(id, op, deps, req) ==
    [id |-> id, op |-> op, dependsOn |-> deps, request |-> req, maxItems |-> 0]
Plan(nodes, output, budget) ==
    [identity |-> "other", nodes |-> nodes, output |-> output, budget |-> budget]

SearchReq == [query |-> "other", sources |-> {}, filters |-> "all", limit |-> 9]
FetchReq == [top_k |-> 0, max_items |-> 1, default_projection |-> "all"]

\* Three nodes with any dependencies on one another.
Deps(id) == {SelectSeq(<<"c", "a", "b">>, LAMBDA x : x \in S) : S \in SUBSET ({"a", "b", "c"} \ {id})}
Graphs ==
    {Plan(<<Node("a", op, da, IF op = "search" THEN SearchReq ELSE Absent), Node("b", "merge", db, Absent),
            Node("c", "map_fetch", dc, FetchReq)>>, <<"c">>, NoBudget) :
        op \in {"search", "rank"}, da \in Deps("a"), db \in Deps("b"), dc \in Deps("c")}

\* Ids, dependencies and outputs that do not hang together.
Loose ==
    {Plan(<<Node("a", "search", d, SearchReq), Node(id, "dedup", <<"a">>, Absent)>>, out, NoBudget) :
        d \in {<<>>, <<"a">>, <<"x">>, <<Blank>>}, id \in {"a", "b", Blank},
        out \in {<<>>, <<"a">>, <<"x">>}}

\* One request of every operation, with and without a mistake.
Single ==
    {Plan(<<Node("a", x[1], <<>>, x[2])>>, <<>>, [d \in Dim |-> 9]) : x \in
        {<<"search", [query |-> "other", source |-> s]>> : s \in {docs, mail, Blank}}
        \cup {<<"search", [query |-> "other", sources |-> s, source_queries |-> q]>> :
                s \in {{}, {mail}, {docs, Blank}},
                q \in {<<>>, docs :> "other", docs :> Blank, mail :> "other"}}
        \cup {<<op, m>> : op \in PlanOps, m \in {Absent, Malformed, <<>>}}
        \cup {<<"search", [query |-> Blank]>>, <<"search", [query |-> "q", limit |-> -1]>>,
              <<"search", [query |-> "q", strategy |-> "unsupported"]>>,
              <<"search", [query |-> "q", source |-> docs, sources |-> {docs}]>>,
              <<"query", [source |-> docs, container |-> "ref"]>>,
              <<"fetch", [items |-> <<[ref |-> "ref", projection |-> {"content"}]>>]>>,
              <<"fetch", [items |-> <<[ref |-> "ref", projection |-> {}]>>]>>,
              <<"expand", [ref |-> "ref", max_depth |-> 3]>>,
              <<"resolve", [text |-> "name"]>>, <<"rank", [weights |-> {-1}]>>,
              <<"limit", [top_k |-> -1]>>, <<"merge", [top_k |-> 1]>>, <<"delete", Absent>>}}

\* Reads below a search, and reads beyond every limit.
Reads ==
    {Plan(<<Node("a", "search", <<>>, SearchReq),
            [Node("b", "map_fetch", <<"a">>, [top_k |-> k, max_items |-> m]) EXCEPT !.maxItems = 5]>>,
          <<"a", "b">>, b) :
        k \in {-1, 0, 2, 4}, m \in {0, 9}, b \in {NoBudget, [d \in Dim |-> 2]}}

MCDrafts == Graphs \cup Loose \cup Single \cup Reads
MCFindings == {<<>>, <<o1>>, <<o1, o1>>, <<o2, o1>>}
=============================================================================

-------------------------- MODULE MCPlanExecutor --------------------------
(***************************************************************************)
(* Small plans for PlanExecutor: every shape of a DAG over three nodes,    *)
(* with the kinds of operation the scheduler tells apart.                  *)
(***************************************************************************)
EXTENDS PlanExecutor

CONSTANTS a, b, c

MCNode == {a, b, c}

\* depends_on, up to renaming: a has none, b may need a, c any of the two in
\* either order.
Shapes ==
    {[n \in MCNode |-> CASE n = a -> <<>> [] n = b -> db [] OTHER -> dc] :
        db \in {<<>>, <<a>>},
        dc \in {<<>>, <<a>>, <<b>>, <<a, b>>, <<b, a>>}}

Make(shape, ops, opt, session) ==
    [dependsOn |-> shape, op |-> ops, optional |-> [n \in MCNode |-> n \in opt],
     priority |-> [n \in MCNode |-> IF n = b THEN 2 ELSE 1],
     retry |-> [n \in MCNode |-> IF n = c THEN 1 ELSE 0], session |-> session]

Ops(x, y, z) == [n \in MCNode |-> CASE n = a -> x [] n = b -> y [] OTHER -> z]

\* Session operations only, and pipelines whose tail computes locally.
MCPlans ==
    {Make(sh, Ops("search", "query", "fetch"), {}, NoSession) : sh \in Shapes}
    \cup {Make(sh, Ops("search", "resolve", "merge"), {b}, NoSession) : sh \in Shapes}
    \cup {Make(sh, Ops("search", "map_fetch", "rank"), {}, GivenSession) : sh \in Shapes}

\* The optional node b between nodes that are not.
MCOptionalPlans == {Make(sh, Ops("search", "query", "fetch"), {b}, NoSession) : sh \in Shapes}
============================================================================

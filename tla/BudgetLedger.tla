---------------------------- MODULE BudgetLedger ----------------------------
(***************************************************************************)
(* The budget account of internal/budget/ledger.go.  A ledger is shared by *)
(* every operation of a plan, or owned by one stand-alone operation; its   *)
(* mutex makes each operation below one step of the module that uses it.   *)
(***************************************************************************)
EXTENDS Integers

\* The four limits of kernel.SearchBudget that are counted.
Dimension == {"calls", "fetches", "expanded", "bytes"}

Cost == [Dimension -> Int]

Ledger == [max : [Dimension -> Nat], used : [Dimension -> Nat]]

\* CostEstimate{Calls: c, Fetches: f}, the other fields zero.
FetchCost(c, f) ==
    [d \in Dimension |-> IF d = "calls" THEN c ELSE IF d = "fetches" THEN f ELSE 0]

\* CostEstimate with bytes only: what AddBytes charges.
ByteCost(b) == [d \in Dimension |-> IF d = "bytes" THEN b ELSE 0]

NewLedger(max) == [max |-> max, used |-> [d \in Dimension |-> 0]]

\* Mutant: every dimension is compared with what is used, not with what will be.
CanReserveLate(l, cost) ==
    \A d \in Dimension : cost[d] >= 0 /\ l.used[d] <= l.max[d]

\* Reserve's test, apart from the deadline: no cost is negative and every
\* dimension has room for all of it.
CanReserve(l, cost) ==
    \A d \in Dimension : cost[d] >= 0 /\ l.used[d] + cost[d] <= l.max[d]

\* Reserve's effect: all dimensions at once.
Charge(l, cost) == [l EXCEPT !.used = [d \in Dimension |-> l.used[d] + cost[d]]]

\* No dimension is overdrawn.
WithinBudget(l) == \A d \in Dimension : l.used[d] <= l.max[d]
=============================================================================

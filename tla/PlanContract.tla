---------------------------- MODULE PlanContract ----------------------------
(***************************************************************************)
(* What Executor.Execute promises its callers, without heaps, counters,    *)
(* channels or sessions: a node is attempted only after everything it      *)
(* depends on has settled, a settled node stays settled, and one result is *)
(* delivered, when all nodes have settled.                                 *)
(***************************************************************************)
CONSTANT Node

VARIABLES
    prereq,     \* the nodes each node depends on, fixed by the plan
    phase,      \* "idle" (never tried, or waiting to be), "active", "settled"
    delivered   \* the PlanResult is out

cvars == <<prereq, phase, delivered>>

CInit ==
    /\ prereq \in [Node -> SUBSET Node]
    /\ phase = [n \in Node |-> "idle"]
    /\ delivered = FALSE

\* An attempt begins.
Begin(n) ==
    /\ phase[n] = "idle"
    /\ \A d \in prereq[n] : phase[d] = "settled"
    /\ phase' = [phase EXCEPT ![n] = "active"]
    /\ UNCHANGED <<prereq, delivered>>

\* An attempt failed and another one will be made.
GiveBack(n) ==
    /\ phase[n] = "active"
    /\ phase' = [phase EXCEPT ![n] = "idle"]
    /\ UNCHANGED <<prereq, delivered>>

\* Nodes end: one on its own account, or several by cancellation.
Settle(S) ==
    /\ \A n \in S : phase[n] # "settled"
    /\ phase' = [n \in Node |-> IF n \in S THEN "settled" ELSE phase[n]]
    /\ UNCHANGED <<prereq, delivered>>

Deliver ==
    /\ ~delivered
    /\ \A n \in Node : phase[n] = "settled"
    /\ delivered' = TRUE
    /\ UNCHANGED <<prereq, phase>>

CNext ==
    \/ \E n \in Node : Begin(n) \/ GiveBack(n)
    \/ \E S \in SUBSET Node : Settle(S)
    \/ Deliver

CSpec == CInit /\ [][CNext]_cvars
=============================================================================

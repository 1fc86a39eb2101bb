---------------------------- MODULE MCGoroutines ---------------------------
(***************************************************************************)
(* Two handlers that wait for goroutines of their own: expansions, which   *)
(* wait for the calls of a level (MCExpand), and the event streams, which  *)
(* wait for the work they report on.  The two share no state, so part says *)
(* which of them a behaviour is about and the other one stays in one       *)
(* initial state, in which no step of it is due.                           *)
(***************************************************************************)
EXTENDS MCExpand, EventStream

VARIABLE part

bothVars == <<part, vars, streamVars>>

BothInit ==
    /\ part \in {"expand", "stream"}
    /\ Init /\ StreamInit
    /\ part = "expand" => mode = "json"
    /\ part = "stream" => kind = [o \in Object |-> "expands"]

ExpandStep == part = "expand" /\ Next /\ UNCHANGED <<part, streamVars>>
StreamStep(A) == part = "stream" /\ A /\ UNCHANGED <<part, vars>>

BothNext == ExpandStep \/ StreamStep(StreamNext)

\* The fairness of Spec and of StreamSpec.
BothSpec ==
    /\ BothInit /\ [][BothNext]_bothVars
    /\ WF_bothVars(ExpandStep)
    /\ WF_bothVars(StreamStep(Worker)) /\ WF_bothVars(StreamStep(Handler))
=============================================================================

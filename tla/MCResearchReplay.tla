-------------------------- MODULE MCResearchReplay -------------------------
(***************************************************************************)
(* A research request as MCResearch has it, and the recordings that a      *)
(* request can be repeated from, as MCReplay has them.  The two share no   *)
(* state, so part says which of them a behaviour is about and the other    *)
(* one stays in one initial state.                                         *)
(***************************************************************************)
EXTENDS MCResearch, MCReplay

VARIABLE part

bothVars == <<part, vars, replayVars>>

BothInit ==
    /\ part \in {"research", "replay"}
    /\ Init /\ ReplayInit
    /\ part = "replay" =>
           /\ request = CHOOSE r \in Requests : TRUE
           /\ caps = CHOOSE c \in Capabilities : TRUE
           /\ planner = "rules"

\* A research request ends; a process can always be started or stopped.
Ended == part = "research" /\ pc \in {"done", "failed"} /\ UNCHANGED bothVars

BothNext ==
    \/ part = "research" /\ Next /\ UNCHANGED <<part, replayVars>>
    \/ part = "replay" /\ ReplayNext /\ UNCHANGED <<part, vars>>
    \/ Ended

BothSpec == BothInit /\ [][BothNext]_bothVars
=============================================================================

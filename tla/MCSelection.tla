---------------------------- MODULE MCSelection ----------------------------
(***************************************************************************)
(* Where a search takes its providers from and what becomes of their hits: *)
(* the registry of MCRegistry and the fusion of MCFusion.  The two share   *)
(* no state, so part says which of them a behaviour is about and the other *)
(* one stays in one initial state.                                         *)
(***************************************************************************)
EXTENDS MCRegistry, MCFusion

VARIABLE part

bothVars == <<part, vars, fuseVars>>

BothInit ==
    /\ part \in {"registry", "fusion"}
    /\ Init /\ FuseInit
    /\ part = "registry" => Len(all) = 1 /\ all[1] = Hit(1, "docs", "p", 2, 3) /\ limit = 0 /\ ~useQuota

BothNext ==
    \/ part = "registry" /\ Next /\ UNCHANGED <<part, fuseVars>>
    \/ part = "fusion" /\ FuseNext /\ UNCHANGED <<part, vars>>

BothSpec == BothInit /\ [][BothNext]_bothVars
=============================================================================

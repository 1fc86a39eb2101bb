------------------------------ MODULE MCExpand ------------------------------
(***************************************************************************)
(* A root with two neighbours that refer back to it and to a common third  *)
(* object, expanded by one call to the full depth; a second call expands a *)
(* neighbour and a third one an object known only from the others.         *)
(***************************************************************************)
EXTENDS Expand, TLC

CONSTANTS t1, t2, t3, r, a, b, c

MCGraph == (r :> {a, b}) @@ (a :> {r, c}) @@ (b :> {c}) @@ (c :> {a})
MCRoot == (t1 :> r) @@ (t2 :> a) @@ (t3 :> c)
MCMaxDepth == (t1 :> 3) @@ (t2 :> 0) @@ (t3 :> 1)
MCKinds == {[o \in Object |-> "expands"]}
           \cup {[o \in Object |-> IF o = x THEN k ELSE "expands"] :
                    x \in Object, k \in {"unsupported", "refused"}}
MCLimits == ("calls" :> 5) @@ ("fetches" :> 0) @@ ("expanded" :> 4) @@ ("bytes" :> 4)
=============================================================================

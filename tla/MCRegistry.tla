----------------------------- MODULE MCRegistry -----------------------------
(***************************************************************************)
(* Two providers of one source: p1 supports one operation and probes it,   *)
(* p2 supports both and has no health checks.                              *)
(***************************************************************************)
EXTENDS Registry, TLC

CONSTANTS p1, p2, search, resolve, k1, k2

MCOpOrder == <<resolve, search>>
MCSupports == (p1 :> {search}) @@ (p2 :> {search, resolve})
ProbeSymmetry == Permutations(Probe)
=============================================================================

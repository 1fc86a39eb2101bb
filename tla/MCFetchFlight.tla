--------------------------- MODULE MCFetchFlight ---------------------------
(***************************************************************************)
(* Overlapping Fetch requests on one session.                              *)
(***************************************************************************)
EXTENDS FetchFlight, TLC

CONSTANTS r1, r2, r3, x, y, z, s, t, planAccount, ownAccount

MCProjection == {s, t}
MCLimits ==
    planAccount :> [d \in Dimension |-> IF d = "bytes" THEN 1 ELSE 2] @@ ownAccount :> [d \in Dimension |-> 8]

\* Three requests, two of them nodes of one plan whose budget pays for two
\* fetches and one artifact.  x is half materialised: r1 and r3 ask the rest of
\* it, r2 all of it.  No provider can fetch z.
SharedRequest == {r1, r2, r3}
SharedObject == {x, y, z}
SharedWanted ==
    r1 :> (x :> {s} @@ y :> {s} @@ z :> {})
        @@ r2 :> (x :> {s, t} @@ y :> {} @@ z :> {})
        @@ r3 :> (x :> {s} @@ y :> {} @@ z :> {s})
SharedArtifacts == x :> {t} @@ y :> {} @@ z :> {}
SharedAccount == r1 :> planAccount @@ r2 :> planAccount @@ r3 :> ownAccount
============================================================================

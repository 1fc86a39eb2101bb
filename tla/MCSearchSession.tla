-------------------------- MODULE MCSearchSession --------------------------
(***************************************************************************)
(* Calls on one session, over a source with three pages and one with none. *)
(***************************************************************************)
EXTENDS SearchSession, TLC

CONSTANTS c1, c2, c3, docs, chats, planAccount, ownAccount

MCSource == {docs, chats}
MCLastPage == docs :> 3 @@ chats :> 0

Limit(calls, bytes) ==
    [d \in Dimension |-> IF d = "bytes" THEN bytes ELSE calls]
MCLimits == planAccount :> Limit(4, 3) @@ ownAccount :> Limit(2, 2)

\* A search and a query on one ledger, and a Continue of what has more.
MCCall == {c1, c2, c3}
MCOp == c1 :> "search" @@ c2 :> "query" @@ c3 :> "continue"
MCAsked == c1 :> {docs, chats} @@ c2 :> {docs} @@ c3 :> {}
MCAccount == c1 :> planAccount @@ c2 :> planAccount @@ c3 :> ownAccount
============================================================================

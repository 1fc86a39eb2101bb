--------------------------- MODULE StreamContract ---------------------------
(***************************************************************************)
(* What a client of the HTTP API may rely on (docs/HTTP_API.md): events,   *)
(* then one terminal message, result or error, and nothing after it.  A    *)
(* response ends without a terminal message only when the connection was   *)
(* lost.                                                                   *)
(***************************************************************************)
EXTENDS Naturals, Sequences

VARIABLES
    delivered,  \* the events written, in order
    terminal,   \* "none", "result" or "error"
    lost,       \* the client is gone
    open        \* the handler has not returned

contractVars == <<delivered, terminal, lost, open>>

Init == delivered = <<>> /\ terminal = "none" /\ lost = FALSE /\ open = TRUE

\* One more event, the next in the order of the work.
Event ==
    /\ open /\ terminal = "none"
    /\ Len(delivered') = Len(delivered) + 1
    /\ SubSeq(delivered', 1, Len(delivered)) = delivered
    /\ \A i \in DOMAIN delivered : delivered[i] < delivered'[Len(delivered')]
    /\ UNCHANGED <<terminal, lost, open>>

Terminate ==
    /\ open /\ terminal = "none"
    /\ terminal' \in {"result", "error"}
    /\ UNCHANGED <<delivered, lost, open>>

Disconnect == ~lost /\ lost' = TRUE /\ UNCHANGED <<delivered, terminal, open>>

Close ==
    /\ open /\ (terminal = "none" => lost)
    /\ open' = FALSE
    /\ UNCHANGED <<delivered, terminal, lost>>

Next == Event \/ Terminate \/ Disconnect \/ Close

Spec == Init /\ [][Next]_contractVars
=============================================================================

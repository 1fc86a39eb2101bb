---------------------------- MODULE MessageFetch ----------------------------
(***************************************************************************)
(* MessagesProvider of adapter/openapi/messages.go: message bodies are     *)
(* read one by one by a pool of workers (mget), fed over an unbuffered     *)
(* channel; Fetch, Expand and Search build on it.  A caller runs one call  *)
(* at a time.                                                              *)
(*                                                                         *)
(* A message is answered "full", "thin" (without the projection asked),    *)
(* "other" (one with an id nobody asked for), "empty" (no such message) or *)
(* with an "error".                                                        *)
(***************************************************************************)
EXTENDS Integers, SequencesExt

CONSTANTS
    Proc,        \* callers
    MessageId,
    MaxWorkers   \* 6

ASSUME PoolAssumption == MaxWorkers \in Nat \ {0}

VARIABLE
    pool   \* [Proc -> the call of mget]

Worker == 1 .. MaxWorkers

IdleBatch ==
    [state |-> "idle",   \* "idle", "feeding", "closed" or "done"
     ids |-> <<>>, next |-> 1,
     job |-> [w \in Worker |-> 0],   \* index in hand, 0 for none
     results |-> <<>>, firstError |-> FALSE, cancelled |-> FALSE, aborted |-> FALSE,
     said |-> <<>>]      \* answers per index: for properties only

PoolInit == pool = [p \in Proc |-> IdleBatch]

\* mget starts no more workers than it has ids.
Mget(p, ids) ==
    pool' = [pool EXCEPT ![p] =
        [IdleBatch EXCEPT !.state = IF ids = <<>> THEN "done" ELSE "feeding", !.ids = ids,
                     !.results = [i \in DOMAIN ids |-> "none"],
                     !.said = [i \in DOMAIN ids |-> <<>>]]]

\* jobs <- index, taken by a waiting worker.
Send(p, w) ==
    LET c == pool[p]
    IN /\ c.state = "feeding" /\ c.next <= Len(c.ids)
       /\ w <= Len(c.ids) /\ c.job[w] = 0
       /\ pool' = [pool EXCEPT ![p].job[w] = c.next, ![p].next = c.next + 1]

CloseJobs(p) ==
    /\ pool[p].state = "feeding" /\ pool[p].next > Len(pool[p].ids)
    /\ pool' = [pool EXCEPT ![p].state = "closed"]

\* The caller's context is cancelled or its deadline passes.
Cancel(p) ==
    /\ pool[p].state \in {"feeding", "closed"} /\ ~pool[p].cancelled
    /\ pool' = [pool EXCEPT ![p].cancelled = TRUE]

\* Mutant: the feeder just stops, as if every id had been handed out.
AbortSilently(p) ==
    /\ pool[p].state = "feeding" /\ pool[p].cancelled /\ pool[p].next <= Len(pool[p].ids)
    /\ pool' = [pool EXCEPT ![p].state = "closed"]

\* <-ctx.Done() in the feeder: the rest is not handed out and the call fails.
Abort(p) ==
    /\ pool[p].state = "feeding" /\ pool[p].cancelled /\ pool[p].next <= Len(pool[p].ids)
    /\ pool' = [pool EXCEPT ![p].state = "closed", ![p].aborted = TRUE]

\* getMessageSDK returns: the worker stores the message or the first error.
Reply(p, w) ==
    LET i == pool[p].job[w]
    IN /\ i # 0
       /\ \E answer \in {"full", "thin", "other", "empty", "error"} :
             pool' = [pool EXCEPT
                ![p].job[w] = 0, ![p].said[i] = Append(@, answer),
                ![p].firstError = @ \/ answer = "error",
                ![p].results[i] = IF answer \in {"full", "thin", "other"} THEN answer ELSE @]

\* wait.Wait(): the workers leave the closed channel when they are idle.
Wait(p) ==
    /\ pool[p].state = "closed" /\ \A w \in Worker : pool[p].job[w] = 0
    /\ pool' = [pool EXCEPT ![p].state = "done"]

PoolStep(p) ==
    \/ \E w \in Worker : Send(p, w) \/ Reply(p, w)
    \/ CloseJobs(p) \/ Abort(p) \/ Wait(p)

---------------------------------------------------------------------------
MgetFails(p) == pool[p].aborted \/ pool[p].firstError

\* The messages found, as positions in the batch: they keep its order.  One that
\* was not asked for is skipped by its id.
FoundMessages(p) == {i \in DOMAIN pool[p].ids : pool[p].results[i] \in {"full", "thin"}}

Failure == [ok |-> FALSE, messages |-> {}, enriched |-> {}]

\* Fetch: one artifact per message found, or an error for all of them.
FetchOutcome(p) ==
    IF MgetFails(p) \/ "thin" \in ToSet(pool[p].results) THEN Failure
    ELSE [ok |-> TRUE, messages |-> FoundMessages(p), enriched |-> {}]

\* Search: one candidate per id, with the details that could be read.
SearchOutcome(p) ==
    [ok |-> TRUE, messages |-> DOMAIN pool[p].ids,
     enriched |-> IF MgetFails(p) THEN {} ELSE FoundMessages(p)]

---------------------------------------------------------------------------
\* When mget returns no worker is left writing into its results, and it
\* succeeds only if every id was asked for exactly once and none failed: a
\* cancelled or half-failed batch is never taken for a complete one.
PoolExact ==
    \A p \in Proc : pool[p].state = "done" =>
        /\ \A w \in Worker : pool[p].job[w] = 0
        /\ ~MgetFails(p) => \A i \in DOMAIN pool[p].ids :
              \E answer \in {"full", "thin", "other", "empty"} :
                  /\ pool[p].said[i] = <<answer>>
                  /\ pool[p].results[i] = IF answer = "empty" THEN "none" ELSE answer
=============================================================================

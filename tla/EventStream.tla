---------------------------- MODULE EventStream ----------------------------
(***************************************************************************)
(* The HTTP handlers that run long work (transport/httpapi/server.go):     *)
(* research and ask over SSE, plans over SSE and plans answered as JSON.   *)
(* A goroutine does the work, sends events on one channel and its outcome  *)
(* on another, and closes both; the handler selects on the two channels    *)
(* and on the request's context.                                           *)
(*                                                                         *)
(* An event is its number.  The work itself is Research or PlanExecutor;   *)
(* here it sends some events and ends with an outcome.                     *)
(***************************************************************************)
EXTENDS Naturals, Sequences

CONSTANTS
    EventCap,   \* capacity of a plan's events channel (256)
    MaxEvents   \* bound: events one piece of work sends

ASSUME StreamAssumption == EventCap \in Nat \ {0} /\ MaxEvents \in Nat

VARIABLES
    mode,         \* "workflow", "plan" or "json"
    handler,      \* "decode", "select", "terminal" or "returned"
    worker,       \* "none", "running", "sending", "outcome", "closing" or "ended"
    emitted,      \* number of the last event the work produced
    skipped,      \* events given up because a context was done: for properties only
    queue,        \* the events channel
    outcome,      \* the buffered outcome channel: "none" or a message
    eventsClosed, outcomesClosed,
    eventCh, outcomeCh,   \* FALSE once the handler set its copy to nil
    final,        \* finalResult: the plan's result, held back
    expired,      \* the plan's own deadline has passed
    delivered, terminal, lost    \* what the client saw; whether it is gone

workerVars == <<worker, emitted, skipped, queue, outcome, eventsClosed, outcomesClosed>>
loopVars == <<eventCh, outcomeCh, final>>
clientVars == <<delivered, terminal>>
streamVars == <<mode, handler, workerVars, loopVars, expired, clientVars, lost>>

StreamInit ==
    /\ mode \in {"workflow", "plan", "json"}
    /\ handler = "decode" /\ worker = "none"
    /\ emitted = 0 /\ skipped = {} /\ queue = <<>> /\ outcome = "none"
    /\ eventsClosed = FALSE /\ outcomesClosed = FALSE
    /\ eventCh = TRUE /\ outcomeCh = TRUE /\ final = "none"
    /\ expired = FALSE
    /\ delivered = <<>> /\ terminal = "none" /\ lost = FALSE

\* The context of the work: cancelled when the client goes away, when the
\* handler returns, and for a plan when its budget's deadline passes.
CtxDone == lost \/ handler = "returned" \/ expired

---------------------------------------------------------------------------
(* The request *)

\* A request that is refused (host, origin, body, query, plan, no answerer,
\* no flusher) is answered with one error and starts no work.
RefuseRequest ==
    /\ handler = "decode"
    /\ handler' = "terminal" /\ terminal' = "error"
    /\ UNCHANGED <<mode, workerVars, loopVars, expired, delivered, lost>>

StartWork ==
    /\ handler = "decode"
    /\ handler' = "select" /\ worker' = "running"
    /\ UNCHANGED <<mode, emitted, skipped, queue, outcome, eventsClosed, outcomesClosed,
                   loopVars, expired, clientVars, lost>>

Disconnect ==
    /\ handler # "returned" /\ ~lost
    /\ lost' = TRUE
    /\ UNCHANGED <<mode, handler, workerVars, loopVars, expired, clientVars>>

Deadline ==
    /\ mode # "workflow" /\ worker \notin {"none", "ended"} /\ ~expired
    /\ expired' = TRUE
    /\ UNCHANGED <<mode, handler, workerVars, loopVars, clientVars, lost>>

---------------------------------------------------------------------------
(* The worker *)

WorkerStep == UNCHANGED <<mode, handler, loopVars, expired, clientVars, lost>>

\* observer or emit: a send that waits until it is taken or its context is done.
Produce ==
    /\ worker = "running" /\ emitted < MaxEvents
    /\ worker' = "sending" /\ emitted' = emitted + 1
    /\ UNCHANGED <<skipped, queue, outcome, eventsClosed, outcomesClosed>> /\ WorkerStep

\* A workflow's channel has no buffer: only the handler takes its events.
Buffer ==
    /\ worker = "sending" /\ mode # "workflow" /\ Len(queue) < EventCap
    /\ queue' = Append(queue, emitted) /\ worker' = "running"
    /\ UNCHANGED <<emitted, skipped, outcome, eventsClosed, outcomesClosed>> /\ WorkerStep

\* Mutant: the observer does not watch its context.
GiveUpNever ==
    /\ worker = "sending" /\ FALSE
    /\ UNCHANGED workerVars /\ WorkerStep

GiveUp ==
    /\ worker = "sending" /\ CtxDone
    /\ skipped' = skipped \cup {emitted} /\ worker' = "running"
    /\ UNCHANGED <<emitted, queue, outcome, eventsClosed, outcomesClosed>> /\ WorkerStep

\* The result, or for a workflow an error or a recovered panic: one send on
\* a channel with room for it.
Finish ==
    /\ worker = "running"
    /\ outcome' \in IF mode = "workflow" THEN {"result", "error"} ELSE {"result"}
    /\ worker' = "outcome"
    /\ UNCHANGED <<emitted, skipped, queue, eventsClosed, outcomesClosed>> /\ WorkerStep

\* The deferred closes run in reverse order.
CloseOutcomes ==
    /\ worker = "outcome"
    /\ outcomesClosed' = TRUE /\ worker' = "closing"
    /\ UNCHANGED <<emitted, skipped, queue, outcome, eventsClosed>> /\ WorkerStep

CloseEvents ==
    /\ worker = "closing"
    /\ eventsClosed' = TRUE /\ worker' = "ended"
    /\ UNCHANGED <<emitted, skipped, queue, outcome, outcomesClosed>> /\ WorkerStep

Worker == Produce \/ Buffer \/ GiveUp \/ Finish \/ CloseOutcomes \/ CloseEvents

---------------------------------------------------------------------------
(* The handler *)

Selecting == handler = "select" /\ (eventCh \/ outcomeCh)

\* send: a write to a lost client may fail, which ends the handler.
WriteEvent(n) ==
    \/ delivered' = Append(delivered, n) /\ UNCHANGED <<handler, terminal>>
    \/ lost /\ mode # "json" /\ handler' = "returned" /\ UNCHANGED clientVars

\* An event, from the buffer or from the hands of a waiting worker.
TakeEvent ==
    /\ Selecting /\ eventCh
    /\ \/ queue # <<>> /\ WriteEvent(Head(queue)) /\ queue' = Tail(queue) /\ UNCHANGED worker
       \/ /\ queue = <<>> /\ worker = "sending"
          /\ WriteEvent(emitted) /\ worker' = "running" /\ UNCHANGED queue
    /\ UNCHANGED <<mode, emitted, skipped, outcome, eventsClosed, outcomesClosed, loopVars,
                   expired, lost>>

EventsEnd ==
    /\ Selecting /\ eventCh /\ eventsClosed /\ queue = <<>>
    /\ eventCh' = FALSE
    /\ UNCHANGED <<mode, handler, workerVars, outcomeCh, final, expired, clientVars, lost>>

\* Mutant: a plan's result is written as soon as it arrives.
TakeOutcomeAtOnce ==
    /\ Selecting /\ outcomeCh /\ outcome # "none"
    /\ outcome' = "none" /\ terminal' = outcome /\ UNCHANGED <<final, handler>>
    /\ UNCHANGED <<mode, worker, emitted, skipped, queue, eventsClosed, outcomesClosed, eventCh,
                   outcomeCh, expired, delivered, lost>>

\* streamWorkflow writes the outcome when it takes it; a plan's result waits
\* for the end of its events.
TakeOutcome ==
    /\ Selecting /\ outcomeCh /\ outcome # "none"
    /\ outcome' = "none"
    /\ IF mode = "workflow"
       THEN \/ terminal' = outcome /\ UNCHANGED <<final, handler>>
            \/ lost /\ handler' = "returned" /\ UNCHANGED <<final, terminal>>
       ELSE final' = outcome /\ UNCHANGED <<terminal, handler>>
    /\ UNCHANGED <<mode, worker, emitted, skipped, queue, eventsClosed, outcomesClosed, eventCh,
                   outcomeCh, expired, delivered, lost>>

OutcomesEnd ==
    /\ Selecting /\ outcomeCh /\ outcomesClosed /\ outcome = "none"
    /\ outcomeCh' = FALSE
    /\ UNCHANGED <<mode, handler, workerVars, eventCh, final, expired, clientVars, lost>>

\* <-r.Context().Done(): a stream just ends, a JSON handler writes the error.
Abandon ==
    /\ Selecting /\ lost
    /\ IF mode = "json" THEN handler' = "terminal" /\ terminal' = "error"
       ELSE handler' = "returned" /\ UNCHANGED terminal
    /\ UNCHANGED <<mode, workerVars, loopVars, expired, delivered, lost>>

\* Mutant: the loop ends with the first channel that closes.
WriteFinalEarly ==
    /\ handler = "select" /\ ~(eventCh /\ outcomeCh)
    /\ handler' = "terminal"
    /\ terminal' = CASE mode = "workflow" -> terminal
                     [] mode = "plan" /\ final = "none" -> "error"
                     [] OTHER -> "result"
    /\ UNCHANGED <<mode, workerVars, loopVars, expired, delivered, lost>>

\* Both channels are closed: a plan's result is written now, as JSON whether or
\* not one arrived.
WriteFinal ==
    /\ handler = "select" /\ ~eventCh /\ ~outcomeCh
    /\ handler' = "terminal"
    /\ terminal' = CASE mode = "workflow" -> terminal
                     [] mode = "plan" /\ final = "none" -> "error"
                     [] OTHER -> "result"
    /\ UNCHANGED <<mode, workerVars, loopVars, expired, delivered, lost>>

HandlerReturns ==
    /\ handler = "terminal"
    /\ handler' = "returned"
    /\ UNCHANGED <<mode, workerVars, loopVars, expired, clientVars, lost>>

Handler ==
    TakeEvent \/ EventsEnd \/ TakeOutcome \/ OutcomesEnd \/ Abandon \/ WriteFinal \/ HandlerReturns

StreamNext == RefuseRequest \/ StartWork \/ Disconnect \/ Deadline \/ Worker \/ Handler

\* Goroutines run; the work ends because its own calls are bounded.  Clients
\* need not stay and deadlines need not pass.
StreamSpec ==
    /\ StreamInit /\ [][StreamNext]_streamVars
    /\ WF_streamVars(Worker) /\ WF_streamVars(Handler)

---------------------------------------------------------------------------
\* The handlers keep the contract of docs/HTTP_API.md: the events in order,
\* one terminal message after all of them, none missing unless the client left.
Contract == INSTANCE StreamContract WITH open <- handler # "returned"
StreamKept == Contract!Spec

\* A client that stays is shown every event the work did not itself give up,
\* once and in order, before the terminal message, even though the result may overtake the
\* events on its own channel; only a plan past its deadline gives one up.
NothingOvertaken ==
    terminal # "none" /\ ~lost /\ worker # "none" =>
        /\ {delivered[i] : i \in DOMAIN delivered} = (1 .. emitted) \ skipped
        /\ \A i, j \in DOMAIN delivered : i < j => delivered[i] < delivered[j]
        /\ skipped # {} => expired

\* Once work is started, its goroutine and its handler both end, also when
\* the client leaves while an event waits to be taken.
StreamEnds == (worker = "running") ~> (worker = "ended" /\ handler = "returned")
=============================================================================

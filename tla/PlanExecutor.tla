---------------------------- MODULE PlanExecutor ----------------------------
(***************************************************************************)
(* The plan executor, internal/planexec/executor.go: one scheduler         *)
(* goroutine (Executor.run) walks a DAG of retrieval nodes, launches one   *)
(* goroutine per node attempt (executeNode), and learns of their results   *)
(* on the buffered channel `completed'.  It reports progress on the        *)
(* bounded channel `events' and one PlanResult on `results'.               *)
(*                                                                         *)
(* Time is abstract: the context may expire at any step, and a retry may   *)
(* become due at any step.  The scheduler's loop is cut where another      *)
(* goroutine can be observed: at every emit (which may block on a full     *)
(* event buffer) and at the select.                                        *)
(***************************************************************************)
EXTENDS Integers, Sequences, FiniteSets

CONSTANTS
    Node,               \* ids of the plan's nodes
    Plans,              \* the plans a behaviour may execute
    GlobalConcurrency,  \* argument of New: engine configuration
    EventCap,           \* capacity of the events channel (256 in the code)
    MaxItems,           \* bound: candidates and artifacts one node returns
    NoSession,          \* the empty session id
    GivenSession        \* the id of the session a plan asks to reuse

SessionOps == {"search", "query", "fetch", "expand", "map_fetch"}
LocalOps   == {"merge", "dedup", "rank", "limit", "project"}
PlanOp     == SessionOps \cup LocalOps \cup {"resolve"}

(* A plan as run() receives it.  retry[n] is node.Retry.MaxAttempts, 0 when *)
(* the plan leaves it out; dependsOn keeps the order of depends_on.         *)
RetrievalPlan ==
    [dependsOn : [Node -> Seq(Node)], op : [Node -> PlanOp],
     optional : [Node -> BOOLEAN], priority : [Node -> Int],
     retry : [Node -> Nat], session : {NoSession, GivenSession}]

(* A session created on behalf of a node is named after the node: ids are    *)
(* unique, and a node whose session became known never creates another.     *)
SessionId == {NoSession, GivenSession} \cup Node

ASSUME ExecutorAssumption ==
    /\ IsFiniteSet(Node) /\ Node # {}
    /\ Plans \subseteq RetrievalPlan
    /\ GlobalConcurrency \in Int
    /\ EventCap \in Nat \ {0}
    /\ MaxItems \in Nat
    /\ NoSession # GivenSession /\ NoSession \notin Node /\ GivenSession \notin Node

\* New: a non-positive setting falls back to four goroutines.
concurrency == IF GlobalConcurrency <= 0 THEN 4 ELSE GlobalConcurrency

VARIABLES
    plan,      \* the plan, fixed by Execute
    st,        \* runtimeNode.state
    res,       \* runtimeNode.result: its State and the class of its Error
    attempt,   \* runtimeNode.attempt
    ready,     \* ids on the ready heap
    retries,   \* ids on the retry heap
    running, terminal,
    sessionID,
    task,      \* the node's goroutine and its message on `completed'
    ctxDone,   \* ctx.Done() is closed: caller cancelled or deadline passed
    pc,        \* where the scheduler goroutine is
    upserts,   \* candidate/artifact events still to emit for the node just done
    unswept,   \* blocked nodes the dependency pass has not visited yet
    buffered,  \* events in the channel
    announced, \* nodes whose node.completed was emitted while ctx was alive
    result     \* what was sent on `results'

vars == <<plan, st, res, attempt, ready, retries, running, terminal, sessionID,
          task, ctxDone, pc, upserts, unswept, buffered, announced, result>>

TerminalState == {"succeeded", "partial", "empty", "failed", "skipped", "cancelled"}
NodeState == {"blocked", "ready", "running", "retry_wait"} \cup TerminalState
FailureState == {"failed", "cancelled", "skipped"}
ErrorClass == {"none", "executed", "dependency", "unscheduled", "cancelled"}

isTerminal(s) == s \in TerminalState

acceptsPartial(op) ==
    op \in {"merge", "dedup", "rank", "limit", "project", "map_fetch"}

maxAttempts(n) ==
    IF plan.retry[n] > 0 THEN plan.retry[n]
    ELSE IF plan.op[n] \in SessionOps \cup {"resolve"} THEN 2 ELSE 1

----------------------------------------------------------------------------
(* dependencyState walks depends_on in order and stops at the first         *)
(* dependency that is unfinished (wait) or failed without tolerance (skip). *)

Intolerant(n) == ~plan.optional[n] /\ ~acceptsPartial(plan.op[n])

Deps(n) == plan.dependsOn[n]

DependencySkip(n) ==
    \E i \in DOMAIN Deps(n) :
        /\ st[Deps(n)[i]] \in FailureState /\ Intolerant(n)
        /\ \A j \in 1..(i-1) : isTerminal(st[Deps(n)[j]])

\* Mutant: one finished dependency is enough.
DependencyReadySome(n) ==
    /\ \E i \in DOMAIN Deps(n) : isTerminal(st[Deps(n)[i]])
    /\ ~DependencySkip(n)

DependencyReady(n) ==
    \A i \in DOMAIN Deps(n) :
        /\ isTerminal(st[Deps(n)[i]])
        /\ ~(st[Deps(n)[i]] \in FailureState /\ Intolerant(n))

----------------------------------------------------------------------------
(* Goroutines.  A node has at most one at a time: "working" inside          *)
(* executeNode with the session id it was given, then "sent" when its       *)
(* completion is in the channel, whose capacity is the number of nodes.     *)

Idle == [phase |-> "idle", state |-> "empty", retryable |-> FALSE,
         session |-> NoSession, items |-> 0]

TaskType == [phase : {"idle", "working", "sent"}, state : TerminalState,
             retryable : BOOLEAN, session : SessionId, items : 0..MaxItems]

Completion(state, retryable, sid, items) ==
    [phase |-> "sent", state |-> state, retryable |-> retryable,
     session |-> sid, items |-> items]

Launched(sid) ==
    [phase |-> "working", state |-> "empty", retryable |-> FALSE,
     session |-> sid, items |-> 0]

Init ==
    /\ plan \in Plans
    /\ st = [n \in Node |-> IF Len(plan.dependsOn[n]) = 0 THEN "ready" ELSE "blocked"]
    /\ res = [n \in Node |-> [state |-> "none", error |-> "none"]]
    /\ attempt = [n \in Node |-> 0]
    /\ ready = {n \in Node : st[n] = "ready"}
    /\ retries = {}
    /\ running = 0 /\ terminal = 0
    /\ sessionID = plan.session
    /\ task = [n \in Node |-> Idle]
    /\ ctxDone = FALSE
    /\ pc = "start"
    /\ upserts = 0
    /\ unswept = {}
    /\ buffered = 0
    /\ announced = {}
    /\ result = [sent |-> FALSE, partial |-> FALSE, session |-> NoSession]

\* emit: the select puts the event in the channel or gives up when ctx is done.
emit(t, n) ==
    \/ /\ buffered < EventCap
       /\ buffered' = buffered + 1
       /\ announced' = IF t = "node.completed" /\ ~ctxDone THEN announced \cup {n}
                       ELSE announced
    \/ ctxDone /\ UNCHANGED <<buffered, announced>>

\* Mutant: a plain send, which waits for the consumer for ever.
emitSessionBlocking ==
    buffered < EventCap /\ buffered' = buffered + 1 /\ UNCHANGED announced

\* session.* events and upserts: no node completes with them.
emitSession ==
    \/ buffered < EventCap /\ buffered' = buffered + 1 /\ UNCHANGED announced
    \/ ctxDone /\ UNCHANGED <<buffered, announced>>

\* The loop condition, evaluated with the new terminal count.
LoopHead == IF terminal' < Cardinality(Node) THEN "promote" ELSE "finish"

\* session.started, then the loop.
Start ==
    /\ pc = "start"
    /\ emitSession
    /\ pc' = "promote"
    /\ UNCHANGED <<plan, st, res, attempt, ready, retries, running, terminal,
                   sessionID, task, ctxDone, upserts, unswept, result>>

\* Mutant: promotion leaves the popped node in RETRY_WAIT and off both heaps.
PromoteForgetsState(due) ==
    /\ due \subseteq retries
    /\ retries' = retries \ due
    /\ ready' = ready
    /\ st' = st

\* Pop the due entries of the retry heap; those still waiting become ready.
PromoteDue(due) ==
    /\ due \subseteq retries
    /\ retries' = retries \ due
    /\ ready' = ready \cup {n \in due : st[n] = "retry_wait"}
    /\ st' = [n \in Node |-> IF n \in due /\ st[n] = "retry_wait" THEN "ready" ELSE st[n]]

\* Top of the loop: whatever is due by now is promoted.
Promote ==
    /\ pc = "promote"
    /\ \E due \in SUBSET retries : PromoteDue(due)
    /\ pc' = "dispatch"
    /\ UNCHANGED <<plan, res, attempt, running, terminal, sessionID, task,
                   ctxDone, upserts, unswept, buffered, announced, result>>

\* Mutant: nodes fan out before the first one has reported a session.
CanDispatchUnserialized == running < concurrency /\ ready # {}

\* The dispatch loop's condition and its break: without a session id only
\* one node may be running.
CanDispatch ==
    /\ running < concurrency /\ ready # {}
    /\ ~(sessionID = NoSession /\ running > 0)

\* Pop the ready heap (ties in any order: the first pushes follow a map
\* iteration) and launch the node.  HeapsAgree makes the state check after
\* the pop always succeed.
Dispatch(n) ==
    /\ pc = "dispatch" /\ CanDispatch
    /\ n \in ready /\ \A m \in ready : plan.priority[m] <= plan.priority[n]
    /\ ready' = ready \ {n}
    /\ st' = [st EXCEPT ![n] = "running"]
    /\ attempt' = [attempt EXCEPT ![n] = @ + 1]
    /\ running' = running + 1
    /\ emit("node.started", n)
    /\ task' = [task EXCEPT ![n] = Launched(sessionID)]
    /\ UNCHANGED <<plan, res, retries, terminal, sessionID, ctxDone, pc,
                   upserts, unswept, result>>

\* Mutant: finished nodes are overwritten too.
FinishAll(state, error) ==
    /\ st' = [n \in Node |-> state]
    /\ res' = [n \in Node |-> [state |-> state, error |-> error]]
    /\ terminal' = terminal + Cardinality({n \in Node : ~isTerminal(st[n])})

\* Mutant: RUNNING nodes are left to their goroutines.
FinishIdle(state, error) ==
    /\ st' = [n \in Node |-> IF isTerminal(st[n]) \/ st[n] = "running" THEN st[n] ELSE state]
    /\ res' = [n \in Node |-> IF isTerminal(st[n]) \/ st[n] = "running" THEN res[n]
                              ELSE [state |-> state, error |-> error]]
    /\ terminal' = Cardinality(Node)

\* Mark every unfinished node, count it, and leave the loop.
FinishRest(state, error) ==
    /\ st' = [n \in Node |-> IF isTerminal(st[n]) THEN st[n] ELSE state]
    /\ res' = [n \in Node |-> IF isTerminal(st[n]) THEN res[n]
                              ELSE [state |-> state, error |-> error]]
    /\ terminal' = terminal + Cardinality({n \in Node : ~isTerminal(st[n])})

\* Nothing runs, nothing is ready, nothing will be retried: what is left is
\* skipped as "node could not be scheduled", without an event.
Unschedulable ==
    /\ pc = "dispatch" /\ ~CanDispatch
    /\ running = 0 /\ ready = {} /\ retries = {}
    /\ FinishRest("skipped", "unscheduled")
    /\ pc' = "finish"
    /\ UNCHANGED <<plan, attempt, ready, retries, running, sessionID, task,
                   ctxDone, upserts, unswept, buffered, announced, result>>

Wait ==
    /\ pc = "dispatch" /\ ~CanDispatch
    /\ ~(running = 0 /\ ready = {} /\ retries = {})
    /\ pc' = "select"
    /\ UNCHANGED <<plan, st, res, attempt, ready, retries, running, terminal,
                   sessionID, task, ctxDone, upserts, unswept, buffered,
                   announced, result>>

\* select, first case: the earliest retry is due, so the next pass promotes
\* at least one node.
RetryTimer ==
    /\ pc = "select" /\ retries # {}
    /\ \E due \in SUBSET retries \ {{}} : PromoteDue(due)
    /\ pc' = "dispatch"
    /\ UNCHANGED <<plan, res, attempt, running, terminal, sessionID, task,
                   ctxDone, upserts, unswept, buffered, announced, result>>

\* select, second case: cancel whatever has not finished.  Goroutines keep
\* running; nobody will receive from `completed' again.
Cancelled ==
    /\ pc = "select" /\ ctxDone
    /\ FinishRest("cancelled", "cancelled")
    /\ running' = 0
    /\ pc' = LoopHead
    /\ UNCHANGED <<plan, attempt, ready, retries, sessionID, task, ctxDone,
                   upserts, unswept, buffered, announced, result>>

AdoptSession(sid) ==
    sessionID' = IF sessionID = NoSession /\ sid # NoSession THEN sid ELSE sessionID

WillRetry(n) ==
    /\ task[n].state = "failed" /\ task[n].retryable
    /\ attempt[n] < maxAttempts(n)

\* Only a failure's error is classed; a partial result may carry one of its
\* items' errors along.
Error(state) == IF state = "failed" THEN "executed" ELSE "none"

\* select, third case: the node failed and has attempts left.
ReceiveRetry(n) ==
    /\ pc = "select" /\ task[n].phase = "sent" /\ WillRetry(n)
    /\ AdoptSession(task[n].session)
    /\ task' = [task EXCEPT ![n] = Idle]
    /\ running' = running - 1
    /\ res' = [res EXCEPT ![n] = [state |-> "failed", error |-> "executed"]]
    /\ st' = [st EXCEPT ![n] = "retry_wait"]
    /\ retries' = retries \cup {n}
    /\ emit("node.retrying", n)
    /\ pc' = "promote"
    /\ UNCHANGED <<plan, attempt, ready, terminal, ctxDone, upserts,
                   unswept, result>>

\* select, third case: the node is done with; its candidates and artifacts
\* are announced and the blocked nodes looked at.
ReceiveFinal(n) ==
    /\ pc = "select" /\ task[n].phase = "sent" /\ ~WillRetry(n)
    /\ AdoptSession(task[n].session)
    /\ task' = [task EXCEPT ![n] = Idle]
    /\ running' = running - 1
    /\ res' = [res EXCEPT ![n] = [state |-> task[n].state, error |-> Error(task[n].state)]]
    /\ st' = [st EXCEPT ![n] = task[n].state]
    /\ terminal' = terminal + 1
    /\ emit("node.completed", n)
    /\ upserts' = task[n].items
    /\ unswept' = {m \in Node : st[m] = "blocked"}
    /\ pc' = "sweep"
    /\ UNCHANGED <<plan, attempt, ready, retries, ctxDone, result>>

\* One candidate.upsert or artifact.upsert.
Upsert ==
    /\ pc = "sweep" /\ upserts > 0
    /\ emitSession
    /\ upserts' = upserts - 1
    /\ UNCHANGED <<plan, st, res, attempt, ready, retries, running, terminal,
                   sessionID, task, ctxDone, pc, unswept, result>>

\* The pass over the runtime map, in Go's random order: each blocked node is
\* visited once, against the states as they are at that moment.
SweepSkip(n) ==
    /\ pc = "sweep" /\ upserts = 0 /\ n \in unswept
    /\ DependencySkip(n)
    /\ st' = [st EXCEPT ![n] = "skipped"]
    /\ res' = [res EXCEPT ![n] = [state |-> "skipped", error |-> "dependency"]]
    /\ terminal' = terminal + 1
    /\ emit("node.completed", n)
    /\ unswept' = unswept \ {n}
    /\ UNCHANGED <<plan, attempt, ready, retries, running, sessionID, task,
                   ctxDone, pc, upserts, result>>

SweepReady(n) ==
    /\ pc = "sweep" /\ upserts = 0 /\ n \in unswept
    /\ ~DependencySkip(n) /\ DependencyReady(n)
    /\ st' = [st EXCEPT ![n] = "ready"]
    /\ ready' = ready \cup {n}
    /\ unswept' = unswept \ {n}
    /\ UNCHANGED <<plan, res, attempt, retries, running, terminal, sessionID, task,
                   ctxDone, pc, upserts, buffered, announced, result>>

SweepWait(n) ==
    /\ pc = "sweep" /\ upserts = 0 /\ n \in unswept
    /\ ~DependencySkip(n) /\ ~DependencyReady(n)
    /\ unswept' = unswept \ {n}
    /\ UNCHANGED <<plan, st, res, attempt, ready, retries, running, terminal,
                   sessionID, task, ctxDone, pc, upserts, buffered, announced, result>>

SweepDone ==
    /\ pc = "sweep" /\ upserts = 0 /\ unswept = {}
    /\ terminal' = terminal
    /\ pc' = LoopHead
    /\ UNCHANGED <<plan, st, res, attempt, ready, retries, running, sessionID, task,
                   ctxDone, upserts, unswept, buffered, announced, result>>

\* Mutant: a node with part of its answer does not make the plan partial.
PlanPartialFailures == \E n \in Node : res[n].state \in {"failed", "skipped", "cancelled"}

PlanPartial ==
    \E n \in Node : res[n].state \in {"failed", "partial", "skipped", "cancelled"}

\* The final session event, then the result (its channel has room for it)
\* and both channels closed.
Finish ==
    /\ pc = "finish"
    /\ emitSession
    /\ result' = [sent |-> TRUE, partial |-> PlanPartial, session |-> sessionID]
    /\ pc' = "done"
    /\ UNCHANGED <<plan, st, res, attempt, ready, retries, running, terminal,
                   sessionID, task, ctxDone, upserts, unswept>>

----------------------------------------------------------------------------
(* executeNode in the node's goroutine, by operation.  A kernel operation   *)
(* that gets no session id creates a session, and an error may hide that    *)
(* session's id from the executor.                                          *)

Send(n, state, retryable, sid, items) ==
    task' = [task EXCEPT ![n] = Completion(state, retryable, sid, items)]

\* search, query, fetch, expand, map_fetch: Kernel calls bound to a session.
ExecuteSessionOp(n) ==
    LET own == IF task[n].session = NoSession THEN n ELSE task[n].session
    IN  /\ plan.op[n] \in SessionOps
        /\ \/ \E s \in {"succeeded", "partial"}, k \in 0..MaxItems :
                  Send(n, s, FALSE, own, k)
           \/ \E r \in BOOLEAN, sid \in {own, NoSession} :
                  Send(n, "failed", r, sid, 0)

\* resolve has no session; it succeeds or fails.
ExecuteResolve(n) ==
    /\ plan.op[n] = "resolve"
    /\ \/ Send(n, "succeeded", FALSE, task[n].session, 0)
       \/ \E r \in BOOLEAN : Send(n, "failed", r, task[n].session, 0)

\* merge, dedup, rank, limit, project: computed from the dependencies.
ExecuteLocal(n) ==
    /\ plan.op[n] \in LocalOps
    /\ \E k \in 0..MaxItems : Send(n, "succeeded", FALSE, task[n].session, k)

ExecuteNode(n) ==
    /\ task[n].phase = "working"
    /\ ExecuteSessionOp(n) \/ ExecuteResolve(n) \/ ExecuteLocal(n)
    /\ UNCHANGED <<plan, st, res, attempt, ready, retries, running, terminal, sessionID,
                   ctxDone, pc, upserts, unswept, buffered, announced, result>>

\* The caller cancels, or the budget's deadline passes.
Expire ==
    /\ ~ctxDone /\ pc # "done"
    /\ ctxDone' = TRUE
    /\ UNCHANGED <<plan, st, res, attempt, ready, retries, running, terminal, sessionID,
                   task, pc, upserts, unswept, buffered, announced, result>>

\* The consumer takes an event; it may stop doing so at any time.
Consume ==
    /\ buffered > 0
    /\ buffered' = buffered - 1
    /\ UNCHANGED <<plan, st, res, attempt, ready, retries, running, terminal, sessionID,
                   task, ctxDone, pc, upserts, unswept, announced, result>>

Scheduler ==
    \/ Start \/ Promote \/ Unschedulable \/ Wait \/ RetryTimer \/ Cancelled
    \/ Upsert \/ SweepDone \/ Finish
    \/ \E n \in Node : Dispatch(n) \/ ReceiveRetry(n) \/ ReceiveFinal(n)
    \/ \E n \in Node : SweepSkip(n) \/ SweepReady(n) \/ SweepWait(n)

Next == Scheduler \/ Expire \/ Consume \/ \E n \in Node : ExecuteNode(n)

Spec == Init /\ [][Next]_vars

\* The Go scheduler runs the executor's goroutine, and the context always
\* has a deadline.  Node goroutines and the consumer owe nothing.
FairSpec == Spec /\ WF_vars(Scheduler) /\ WF_vars(Expire)

----------------------------------------------------------------------------
Active == pc \notin {"finish", "done"}

RunningNodes  == {n \in Node : st[n] = "running"}
TerminalNodes == {n \in Node : isTerminal(st[n])}

(* The executor's state is of the expected type. *)
TypeOK ==
    /\ plan \in Plans
    /\ st \in [Node -> NodeState]
    /\ res \in [Node -> [state : {"none"} \cup TerminalState, error : ErrorClass]]
    /\ attempt \in [Node -> Nat]
    /\ ready \subseteq Node /\ retries \subseteq Node
    /\ running \in Int /\ terminal \in Nat
    /\ sessionID \in SessionId
    /\ task \in [Node -> TaskType]
    /\ ctxDone \in BOOLEAN
    /\ pc \in {"start", "promote", "dispatch", "select", "sweep", "finish", "done"}
    /\ upserts \in 0..MaxItems
    /\ unswept \subseteq Node
    /\ buffered \in 0..EventCap
    /\ announced \subseteq Node
    /\ result \in [sent : BOOLEAN, partial : BOOLEAN, session : SessionId]

(* While the loop runs, the two heaps hold exactly the nodes whose state    *)
(* says so: nothing is lost between a heap and the state map, and a popped  *)
(* node is always READY (executor.go:134-154, 213-249).                     *)
HeapsAgree ==
    Active => /\ ready = {n \in Node : st[n] = "ready"}
              /\ retries = {n \in Node : st[n] = "retry_wait"}

(* The hand-kept counters are the cardinalities they stand for.  The loop   *)
(* ends exactly when every node is terminal, and the concurrency limit      *)
(* limits RUNNING nodes.                                                    *)
CountersAgree ==
    /\ running = Cardinality(RunningNodes)
    /\ terminal = Cardinality(TerminalNodes)
    /\ running <= concurrency
    /\ ~Active => terminal = Cardinality(Node)

(* State map, heaps and counters are three records of one fact, each kept   *)
(* by hand, and agree after every retry, skip, cancellation and completion. *)
BooksAgree == HeapsAgree /\ CountersAgree

(* A node has a goroutine or an unread completion exactly while it is       *)
(* RUNNING, until a cancelled loop stops listening: hence a node never has  *)
(* two attempts in flight and the send on `completed' never blocks.         *)
OneTaskPerNode ==
    \A n \in Node : /\ Active => (task[n].phase # "idle") <=> (st[n] = "running")
                    /\ ~Active => task[n].phase = "idle" \/ st[n] = "cancelled"

(* A node is started only after all its dependencies are terminal, none of  *)
(* them failed unless the node tolerates it, and one is skipped for its     *)
(* dependencies only if one of them did fail.  Who tolerates a failure is   *)
(* decided as the code does, by the dependent's own `optional' and its      *)
(* operation (see OptionalFailureTolerated for what the document says).     *)
DependenciesRespected ==
    \A n \in Node :
        /\ attempt[n] > 0 =>
              \A i \in DOMAIN Deps(n) : LET d == Deps(n)[i] IN
                  /\ isTerminal(st[d])
                  /\ Intolerant(n) => st[d] \in {"succeeded", "partial", "empty"}
        /\ res[n].error = "dependency" =>
              Intolerant(n) /\ \E i \in DOMAIN Deps(n) : st[Deps(n)[i]] \in FailureState

(* docs/RETRIEVAL_PLAN.md section 6: the nodes that depend on an optional   *)
(* node can still run when it failed; only another failure skips them.      *)
OptionalFailureTolerated ==
    \A n \in Node : res[n].error = "dependency" =>
        \E i \in DOMAIN Deps(n) :
            st[Deps(n)[i]] \in FailureState /\ ~plan.optional[Deps(n)[i]]

(* All the sessions named by completions and by running goroutines are the  *)
(* plan's one session: the serialisation of the first stateful node works.  *)
OneSession ==
    \A n \in Node :
        /\ (task[n].phase = "working" /\ Active) => task[n].session = sessionID
        /\ (task[n].phase = "sent" /\ Active /\ sessionID # NoSession)
              => task[n].session \in {sessionID, NoSession}

(* What the result says of a node is the node's state, and a plan that is   *)
(* not reported partial has no node that failed, was skipped or cancelled.  *)
(* When the context lived to the end, no goroutine is left behind and every *)
(* node that could be scheduled has announced its completion as an event.   *)
ResultHonest ==
    /\ \A n \in Node : isTerminal(st[n]) => res[n].state = st[n]
    /\ (result.sent /\ ~ctxDone) =>
          \A n \in Node : /\ task[n].phase = "idle"
                          /\ res[n].error # "unscheduled" => n \in announced
    /\ (result.sent /\ ~result.partial) => \A n \in Node : st[n] = "succeeded"
    /\ result.sent => \A n \in Node : isTerminal(st[n])

(* A terminal node never changes state or result again: no late completion  *)
(* overwrites a skip or a cancellation.                                     *)
TerminalIsFinal ==
    [][\A n \in Node : isTerminal(st[n]) => st'[n] = st[n] /\ res'[n] = res[n]]_vars

(* The result is delivered whatever the node goroutines and the consumer    *)
(* do, because the context has a deadline.                                  *)
Delivered == <>result.sent

(* The executor implements PlanContract. *)
PhaseOf(n) == IF isTerminal(st[n]) THEN "settled"
              ELSE IF st[n] = "running" THEN "active" ELSE "idle"

Contract == INSTANCE PlanContract
    WITH prereq <- [n \in Node |-> {Deps(n)[i] : i \in DOMAIN Deps(n)}],
         phase <- [n \in Node |-> PhaseOf(n)],
         delivered <- result.sent

(* Every behaviour of the executor is one PlanContract allows: attempts      *)
(* wait for their dependencies, ends are final, the result comes once and    *)
(* last.                                                                     *)
ContractKept == Contract!CSpec
=============================================================================

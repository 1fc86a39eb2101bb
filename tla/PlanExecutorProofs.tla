------------------------ MODULE PlanExecutorProofs ------------------------
(***************************************************************************)
(* Theorems about PlanExecutor for every plan, node set, concurrency and   *)
(* channel capacity: the scheduler's bookkeeping, and what a caller sees   *)
(* on top of it.  The nodes of a plan share one session, the result agrees *)
(* with what happened, and the executor implements PlanContract.           *)
(***************************************************************************)
EXTENDS PlanExecutor, FiniteSetTheorems, TLAPS

(* A plan is a record of the expected shape. *)
LEMMA PlanShape ==
    ASSUME NEW p \in Plans
    PROVE  /\ p.dependsOn \in [Node -> Seq(Node)] /\ p.op \in [Node -> PlanOp]
           /\ p.session \in {NoSession, GivenSession}
  BY ExecutorAssumption DEF ExecutorAssumption, RetrievalPlan

(* Sets of nodes are finite and counted by a natural number. *)
LEMMA NodeSets ==
    ASSUME NEW S \in SUBSET Node
    PROVE  IsFiniteSet(S) /\ Cardinality(S) \in Nat
  BY ExecutorAssumption, FS_Subset, FS_CardinalityType DEF ExecutorAssumption

(* The fields of a goroutine's record. *)
LEMMA TaskFields ==
    /\ Idle \in TaskType
    /\ \A x \in TaskType : /\ x.session \in SessionId /\ x.state \in TerminalState
                           /\ x.items \in 0..MaxItems
  BY ExecutorAssumption DEF ExecutorAssumption, TaskType, Idle, TerminalState, SessionId

(* The initial state is well typed. *)
LEMMA TypeInit == Init => TypeOK
  <1> SUFFICES ASSUME Init PROVE TypeOK
    OBVIOUS
  <1>1. plan \in Plans /\ sessionID \in SessionId 
    BY PlanShape DEF Init, SessionId
  <1>2. st \in [Node -> NodeState] /\ attempt \in [Node -> Nat] /\ ready \subseteq Node
    BY DEF Init, NodeState
  <1>3. res \in [Node -> [state : {"none"} \cup TerminalState, error : ErrorClass]]
    BY DEF Init, ErrorClass
  <1>4. task \in [Node -> TaskType]
    BY TaskFields DEF Init
  <1> QED
    <2>1. result \in [sent : BOOLEAN, partial : BOOLEAN, session : SessionId]
      BY DEF Init, SessionId
    <2>2. upserts \in 0..MaxItems /\ buffered \in 0..EventCap
      BY ExecutorAssumption DEF ExecutorAssumption, Init
    <2>3. /\ retries \subseteq Node /\ running \in Int /\ terminal \in Nat
          /\ pc = "start" /\ unswept \subseteq Node /\ announced \subseteq Node
      BY DEF Init
    <2>4. ctxDone \in BOOLEAN
      BY DEF Init
    <2> QED
      BY <1>1, <1>2, <1>3, <1>4, <2>1, <2>2, <2>3, <2>4 DEF TypeOK

(* Every step keeps the state well typed. *)
LEMMA TypeNext == TypeOK /\ [Next]_vars => TypeOK'
  <1> SUFFICES ASSUME TypeOK, [Next]_vars PROVE TypeOK'
    OBVIOUS
  <1> USE ExecutorAssumption DEF ExecutorAssumption
  <1>1. CASE Start
    BY <1>1 DEF TypeOK, Start, emitSession
  <1>2. CASE Promote
    BY <1>2 DEF TypeOK, Promote, PromoteDue, NodeState
  <1>3. CASE Unschedulable
    BY <1>3, NodeSets DEF TypeOK, Unschedulable, FinishRest, NodeState, TerminalState, ErrorClass
  <1>4. CASE Wait
    BY <1>4 DEF TypeOK, Wait
  <1>5. CASE RetryTimer
    BY <1>5 DEF TypeOK, RetryTimer, PromoteDue, NodeState
  <1>6. CASE Cancelled
    BY <1>6, NodeSets DEF TypeOK, Cancelled, FinishRest, LoopHead, NodeState, TerminalState, ErrorClass
  <1>7. CASE Upsert
    BY <1>7 DEF TypeOK, Upsert, emitSession
  <1>8. CASE SweepDone
    BY <1>8 DEF TypeOK, SweepDone, LoopHead
  <1>9. CASE Finish
    BY <1>9 DEF TypeOK, Finish, emitSession, PlanPartial
  <1>10. ASSUME NEW n \in Node, Dispatch(n) PROVE TypeOK'
    BY <1>10 DEF TypeOK, Dispatch, emit, NodeState, TaskType, Launched, Idle, TerminalState
  <1>11. ASSUME NEW n \in Node, ReceiveRetry(n) PROVE TypeOK'
    <2>1. sessionID' \in SessionId
      BY <1>11, TaskFields DEF TypeOK, ReceiveRetry, AdoptSession
    <2>2. task' \in [Node -> TaskType]
      BY <1>11, TaskFields DEF TypeOK, ReceiveRetry
    <2> QED
      BY <1>11, <2>1, <2>2 DEF TypeOK, ReceiveRetry, emit, NodeState, TerminalState, ErrorClass
  <1>12. ASSUME NEW n \in Node, ReceiveFinal(n) PROVE TypeOK'
    <2>1. sessionID' \in SessionId
      BY <1>12, TaskFields DEF TypeOK, ReceiveFinal, AdoptSession
    <2>2. task' \in [Node -> TaskType]
      BY <1>12, TaskFields DEF TypeOK, ReceiveFinal
    <2>3. task[n].state \in TerminalState /\ task[n].items \in 0..MaxItems
      BY TaskFields DEF TypeOK
    <2>4. res' \in [Node -> [state : {"none"} \cup TerminalState, error : ErrorClass]]
      BY <1>12, <2>3 DEF TypeOK, ReceiveFinal, ErrorClass, Error
    <2> QED
      BY <1>12, <2>1, <2>2, <2>3, <2>4 DEF TypeOK, ReceiveFinal, emit, NodeState
  <1>13. ASSUME NEW n \in Node, SweepSkip(n) PROVE TypeOK'
    BY <1>13 DEF TypeOK, SweepSkip, emit, NodeState, TerminalState, ErrorClass
  <1>14. ASSUME NEW n \in Node, SweepReady(n) PROVE TypeOK'
    BY <1>14 DEF TypeOK, SweepReady, NodeState
  <1>15. ASSUME NEW n \in Node, SweepWait(n) PROVE TypeOK'
    BY <1>15 DEF TypeOK, SweepWait
  <1>16. ASSUME NEW n \in Node, ExecuteNode(n) PROVE TypeOK'
    <2>1. task[n].session \in SessionId /\ NoSession \in SessionId /\ n \in SessionId
      BY TaskFields DEF TypeOK, SessionId
    <2>2. ASSUME NEW state \in TerminalState, NEW r \in BOOLEAN, NEW sid \in SessionId,
                 NEW k \in 0..MaxItems, Send(n, state, r, sid, k)
          PROVE  task' \in [Node -> TaskType]
      <3>1. Completion(state, r, sid, k) \in TaskType
        BY DEF Completion, TaskType
      <3> QED
        BY <2>2, <3>1 DEF TypeOK, Send
    <2>3. {"succeeded", "partial", "failed"} \subseteq TerminalState
      BY DEF TerminalState
    <2>4. ASSUME ExecuteSessionOp(n) PROVE task' \in [Node -> TaskType]
      <3> DEFINE own == IF task[n].session = NoSession THEN n ELSE task[n].session
      <3>1. own \in SessionId /\ 0 \in 0..MaxItems
        BY <2>1
      <3>2. CASE \E s \in {"succeeded", "partial"}, k \in 0..MaxItems : Send(n, s, FALSE, own, k)
        BY <2>2, <2>3, <3>1, <3>2
      <3>3. CASE \E r \in BOOLEAN, sid \in {own, NoSession} : Send(n, "failed", r, sid, 0)
        BY <2>1, <2>2, <2>3, <3>1, <3>3
      <3> QED
        BY <2>4, <3>2, <3>3 DEF ExecuteSessionOp
    <2>5. ASSUME ExecuteResolve(n) PROVE task' \in [Node -> TaskType]
      <3>1. 0 \in 0..MaxItems
        OBVIOUS
      <3> QED
        BY <2>1, <2>2, <2>3, <2>5, <3>1 DEF ExecuteResolve
    <2>6. ASSUME ExecuteLocal(n) PROVE task' \in [Node -> TaskType]
      BY <2>1, <2>2, <2>3, <2>6 DEF ExecuteLocal
    <2>7. task' \in [Node -> TaskType]
      BY <1>16, <2>4, <2>5, <2>6 DEF ExecuteNode
    <2> QED
      BY <1>16, <2>7 DEF TypeOK, ExecuteNode
  <1>17. CASE Expire
    BY <1>17 DEF TypeOK, Expire
  <1>18. CASE Consume
    BY <1>18 DEF TypeOK, Consume
  <1>19. CASE UNCHANGED vars
    BY <1>19 DEF TypeOK, vars
  <1> QED
    BY <1>1, <1>2, <1>3, <1>4, <1>5, <1>6, <1>7, <1>8, <1>9, <1>10, <1>11, <1>12,
       <1>13, <1>14, <1>15, <1>16, <1>17, <1>18, <1>19 DEF Next, Scheduler

(* The executor's variables keep their types, whatever the plan. *)
THEOREM TypeCorrect == Spec => []TypeOK
  BY TypeInit, TypeNext, PTL DEF Spec

----------------------------------------------------------------------------
(* The inductive invariant behind the scheduler's bookkeeping.  The heaps    *)
(* and the tasks agree with the state map only while the loop runs, that it  *)
(* has ended is known from the counters, and the counters are right because  *)
(* heaps, tasks and the sweep only touch nodes in the state they expect.     *)

\* The pass holds blocked nodes only.
SweepBlocked == pc = "sweep" => \A n \in unswept : st[n] = "blocked"

\* The inductive invariant.
Bookkeeping ==
    TypeOK /\ HeapsAgree /\ OneTaskPerNode /\ CountersAgree /\ SweepBlocked

(* The nodes split into terminal ones and others. *)
LEMMA CountRest ==
    ASSUME TypeOK
    PROVE  Cardinality(TerminalNodes) + Cardinality({n \in Node : ~isTerminal(st[n])})
              = Cardinality(Node)
  <1> DEFINE Rest == {n \in Node : ~isTerminal(st[n])}
  <1>1. IsFiniteSet(Node) /\ TerminalNodes \in SUBSET Node
    BY ExecutorAssumption DEF ExecutorAssumption, TerminalNodes
  <1>2. Rest = Node \ TerminalNodes /\ Node \cap TerminalNodes = TerminalNodes
    BY DEF TerminalNodes
  <1>3. Cardinality(Rest) = Cardinality(Node) - Cardinality(TerminalNodes)
    BY <1>1, <1>2, FS_Difference
  <1>4. Cardinality(Node) \in Nat /\ Cardinality(TerminalNodes) \in Nat
    BY <1>1, NodeSets
  <1> QED
    BY <1>3, <1>4

(* All nodes are terminal exactly when the counter says so. *)
LEMMA AllTerminal ==
    ASSUME TypeOK, CountersAgree
    PROVE  /\ terminal <= Cardinality(Node) /\ Cardinality(Node) \in Nat
           /\ terminal = Cardinality(Node) <=> \A n \in Node : isTerminal(st[n])
  <1>1. IsFiniteSet(Node) /\ TerminalNodes \in SUBSET Node
    BY ExecutorAssumption DEF ExecutorAssumption, TerminalNodes
  <1>2. /\ Cardinality(TerminalNodes) <= Cardinality(Node)
        /\ Cardinality(Node) = Cardinality(TerminalNodes) => Node = TerminalNodes
    BY <1>1, FS_Subset
  <1> QED
    BY <1>1, <1>2, NodeSets DEF CountersAgree, TerminalNodes

(* No node is running when the counter is zero. *)
LEMMA NoneRunning ==
    ASSUME TypeOK, CountersAgree, running = 0
    PROVE  \A n \in Node : st[n] # "running"
  <1>1. RunningNodes \in SUBSET Node
    BY DEF RunningNodes
  <1>2. RunningNodes = {}
    BY <1>1, NodeSets, FS_EmptySet DEF CountersAgree
  <1> QED
    BY <1>2 DEF RunningNodes

(* The books balance initially. *)
LEMMA BookkeepingInit == Init => Bookkeeping
  <1> SUFFICES ASSUME Init PROVE Bookkeeping
    OBVIOUS
  <1>1. TypeOK
    BY TypeInit
  <1>2. \A n \in Node : st[n] \in {"ready", "blocked"}
    BY DEF Init
  <1>3. RunningNodes = {} /\ TerminalNodes = {}
    BY <1>2 DEF RunningNodes, TerminalNodes, isTerminal, TerminalState
  <1>4. CountersAgree
    <2>1. concurrency \in Nat
      BY ExecutorAssumption DEF ExecutorAssumption, concurrency
    <2> QED
      BY <1>3, <2>1, FS_EmptySet DEF CountersAgree, Init, Active
  <1>5. HeapsAgree
    BY <1>2 DEF HeapsAgree, Init
  <1>6. OneTaskPerNode
    BY <1>2 DEF OneTaskPerNode, Init, Idle, Active
  <1> QED
    BY <1>1, <1>4, <1>5, <1>6 DEF Bookkeeping, SweepBlocked, Init

(* A step that leaves the state map and the counters alone keeps them equal. *)
LEMMA CountersUnchanged ==
    ASSUME CountersAgree, st' = st, running' = running, terminal' = terminal,
           Active' => Active, ~Active' => (~Active \/ terminal = Cardinality(Node))
    PROVE  CountersAgree'
  BY DEF CountersAgree, RunningNodes, TerminalNodes

(* Giving up on all unfinished nodes ends the loop with balanced books.      *)
LEMMA FinishRestEnds ==
    ASSUME TypeOK, CountersAgree, NEW s \in {"skipped", "cancelled"}, NEW e,
           FinishRest(s, e), running' = 0
    PROVE  /\ terminal' = Cardinality(Node)
           /\ CountersAgree'
  <1>1. terminal' = Cardinality(Node) /\ Cardinality(Node) \in Nat
    BY CountRest, NodeSets DEF FinishRest, CountersAgree
  <1>2. \A n \in Node : isTerminal(st'[n])
    BY DEF FinishRest, isTerminal, TerminalState
  <1>3. RunningNodes' = {} /\ TerminalNodes' = Node
    BY <1>2 DEF RunningNodes, TerminalNodes, isTerminal, TerminalState
  <1>4. concurrency \in Nat
    BY ExecutorAssumption DEF ExecutorAssumption, concurrency
  <1> QED
    BY <1>1, <1>3, <1>4, FS_EmptySet DEF CountersAgree

(* Promoting due retries moves nodes between the heaps and nothing else. *)
LEMMA PromoteKeeps ==
    ASSUME Bookkeeping, NEW due \in SUBSET retries, PromoteDue(due), pc \in {"promote", "select"},
           UNCHANGED <<running, terminal, task, unswept>>, pc' = "dispatch"
    PROVE  HeapsAgree' /\ OneTaskPerNode' /\ CountersAgree' /\ SweepBlocked'
  <1> USE DEF Bookkeeping, Active
  <1>1. \A n \in due : n \in Node /\ st[n] = "retry_wait"
    BY DEF HeapsAgree
  <1>2. st' = [n \in Node |-> IF n \in due THEN "ready" ELSE st[n]]
    BY <1>1 DEF PromoteDue
  <1>3. HeapsAgree'
    BY <1>1, <1>2 DEF HeapsAgree, PromoteDue
  <1>4. OneTaskPerNode'
    BY <1>1, <1>2 DEF OneTaskPerNode
  <1>5. RunningNodes' = RunningNodes /\ TerminalNodes' = TerminalNodes
    BY <1>1, <1>2 DEF RunningNodes, TerminalNodes, isTerminal, TerminalState
  <1>6. CountersAgree'
    BY <1>5 DEF CountersAgree
  <1> QED
    BY <1>3, <1>4, <1>6 DEF SweepBlocked

(* Every step of the executor keeps the books. *)
LEMMA BookkeepingNext == Bookkeeping /\ [Next]_vars => Bookkeeping'
  <1> SUFFICES ASSUME Bookkeeping, [Next]_vars
               PROVE  HeapsAgree' /\ OneTaskPerNode' /\ CountersAgree' /\ SweepBlocked'
    BY TypeNext DEF Bookkeeping
  <1> USE DEF Bookkeeping
  <1>1. CASE Start
    BY <1>1, CountersUnchanged DEF Start, Active, HeapsAgree, OneTaskPerNode, SweepBlocked
  <1>2. CASE Promote
    BY <1>2, PromoteKeeps DEF Promote
  <1>3. CASE Unschedulable
    <2>1. running' = 0 /\ CountersAgree'
      BY <1>3, FinishRestEnds DEF Unschedulable
    <2>2. ~Active' /\ Active
      BY <1>3 DEF Unschedulable, Active
    <2>3. \A n \in Node : task[n].phase = "idle"
      BY <1>3, <2>2, NoneRunning DEF Unschedulable, OneTaskPerNode
    <2> QED
      BY <1>3, <2>1, <2>2, <2>3 DEF Unschedulable, HeapsAgree, OneTaskPerNode, SweepBlocked
  <1>4. CASE Wait
    BY <1>4, CountersUnchanged DEF Wait, Active, HeapsAgree, OneTaskPerNode, SweepBlocked
  <1>5. CASE RetryTimer
    BY <1>5, PromoteKeeps DEF RetryTimer
  <1>6. CASE Cancelled
    <2>1. terminal' = Cardinality(Node) /\ CountersAgree'
      BY <1>6, FinishRestEnds DEF Cancelled
    <2>2. pc' = "finish" /\ ~Active' /\ Active
      BY <1>6, <2>1, NodeSets DEF Cancelled, LoopHead, Active
    <2>3. \A n \in Node : task[n].phase = "idle" \/ st'[n] = "cancelled"
      BY <1>6, <2>2 DEF Cancelled, FinishRest, OneTaskPerNode, isTerminal, TerminalState
    <2> QED
      BY <1>6, <2>1, <2>2, <2>3 DEF Cancelled, HeapsAgree, OneTaskPerNode, SweepBlocked
  <1>7. CASE Upsert
    BY <1>7, CountersUnchanged DEF Upsert, Active, HeapsAgree, OneTaskPerNode, SweepBlocked
  <1>8. CASE SweepDone
    <2>1. /\ Active /\ pc' \in {"promote", "finish"}
          /\ pc' = "finish" => terminal = Cardinality(Node)
      <3>1. terminal <= Cardinality(Node) /\ Cardinality(Node) \in Nat /\ terminal \in Nat
        BY AllTerminal DEF TypeOK
      <3> QED
        BY <1>8, <3>1 DEF SweepDone, LoopHead, Active
    <2>2. CountersAgree'
      BY <1>8, <2>1, CountersUnchanged DEF SweepDone, Active
    <2>3. ~Active' => \A n \in Node : task[n].phase = "idle"
      BY <1>8, <2>1, AllTerminal DEF SweepDone, Active, OneTaskPerNode, isTerminal, TerminalState
    <2> QED
      BY <1>8, <2>1, <2>2, <2>3 DEF SweepDone, Active, HeapsAgree, OneTaskPerNode, SweepBlocked
  <1>9. CASE Finish
    BY <1>9, CountersUnchanged DEF Finish, Active, HeapsAgree, OneTaskPerNode, SweepBlocked
  <1>10. ASSUME NEW n \in Node, Dispatch(n)
         PROVE  HeapsAgree' /\ OneTaskPerNode' /\ CountersAgree' /\ SweepBlocked'
    <2>1. Active /\ pc' = pc /\ st[n] = "ready" /\ st' = [st EXCEPT ![n] = "running"]
      BY <1>10 DEF Dispatch, Active, HeapsAgree
    <2>2. RunningNodes' = RunningNodes \cup {n} /\ n \notin RunningNodes
      BY <2>1 DEF TypeOK, RunningNodes
    <2>3. TerminalNodes' = TerminalNodes
      BY <2>1 DEF TypeOK, TerminalNodes, isTerminal, TerminalState
    <2>4. Cardinality(RunningNodes') = Cardinality(RunningNodes) + 1
      BY <2>2, NodeSets, FS_AddElement DEF RunningNodes
    <2>5. running < concurrency /\ concurrency \in Nat
      BY <1>10, ExecutorAssumption DEF Dispatch, CanDispatch, ExecutorAssumption, concurrency
    <2>6. CountersAgree'
      BY <1>10, <2>1, <2>3, <2>4, <2>5 DEF Dispatch, CountersAgree, Active, TypeOK
    <2>7. HeapsAgree'
      BY <1>10, <2>1 DEF Dispatch, HeapsAgree, Active, TypeOK
    <2>8. OneTaskPerNode'
      BY <1>10, <2>1 DEF Dispatch, OneTaskPerNode, Active, TypeOK, Launched
    <2> QED
      BY <1>10, <2>6, <2>7, <2>8 DEF Dispatch, SweepBlocked
  <1>11. ASSUME NEW n \in Node, ReceiveRetry(n)
         PROVE  HeapsAgree' /\ OneTaskPerNode' /\ CountersAgree' /\ SweepBlocked'
    <2>1. /\ Active /\ pc' = "promote" /\ st[n] = "running"
          /\ st' = [st EXCEPT ![n] = "retry_wait"]
      BY <1>11 DEF ReceiveRetry, Active, OneTaskPerNode
    <2>2. RunningNodes' = RunningNodes \ {n} /\ n \in RunningNodes
      BY <2>1 DEF TypeOK, RunningNodes
    <2>3. TerminalNodes' = TerminalNodes
      BY <2>1 DEF TypeOK, TerminalNodes, isTerminal, TerminalState
    <2>4. Cardinality(RunningNodes') = Cardinality(RunningNodes) - 1
      BY <2>2, NodeSets, FS_RemoveElement DEF RunningNodes
    <2>5. concurrency \in Nat
      BY ExecutorAssumption DEF ExecutorAssumption, concurrency
    <2>6. CountersAgree'
      BY <1>11, <2>1, <2>3, <2>4, <2>5 DEF ReceiveRetry, CountersAgree, Active, TypeOK
    <2>7. HeapsAgree'
      BY <1>11, <2>1 DEF ReceiveRetry, HeapsAgree, Active, TypeOK
    <2>8. OneTaskPerNode'
      BY <1>11, <2>1 DEF ReceiveRetry, OneTaskPerNode, Active, TypeOK, Idle
    <2> QED
      BY <1>11, <2>6, <2>7, <2>8 DEF ReceiveRetry, SweepBlocked
  <1>12. ASSUME NEW n \in Node, ReceiveFinal(n)
         PROVE  HeapsAgree' /\ OneTaskPerNode' /\ CountersAgree' /\ SweepBlocked'
    <2>1. /\ Active /\ pc' = "sweep" /\ st[n] = "running"
          /\ st' = [st EXCEPT ![n] = task[n].state] /\ task[n].state \in TerminalState
      BY <1>12, TaskFields DEF ReceiveFinal, Active, OneTaskPerNode, TypeOK
    <2>2. RunningNodes' = RunningNodes \ {n} /\ n \in RunningNodes
      BY <2>1 DEF TypeOK, RunningNodes, TerminalState
    <2>3. TerminalNodes' = TerminalNodes \cup {n} /\ n \notin TerminalNodes
      BY <2>1 DEF TypeOK, TerminalNodes, isTerminal, TerminalState
    <2>4. /\ Cardinality(RunningNodes') = Cardinality(RunningNodes) - 1
          /\ Cardinality(TerminalNodes') = Cardinality(TerminalNodes) + 1
      <3>1. IsFiniteSet(RunningNodes) /\ IsFiniteSet(TerminalNodes)
        <4>1. RunningNodes \in SUBSET Node /\ TerminalNodes \in SUBSET Node
          BY DEF RunningNodes, TerminalNodes
        <4> QED
          BY <4>1, NodeSets
      <3>2. Cardinality(RunningNodes \ {n}) = Cardinality(RunningNodes) - 1
        BY <2>2, <3>1, FS_RemoveElement
      <3>3. Cardinality(TerminalNodes \cup {n}) = Cardinality(TerminalNodes) + 1
        BY <2>3, <3>1, FS_AddElement
      <3> QED
        BY <2>2, <2>3, <3>2, <3>3
    <2>5. concurrency \in Nat
      BY ExecutorAssumption DEF ExecutorAssumption, concurrency
    <2>6. CountersAgree'
      BY <1>12, <2>1, <2>4, <2>5 DEF ReceiveFinal, CountersAgree, Active, TypeOK
    <2>7. HeapsAgree'
      BY <1>12, <2>1 DEF ReceiveFinal, HeapsAgree, Active, TypeOK, TerminalState
    <2>8. OneTaskPerNode'
      BY <1>12, <2>1 DEF ReceiveFinal, OneTaskPerNode, Active, TypeOK, Idle, TerminalState
    <2>9. SweepBlocked'
      BY <1>12, <2>1 DEF ReceiveFinal, SweepBlocked, TypeOK
    <2> QED
      BY <2>6, <2>7, <2>8, <2>9
  <1>13. ASSUME NEW n \in Node, SweepSkip(n)
         PROVE  HeapsAgree' /\ OneTaskPerNode' /\ CountersAgree' /\ SweepBlocked'
    <2>1. /\ Active /\ pc' = pc /\ st[n] = "blocked" /\ st' = [st EXCEPT ![n] = "skipped"]
      BY <1>13 DEF SweepSkip, Active, SweepBlocked
    <2>2. RunningNodes' = RunningNodes
      BY <2>1 DEF TypeOK, RunningNodes
    <2>3. TerminalNodes' = TerminalNodes \cup {n} /\ n \notin TerminalNodes
      BY <2>1 DEF TypeOK, TerminalNodes, isTerminal, TerminalState
    <2>4. Cardinality(TerminalNodes') = Cardinality(TerminalNodes) + 1
      BY <2>3, NodeSets, FS_AddElement DEF TerminalNodes
    <2>5. CountersAgree'
      BY <1>13, <2>1, <2>2, <2>4 DEF SweepSkip, CountersAgree, Active, TypeOK
    <2>6. HeapsAgree'
      BY <1>13, <2>1 DEF SweepSkip, HeapsAgree, Active, TypeOK
    <2>7. OneTaskPerNode'
      BY <1>13, <2>1 DEF SweepSkip, OneTaskPerNode, Active, TypeOK
    <2>8. SweepBlocked'
      BY <1>13, <2>1 DEF SweepSkip, SweepBlocked, TypeOK
    <2> QED
      BY <2>5, <2>6, <2>7, <2>8
  <1>14. ASSUME NEW n \in Node, SweepReady(n)
         PROVE  HeapsAgree' /\ OneTaskPerNode' /\ CountersAgree' /\ SweepBlocked'
    <2>1. /\ Active /\ pc' = pc /\ st[n] = "blocked" /\ st' = [st EXCEPT ![n] = "ready"]
      BY <1>14 DEF SweepReady, Active, SweepBlocked
    <2>2. RunningNodes' = RunningNodes /\ TerminalNodes' = TerminalNodes
      BY <2>1 DEF TypeOK, RunningNodes, TerminalNodes, isTerminal, TerminalState
    <2>3. CountersAgree'
      BY <1>14, <2>1, <2>2 DEF SweepReady, CountersAgree, Active
    <2>4. HeapsAgree'
      BY <1>14, <2>1 DEF SweepReady, HeapsAgree, Active, TypeOK
    <2>5. OneTaskPerNode'
      BY <1>14, <2>1 DEF SweepReady, OneTaskPerNode, Active, TypeOK
    <2>6. SweepBlocked'
      BY <1>14, <2>1 DEF SweepReady, SweepBlocked, TypeOK
    <2> QED
      BY <2>3, <2>4, <2>5, <2>6
  <1>15. ASSUME NEW n \in Node, SweepWait(n)
         PROVE  HeapsAgree' /\ OneTaskPerNode' /\ CountersAgree' /\ SweepBlocked'
    BY <1>15, CountersUnchanged DEF SweepWait, Active, HeapsAgree, OneTaskPerNode, SweepBlocked
  <1>16. ASSUME NEW n \in Node, ExecuteNode(n)
         PROVE  HeapsAgree' /\ OneTaskPerNode' /\ CountersAgree' /\ SweepBlocked'
    <2>1. /\ UNCHANGED <<st, ready, retries, running, terminal, pc, unswept>>
          /\ task[n].phase = "working"
      BY <1>16 DEF ExecuteNode
    <2>2. \A m \in Node : task'[m].phase = "idle" <=> task[m].phase = "idle"
      <3>1. ASSUME NEW a1, NEW a2, NEW a3, NEW a4, Send(n, a1, a2, a3, a4)
            PROVE  \A m \in Node : task'[m].phase = "idle" <=> task[m].phase = "idle"
        BY <2>1, <3>1 DEF Send, Completion, TypeOK
      <3> QED
        BY <1>16, <3>1 DEF ExecuteNode, ExecuteSessionOp, ExecuteResolve, ExecuteLocal
    <2>3. OneTaskPerNode'
      BY <2>1, <2>2 DEF OneTaskPerNode, Active
    <2> QED
      BY <2>1, <2>3, CountersUnchanged DEF HeapsAgree, SweepBlocked, Active
  <1>17. CASE Expire
    BY <1>17, CountersUnchanged DEF Expire, Active, HeapsAgree, OneTaskPerNode, SweepBlocked
  <1>18. CASE Consume
    BY <1>18, CountersUnchanged DEF Consume, Active, HeapsAgree, OneTaskPerNode, SweepBlocked
  <1>19. CASE UNCHANGED vars
    BY <1>19, CountersUnchanged DEF vars, Active, HeapsAgree, OneTaskPerNode, SweepBlocked
  <1> QED
    BY <1>1, <1>2, <1>3, <1>4, <1>5, <1>6, <1>7, <1>8, <1>9, <1>10, <1>11, <1>12,
       <1>13, <1>14, <1>15, <1>16, <1>17, <1>18, <1>19 DEF Next, Scheduler

(* The books are always balanced. *)
LEMMA BookkeepingHolds == Spec => []Bookkeeping
  BY BookkeepingInit, BookkeepingNext, PTL DEF Spec

(* The heaps and the state map never disagree while the loop runs: no node   *)
(* is lost between READY and the heap, or between RETRY_WAIT and the heap.   *)
(* `running' and `terminal' count what they claim to, the concurrency limit  *)
(* is respected and the loop ends exactly with all nodes terminal.           *)
THEOREM BooksAlwaysAgree == Spec => []BooksAgree
  BY BookkeepingHolds, PTL DEF Bookkeeping, BooksAgree

(* A node has at most one attempt in flight, so that the channel of          *)
(* completions, with one slot per node, never blocks a goroutine.            *)
THEOREM NeverTwoAttempts == Spec => []OneTaskPerNode
  BY BookkeepingHolds, PTL DEF Bookkeeping

----------------------------------------------------------------------------
(* Ends are final. *)

(* The plan is fixed. *)
LEMMA PlanFixed == [Next]_vars => plan' = plan
  BY DEF Next, Scheduler, vars, Start, Promote, Unschedulable, Wait, RetryTimer, Cancelled,
         Upsert, SweepDone, Finish, Dispatch, ReceiveRetry, ReceiveFinal, SweepSkip,
         SweepReady, SweepWait, ExecuteNode, Expire, Consume

(* No step touches the state or the result of a terminal node. *)
LEMMA TerminalStep ==
    ASSUME Bookkeeping, [Next]_vars, NEW m \in Node, isTerminal(st[m])
    PROVE  st'[m] = st[m] /\ res'[m] = res[m]
  <1> USE DEF Bookkeeping, isTerminal, TerminalState
  <1>1. CASE Promote \/ RetryTimer
    BY <1>1 DEF Promote, RetryTimer, PromoteDue
  <1>2. CASE Unschedulable \/ Cancelled
    BY <1>2 DEF Unschedulable, Cancelled, FinishRest
  <1>3. ASSUME NEW n \in Node, Dispatch(n) PROVE st'[m] = st[m] /\ res'[m] = res[m]
    <2>1. st[n] = "ready"
      BY <1>3 DEF Dispatch, HeapsAgree, Active
    <2> QED
      BY <1>3, <2>1 DEF Dispatch, TypeOK
  <1>4. ASSUME NEW n \in Node, ReceiveRetry(n) \/ ReceiveFinal(n)
        PROVE  st'[m] = st[m] /\ res'[m] = res[m]
    <2>1. st[n] = "running"
      BY <1>4 DEF ReceiveRetry, ReceiveFinal, OneTaskPerNode, Active
    <2> QED
      BY <1>4, <2>1 DEF ReceiveRetry, ReceiveFinal, TypeOK
  <1>5. ASSUME NEW n \in Node, SweepSkip(n) \/ SweepReady(n)
        PROVE  st'[m] = st[m] /\ res'[m] = res[m]
    <2>1. st[n] = "blocked"
      BY <1>5 DEF SweepSkip, SweepReady, SweepBlocked
    <2> QED
      BY <1>5, <2>1 DEF SweepSkip, SweepReady, TypeOK
  <1>6. ASSUME UNCHANGED <<st, res>> PROVE st'[m] = st[m] /\ res'[m] = res[m]
    BY <1>6
  <1> QED
    BY <1>1, <1>2, <1>3, <1>4, <1>5, <1>6
       DEF Next, Scheduler, vars, Start, Wait, Upsert, SweepDone, Finish, SweepWait,
           ExecuteNode, Expire, Consume

(* A late completion, a skip or a cancellation never overwrites the end of a *)
(* node.                                                                     *)
THEOREM TerminalStaysFinal == Spec => TerminalIsFinal
  <1>1. Bookkeeping /\ [Next]_vars
          => [\A n \in Node : isTerminal(st[n]) => st'[n] = st[n] /\ res'[n] = res[n]]_vars
    BY TerminalStep
  <1> QED
    BY <1>1, BookkeepingHolds, PTL DEF Spec, TerminalIsFinal

----------------------------------------------------------------------------
(* Dependencies. *)

\* The node has been found ready.
Underway(n) == st[n] \in {"ready", "running", "retry_wait"} \/ attempt[n] > 0

\* Its dependencies let it run.
Cleared(n) ==
    \A i \in DOMAIN Deps(n) :
        /\ isTerminal(st[Deps(n)[i]])
        /\ Intolerant(n) => st[Deps(n)[i]] \in {"succeeded", "partial", "empty"}

(* Nodes that may run have had their dependencies cleared. *)
DepsCleared == \A n \in Node : Underway(n) => Cleared(n)

(* Dependencies are nodes of the plan. *)
LEMMA DepsAreNodes ==
    ASSUME TypeOK, NEW n \in Node, NEW i \in DOMAIN Deps(n)
    PROVE  Deps(n)[i] \in Node
  <1>1. Deps(n) \in Seq(Node)
    BY PlanShape DEF TypeOK, Deps
  <1> QED
    BY <1>1

(* What dependencyState calls ready is cleared. *)
LEMMA ReadyIsCleared ==
    ASSUME TypeOK, NEW n \in Node, DependencyReady(n) PROVE Cleared(n)
  BY DEF DependencyReady, Cleared, FailureState, isTerminal, TerminalState

(* A node gets under way only through the dependency pass. *)
LEMMA EnterUnderway ==
    ASSUME Bookkeeping, [Next]_vars, NEW m \in Node, ~Underway(m), Underway(m)'
    PROVE  DependencyReady(m)
  <1> USE DEF Bookkeeping, Underway
  <1>1. ASSUME st'[m] = st[m] \/ isTerminal(st'[m]), attempt' = attempt PROVE FALSE
    BY <1>1 DEF isTerminal, TerminalState
  <1>2. CASE Promote \/ RetryTimer
    BY <1>1, <1>2 DEF Promote, RetryTimer, PromoteDue, HeapsAgree, Active
  <1>3. CASE Unschedulable \/ Cancelled
    <2>1. isTerminal(st'[m]) /\ attempt' = attempt
      BY <1>3 DEF Unschedulable, Cancelled, FinishRest, isTerminal, TerminalState
    <2> QED
      BY <1>1, <2>1
  <1>4. ASSUME NEW n \in Node, Dispatch(n) PROVE FALSE
    <2>1. st[n] = "ready" /\ n # m
      BY <1>4 DEF Dispatch, HeapsAgree, Active
    <2>2. st'[m] = st[m] /\ attempt'[m] = attempt[m]
      BY <1>4, <2>1 DEF Dispatch, TypeOK
    <2> QED
      BY <2>2
  <1>5. ASSUME NEW n \in Node, ReceiveRetry(n) \/ ReceiveFinal(n) PROVE FALSE
    <2>1. st[n] = "running" /\ n # m
      BY <1>5 DEF ReceiveRetry, ReceiveFinal, OneTaskPerNode, Active
    <2> QED
      BY <1>1, <1>5, <2>1 DEF ReceiveRetry, ReceiveFinal, TypeOK
  <1>6. ASSUME NEW n \in Node, SweepSkip(n) PROVE FALSE
    <2>1. (n = m => st'[m] = "skipped") /\ (n # m => st'[m] = st[m]) /\ attempt' = attempt
      BY <1>6 DEF SweepSkip, TypeOK
    <2> QED
      BY <1>1, <2>1 DEF isTerminal, TerminalState
  <1>7. ASSUME NEW n \in Node, SweepReady(n) PROVE DependencyReady(m)
    BY <1>1, <1>7 DEF SweepReady, TypeOK
  <1>8. ASSUME UNCHANGED <<st, attempt>> PROVE FALSE
    BY <1>1, <1>8
  <1> QED
    BY <1>2, <1>3, <1>4, <1>5, <1>6, <1>7, <1>8
       DEF Next, Scheduler, vars, Start, Wait, Upsert, SweepDone, Finish, SweepWait,
           ExecuteNode, Expire, Consume

(* Cleared dependencies stay cleared. *)
LEMMA ClearedStays ==
    ASSUME Bookkeeping, [Next]_vars, NEW n \in Node, Cleared(n)
    PROVE  Cleared(n)'
  <1>1. Deps(n)' = Deps(n) /\ Intolerant(n)' = Intolerant(n)
    BY PlanFixed DEF Deps, Intolerant
  <1>2. \A i \in DOMAIN Deps(n) : st'[Deps(n)[i]] = st[Deps(n)[i]]
    BY DepsAreNodes, TerminalStep DEF Bookkeeping, Cleared
  <1> QED
    BY <1>1, <1>2 DEF Cleared

(* Nodes that may run always have their dependencies cleared. *)
LEMMA DepsClearedHolds == Spec => []DepsCleared
  <1>1. Init => DepsCleared
    <2> SUFFICES ASSUME Init, NEW n \in Node, Underway(n) PROVE Cleared(n)
      BY DEF DepsCleared
    <2>1. Deps(n) \in Seq(Node) /\ Len(Deps(n)) = 0
      BY TypeInit, PlanShape DEF Init, TypeOK, Underway, Deps
    <2> QED
      BY <2>1 DEF Cleared
  <1>2. Bookkeeping /\ DepsCleared /\ [Next]_vars => DepsCleared'
    <2> SUFFICES ASSUME Bookkeeping, DepsCleared, [Next]_vars, NEW n \in Node, Underway(n)'
                 PROVE  Cleared(n)'
      BY DEF DepsCleared
    <2>1. Cleared(n)
      BY EnterUnderway, ReadyIsCleared DEF DepsCleared, Bookkeeping
    <2> QED
      BY <2>1, ClearedStays
  <1> QED
    BY <1>1, <1>2, BookkeepingHolds, PTL DEF Spec

(* A node is skipped for its dependencies because one failed. *)
Failing(n) == Intolerant(n) /\ \E i \in DOMAIN Deps(n) : st[Deps(n)[i]] \in FailureState
SkipsCaused == \A n \in Node : res[n].error = "dependency" => Failing(n)

(* A node is given that reason only by the dependency pass. *)
LEMMA EnterSkipped ==
    ASSUME Bookkeeping, [Next]_vars, NEW m \in Node,
           res[m].error # "dependency", res'[m].error = "dependency"
    PROVE  DependencySkip(m)
  <1> USE DEF Bookkeeping
  <1>1. ASSUME res'[m] = res[m] PROVE FALSE
    BY <1>1
  <1>2. CASE Unschedulable \/ Cancelled
    BY <1>2 DEF Unschedulable, Cancelled, FinishRest
  <1>3. ASSUME NEW n \in Node, ReceiveRetry(n) \/ ReceiveFinal(n) PROVE FALSE
    BY <1>3 DEF ReceiveRetry, ReceiveFinal, Error, TypeOK
  <1>4. ASSUME NEW n \in Node, SweepSkip(n) PROVE DependencySkip(m)
    BY <1>1, <1>4 DEF SweepSkip, TypeOK
  <1>5. ASSUME res' = res PROVE FALSE
    BY <1>1, <1>5
  <1> QED
    BY <1>2, <1>3, <1>4, <1>5
       DEF Next, Scheduler, vars, Start, Promote, RetryTimer, Dispatch, Wait, Upsert, SweepDone,
           Finish, SweepReady, SweepWait, ExecuteNode, Expire, Consume

(* A failed dependency stays failed. *)
LEMMA FailingStays ==
    ASSUME Bookkeeping, [Next]_vars, NEW n \in Node, Failing(n)
    PROVE  Failing(n)'
  <1>1. Deps(n)' = Deps(n) /\ Intolerant(n)' = Intolerant(n)
    BY PlanFixed DEF Deps, Intolerant
  <1>2. PICK i \in DOMAIN Deps(n) : st[Deps(n)[i]] \in FailureState
    BY DEF Failing
  <1>3. st'[Deps(n)[i]] = st[Deps(n)[i]]
    BY <1>2, DepsAreNodes, TerminalStep
       DEF Bookkeeping, FailureState, isTerminal, TerminalState
  <1> QED
    BY <1>1, <1>2, <1>3 DEF Failing

(* Only nodes with a failed dependency are skipped for it. *)
LEMMA SkipsCausedHolds == Spec => []SkipsCaused
  <1>1. Init => SkipsCaused
    BY DEF Init, SkipsCaused
  <1>2. Bookkeeping /\ SkipsCaused /\ [Next]_vars => SkipsCaused'
    <2> SUFFICES ASSUME Bookkeeping, SkipsCaused, [Next]_vars, NEW n \in Node,
                        res'[n].error = "dependency"
                 PROVE  Failing(n)'
      BY DEF SkipsCaused
    <2>1. DependencySkip(n) => Failing(n)
      BY DEF DependencySkip, Failing
    <2>2. Failing(n)
      BY <2>1, EnterSkipped DEF SkipsCaused
    <2> QED
      BY <2>2, FailingStays
  <1> QED
    BY <1>1, <1>2, BookkeepingHolds, PTL DEF Spec

(* A node is attempted only after all its dependencies are terminal, and     *)
(* after a failed one only if it tolerates failures; it is skipped for them  *)
(* only if it does not and one did fail.                                     *)
THEOREM DependenciesAlwaysRespected == Spec => []DependenciesRespected
  <1>1. DepsCleared /\ SkipsCaused => DependenciesRespected
    BY DEF DepsCleared, SkipsCaused, Failing, DependenciesRespected, Underway, Cleared
  <1> QED
    BY <1>1, DepsClearedHolds, SkipsCausedHolds, PTL

----------------------------------------------------------------------------
(* One session.  Two attempts in flight without a session id could each     *)
(* create one, so the invariant has to say that there is at most one.       *)

\* Until the scheduler knows a session, at most one node is out.
AloneWithoutSession ==
    (Active /\ sessionID = NoSession) =>
        \A m, n \in Node : task[m].phase # "idle" /\ task[n].phase # "idle" => m = n

\* The inductive invariant behind OneSession.
Sessions == OneSession /\ AloneWithoutSession

(* What a goroutine sends: its operation's own session or none, and a state *)
(* other than empty, skipped and cancelled.                                 *)
LEMMA ExecuteSends ==
    ASSUME TypeOK, NEW n \in Node, ExecuteNode(n)
    PROVE  /\ task[n].phase = "working"
           /\ task'[n].phase = "sent"
           /\ task'[n].state \in {"succeeded", "partial", "failed"}
           /\ task[n].session # NoSession => task'[n].session \in {task[n].session, NoSession}
           /\ \A m \in Node \ {n} : task'[m] = task[m]
  <1> DEFINE own == IF task[n].session = NoSession THEN n ELSE task[n].session
             Goal == /\ task'[n].phase = "sent"
                     /\ task'[n].state \in {"succeeded", "partial", "failed"}
                     /\ task[n].session # NoSession => task'[n].session \in {task[n].session, NoSession}
                     /\ \A m \in Node \ {n} : task'[m] = task[m]
  <1> SUFFICES Goal
    BY DEF ExecuteNode
  <1>1. ASSUME NEW s \in {"succeeded", "partial", "failed"}, NEW r \in BOOLEAN,
               NEW k \in 0..MaxItems, NEW sid \in {own, NoSession, task[n].session},
               Send(n, s, r, sid, k)
        PROVE  Goal
    BY <1>1 DEF Send, Completion, TypeOK
  <1>5. 0 \in 0..MaxItems
    BY ExecutorAssumption DEF ExecutorAssumption
  <1> HIDE DEF Goal
  <1>2. CASE ExecuteSessionOp(n)
    <2>1. CASE \E s \in {"succeeded", "partial"}, k \in 0..MaxItems : Send(n, s, FALSE, own, k)
      <3>1. PICK s \in {"succeeded", "partial"}, k \in 0..MaxItems : Send(n, s, FALSE, own, k)
        BY <2>1
      <3> QED
        BY <1>1, <3>1
    <2>2. CASE \E r \in BOOLEAN, sid \in {own, NoSession} : Send(n, "failed", r, sid, 0)
      <3>1. PICK r \in BOOLEAN, sid \in {own, NoSession} : Send(n, "failed", r, sid, 0)
        BY <2>2
      <3> QED
        BY <1>1, <1>5, <3>1
    <2> QED
      BY <1>2, <2>1, <2>2 DEF ExecuteSessionOp
  <1>3. CASE ExecuteResolve(n)
    BY <1>1, <1>3, <1>5 DEF ExecuteResolve
  <1>4. CASE ExecuteLocal(n)
    BY <1>1, <1>4 DEF ExecuteLocal
  <1> QED
    BY <1>2, <1>3, <1>4 DEF ExecuteNode

(* The loop, once left, is not entered again. *)
LEMMA InactiveStays == [Next]_vars /\ ~Active => ~Active'
  BY DEF Next, Scheduler, vars, Active, Start, Promote, Unschedulable, Wait, RetryTimer,
         Cancelled, Upsert, SweepDone, Finish, Dispatch, ReceiveRetry, ReceiveFinal, SweepSkip,
         SweepReady, SweepWait, ExecuteNode, Expire, Consume

(* Every step keeps the plan to one session. *)
LEMMA SessionsNext == Bookkeeping /\ Sessions /\ [Next]_vars => Sessions'
  <1> SUFFICES ASSUME Bookkeeping, Sessions, [Next]_vars PROVE Sessions'
    OBVIOUS
  <1>1. CASE ~Active'
    BY <1>1 DEF Sessions, OneSession, AloneWithoutSession
  <1>2. CASE UNCHANGED <<task, sessionID>>
    BY <1>2, InactiveStays DEF Sessions, OneSession, AloneWithoutSession
  <1>3. ASSUME NEW n \in Node, Dispatch(n) PROVE Sessions'
    <2>1. task' = [task EXCEPT ![n] = Launched(sessionID)] /\ sessionID' = sessionID /\ Active
      BY <1>3 DEF Dispatch, Active
    <2>2. sessionID = NoSession => \A m \in Node : task[m].phase = "idle"
      <3> SUFFICES ASSUME sessionID = NoSession PROVE \A m \in Node : task[m].phase = "idle"
        OBVIOUS
      <3>1. running = 0
        <4>1. RunningNodes \in SUBSET Node
          BY DEF RunningNodes
        <4>2. running \in Nat
          BY <4>1, NodeSets DEF Bookkeeping, CountersAgree
        <4> QED
          BY <1>3, <4>2 DEF Dispatch, CanDispatch
      <3> QED
        BY <2>1, <3>1, NoneRunning DEF Bookkeeping, OneTaskPerNode
    <2> QED
      BY <2>1, <2>2 DEF Sessions, OneSession, AloneWithoutSession, Launched, Bookkeeping, TypeOK
  <1>4. ASSUME NEW n \in Node, ReceiveRetry(n) \/ ReceiveFinal(n) PROVE Sessions'
    <2>1. /\ task' = [task EXCEPT ![n] = Idle] /\ AdoptSession(task[n].session)
          /\ Active /\ task[n].phase = "sent"
      BY <1>4 DEF ReceiveRetry, ReceiveFinal, Active
    <2>2. CASE sessionID # NoSession
      BY <2>1, <2>2 DEF Sessions, OneSession, AloneWithoutSession, AdoptSession, Idle, Bookkeeping, TypeOK
    <2>3. CASE sessionID = NoSession
      <3>1. \A m \in Node : task'[m].phase = "idle"
        BY <2>1, <2>3 DEF Sessions, AloneWithoutSession, Idle, Bookkeeping, TypeOK
      <3> QED
        BY <3>1 DEF Sessions, OneSession, AloneWithoutSession
    <2> QED
      BY <2>2, <2>3
  <1>5. ASSUME NEW n \in Node, ExecuteNode(n) PROVE Sessions'
    <2>1. sessionID' = sessionID /\ pc' = pc
      BY <1>5 DEF ExecuteNode
    <2> QED
      BY <1>5, <2>1, ExecuteSends DEF Sessions, OneSession, AloneWithoutSession, Active, Bookkeeping
  <1> QED
    BY <1>1, <1>2, <1>3, <1>4, <1>5
       DEF Next, Scheduler, vars, Active, Start, Promote, Unschedulable, Wait, RetryTimer, Upsert,
           Cancelled, SweepDone, Finish, SweepSkip, SweepReady, SweepWait, Expire, Consume

(* However many nodes run, retry or fail, they and their completions name    *)
(* one session: the executor holds other nodes back until the first stateful *)
(* one has reported its id.                                                  *)
THEOREM PlanHasOneSession == Spec => []OneSession
  <1>1. Init => Sessions
    BY DEF Init, Sessions, OneSession, AloneWithoutSession, Idle
  <1>2. Sessions => OneSession
    BY DEF Sessions
  <1> QED
    BY <1>1, <1>2, SessionsNext, BookkeepingHolds, PTL DEF Spec

----------------------------------------------------------------------------
(* The result.  The invariant follows each node to its end: what is recorded *)
(* of it, and that its end was announced unless the context is gone or the   *)
(* scheduler gave up on it.  The states a goroutine may send are part of it, *)
(* because a plan without failures must be one whose nodes all succeeded.    *)

\* What a node's result says of its state.
ReportedNode(n) ==
    isTerminal(st[n]) =>
        /\ res[n].state = st[n]
        /\ st[n] # "empty"
        /\ st[n] = "cancelled" => ctxDone
        /\ ctxDone \/ n \in announced \/ res[n].error = "unscheduled"

\* All results agree with the states.
Reported == \A n \in Node : ReportedNode(n)

\* What a goroutine reports is a state an execution can end in.
SentStates ==
    \A n \in Node : task[n].phase = "sent" => task[n].state \in {"succeeded", "partial", "failed"}

\* The result is sent at the end and says whether the plan was partial.
ResultLast ==
    /\ result.sent <=> pc = "done"
    /\ result.sent => (result.partial <=> PlanPartial)

\* The inductive invariant behind ResultHonest.
Honest == Reported /\ SentStates /\ ResultLast

(* A context that is done stays done, and an announcement is not taken back. *)
LEMMA NothingTakenBack == [Next]_vars => (ctxDone => ctxDone') /\ announced \subseteq announced'
  BY DEF Next, Scheduler, vars, Start, Promote, Unschedulable, Wait, RetryTimer, Cancelled,
         Upsert, SweepDone, Finish, Dispatch, ReceiveRetry, ReceiveFinal, SweepSkip,
         SweepReady, SweepWait, ExecuteNode, Expire, Consume, emit, emitSession

(* A node ends in one of four ways, and each leaves an honest record. *)
LEMMA EndReported ==
    ASSUME Bookkeeping, SentStates, [Next]_vars, NEW m \in Node, ~isTerminal(st[m])
    PROVE  ReportedNode(m)'
  <1> USE DEF Bookkeeping, ReportedNode, isTerminal, TerminalState
  <1>1. CASE Promote \/ RetryTimer
    BY <1>1 DEF Promote, RetryTimer, PromoteDue
  <1>2. CASE Unschedulable
    BY <1>2 DEF Unschedulable, FinishRest
  <1>3. CASE Cancelled
    BY <1>3 DEF Cancelled, FinishRest
  <1>4. ASSUME NEW n \in Node, Dispatch(n) PROVE ReportedNode(m)'
    BY <1>4 DEF Dispatch, TypeOK
  <1>5. ASSUME NEW n \in Node, ReceiveRetry(n) PROVE ReportedNode(m)'
    BY <1>5 DEF ReceiveRetry, TypeOK
  <1>6. ASSUME NEW n \in Node, ReceiveFinal(n) PROVE ReportedNode(m)'
    <2>1. CASE n # m
      BY <1>6, <2>1 DEF ReceiveFinal, TypeOK
    <2>2. CASE n = m
      <3>1. /\ st'[m] = task[m].state /\ res'[m].state = task[m].state
            /\ task[m].state \in {"succeeded", "partial", "failed"}
        BY <1>6, <2>2 DEF ReceiveFinal, TypeOK, SentStates
      <3>2. ctxDone' = ctxDone /\ (ctxDone \/ m \in announced')
        BY <1>6, <2>2 DEF ReceiveFinal, emit
      <3> QED
        BY <3>1, <3>2
    <2> QED
      BY <2>1, <2>2
  <1>7. ASSUME NEW n \in Node, SweepSkip(n) PROVE ReportedNode(m)'
    BY <1>7 DEF SweepSkip, emit, TypeOK
  <1>8. ASSUME NEW n \in Node, SweepReady(n) PROVE ReportedNode(m)'
    BY <1>8 DEF SweepReady, TypeOK
  <1>9. ASSUME UNCHANGED st PROVE ReportedNode(m)'
    BY <1>9
  <1> QED
    BY <1>1, <1>2, <1>3, <1>4, <1>5, <1>6, <1>7, <1>8, <1>9
       DEF Next, Scheduler, vars, Start, Wait, Upsert, SweepDone, Finish, SweepWait,
           ExecuteNode, Expire, Consume

(* Completions come from goroutines only. *)
LEMMA SentStatesNext == Bookkeeping /\ SentStates /\ [Next]_vars => SentStates'
  <1> SUFFICES ASSUME Bookkeeping, SentStates, [Next]_vars PROVE SentStates'
    OBVIOUS
  <1>1. ASSUME NEW n \in Node, ExecuteNode(n) PROVE SentStates'
    BY <1>1, ExecuteSends DEF SentStates, Bookkeeping
  <1>2. ASSUME NEW n \in Node, task' = [task EXCEPT ![n] = Launched(sessionID)] PROVE SentStates'
    BY <1>2 DEF SentStates, Launched, Bookkeeping, TypeOK
  <1>3. ASSUME NEW n \in Node, task' = [task EXCEPT ![n] = Idle] PROVE SentStates'
    BY <1>3 DEF SentStates, Idle, Bookkeeping, TypeOK
  <1>4. ASSUME UNCHANGED task PROVE SentStates'
    BY <1>4 DEF SentStates
  <1> QED
    BY <1>1, <1>2, <1>3, <1>4
       DEF Next, Scheduler, vars, Start, Promote, Unschedulable, Wait, RetryTimer, Cancelled,
           Upsert, SweepDone, Finish, Dispatch, ReceiveRetry, ReceiveFinal, SweepSkip,
           SweepReady, SweepWait, Expire, Consume

(* All nodes are terminal once the loop is left. *)
LEMMA EndedTerminal ==
    ASSUME Bookkeeping, ~Active PROVE \A n \in Node : isTerminal(st[n])
  BY AllTerminal DEF Bookkeeping, CountersAgree

(* The result is sent by the last step of the scheduler, and nothing it says *)
(* changes afterwards.                                                       *)
LEMMA ResultLastNext == Bookkeeping /\ ResultLast /\ [Next]_vars => ResultLast'
  <1> SUFFICES ASSUME Bookkeeping, ResultLast, [Next]_vars PROVE ResultLast'
    OBVIOUS
  <1>1. CASE Finish
    BY <1>1 DEF Finish, ResultLast, PlanPartial
  <1>2. CASE pc = "done" /\ ~Finish
    <2>1. pc' = pc /\ result' = result
      BY <1>2 DEF Next, Scheduler, vars, Start, Promote, Unschedulable, Wait, RetryTimer,
         Cancelled, Upsert, SweepDone, Dispatch, ReceiveRetry, ReceiveFinal, SweepSkip,
         SweepReady, SweepWait, ExecuteNode, Expire, Consume
    <2>2. \A n \in Node : isTerminal(st[n])
      BY <1>2, EndedTerminal DEF Active
    <2>3. \A n \in Node : res'[n] = res[n]
      BY <2>2, TerminalStep
    <2> QED
      BY <2>1, <2>3 DEF ResultLast, PlanPartial
  <1>3. CASE pc # "done" /\ ~Finish
    <2>1. pc' # "done" /\ result' = result
      BY <1>3 DEF Next, Scheduler, vars, Start, Promote, Unschedulable, Wait, RetryTimer,
         Cancelled, LoopHead, Upsert, SweepDone, Dispatch, ReceiveRetry, ReceiveFinal,
         SweepSkip, SweepReady, SweepWait, ExecuteNode, Expire, Consume
    <2> QED
      BY <1>3, <2>1 DEF ResultLast
  <1> QED
    BY <1>1, <1>2, <1>3

(* The record is honest in every reachable state. *)
LEMMA HonestHolds == Spec => []Honest
  <1>1. Init => Honest
    <2> SUFFICES ASSUME Init PROVE Honest
      OBVIOUS
    <2>1. \A n \in Node : st[n] \in {"ready", "blocked"}
      BY DEF Init
    <2> QED
      BY <2>1 DEF Init, Honest, Reported, ReportedNode, isTerminal, TerminalState, SentStates,
                  ResultLast, Idle
  <1>2. Bookkeeping /\ Honest /\ [Next]_vars => Honest'
    <2> SUFFICES ASSUME Bookkeeping, Honest, [Next]_vars PROVE Honest'
      OBVIOUS
    <2>1. ASSUME NEW m \in Node PROVE ReportedNode(m)'
      <3>1. CASE ~isTerminal(st[m])
        BY <3>1, EndReported DEF Honest
      <3>2. CASE isTerminal(st[m])
        BY <3>2, TerminalStep, NothingTakenBack DEF Honest, Reported, ReportedNode
      <3> QED
        BY <3>1, <3>2
    <2> QED
      BY <2>1, SentStatesNext, ResultLastNext DEF Honest, Reported
  <1> QED
    BY <1>1, <1>2, BookkeepingHolds, PTL DEF Spec

(* The result a caller receives says of each node what happened to it, a     *)
(* plan not reported partial succeeded node by node, and with a living       *)
(* context nothing is left running and no scheduled node ended silently.     *)
THEOREM ResultAlwaysHonest == Spec => []ResultHonest
  <1>1. Bookkeeping /\ Honest => ResultHonest
    <2> SUFFICES ASSUME Bookkeeping, Honest PROVE ResultHonest
      OBVIOUS
    <2>1. \A n \in Node : isTerminal(st[n]) => res[n].state = st[n]
      BY DEF Honest, Reported, ReportedNode
    <2>2. ASSUME result.sent PROVE \A n \in Node : isTerminal(st[n])
      BY <2>2, EndedTerminal DEF Honest, ResultLast, Active
    <2>3. ASSUME result.sent, ~ctxDone, NEW n \in Node
          PROVE  task[n].phase = "idle" /\ (res[n].error # "unscheduled" => n \in announced)
      <3>1. ~Active
        BY <2>3 DEF Honest, ResultLast, Active
      <3> QED
        BY <2>2, <2>3, <3>1 DEF Honest, Reported, ReportedNode, Bookkeeping, OneTaskPerNode
    <2>4. ASSUME result.sent, ~result.partial, NEW n \in Node PROVE st[n] = "succeeded"
      <3>1. isTerminal(st[n]) /\ res[n].state = st[n] /\ st[n] # "empty"
        BY <2>2, <2>4 DEF Honest, Reported, ReportedNode
      <3>2. res[n].state \notin {"failed", "partial", "skipped", "cancelled"}
        BY <2>4 DEF Honest, ResultLast, PlanPartial
      <3> QED
        BY <3>1, <3>2 DEF isTerminal, TerminalState
    <2> QED
      BY <2>1, <2>2, <2>3, <2>4 DEF ResultHonest
  <1> QED
    BY <1>1, BookkeepingHolds, HonestHolds, PTL

----------------------------------------------------------------------------
(* The contract.  Each step of the executor is one step of PlanContract, or  *)
(* changes nothing the contract speaks of.                                   *)

(* What the contract sees of a node follows from its state. *)
LEMMA PhaseValues ==
    ASSUME NEW n \in Node
    PROVE  /\ PhaseOf(n) = "settled" <=> isTerminal(st[n])
           /\ PhaseOf(n) = "active" <=> st[n] = "running"
           /\ PhaseOf(n) \in {"idle", "active", "settled"}
  BY DEF PhaseOf, isTerminal, TerminalState

(* The contract sees no change of a step that leaves states and result. *)
LEMMA Unseen ==
    ASSUME [Next]_vars, \A n \in Node : PhaseOf(n)' = PhaseOf(n), result'.sent = result.sent
    PROVE  UNCHANGED Contract!cvars
  BY PlanFixed DEF Contract!cvars, Deps

(* Every step is allowed by the contract. *)
LEMMA ContractStep ==
    ASSUME Bookkeeping, DepsCleared, Honest, [Next]_vars
    PROVE  [Contract!CNext]_(Contract!cvars)
  <1>1. UNCHANGED [n \in Node |-> {Deps(n)[i] : i \in DOMAIN Deps(n)}]
    BY PlanFixed DEF Deps
  <1>2. ASSUME NEW n \in Node, Dispatch(n) PROVE Contract!Begin(n)
    <2>1. st[n] = "ready" /\ st' = [st EXCEPT ![n] = "running"] /\ result' = result
      BY <1>2 DEF Dispatch, Bookkeeping, HeapsAgree, Active
    <2>2. \A i \in DOMAIN Deps(n) : Deps(n)[i] \in Node /\ PhaseOf(Deps(n)[i]) = "settled"
      BY <2>1, DepsAreNodes, PhaseValues DEF DepsCleared, Underway, Cleared, Bookkeeping
    <2>3. /\ PhaseOf(n) = "idle" /\ PhaseOf(n)' = "active"
          /\ \A m \in Node \ {n} : PhaseOf(m)' = PhaseOf(m)
      BY <2>1 DEF PhaseOf, isTerminal, TerminalState, Bookkeeping, TypeOK
    <2> QED
      BY <1>1, <2>1, <2>2, <2>3 DEF Contract!Begin
  <1>3. ASSUME NEW n \in Node, ReceiveRetry(n) PROVE Contract!GiveBack(n)
    <2>1. st[n] = "running" /\ st' = [st EXCEPT ![n] = "retry_wait"] /\ result' = result
      BY <1>3 DEF ReceiveRetry, Bookkeeping, OneTaskPerNode, Active
    <2>2. /\ PhaseOf(n) = "active" /\ PhaseOf(n)' = "idle"
          /\ \A m \in Node \ {n} : PhaseOf(m)' = PhaseOf(m)
      BY <2>1 DEF PhaseOf, isTerminal, TerminalState, Bookkeeping, TypeOK
    <2> QED
      BY <1>1, <2>1, <2>2 DEF Contract!GiveBack
  <1>4. ASSUME NEW S \in SUBSET Node, result' = result,
               \A n \in S : ~isTerminal(st[n]) /\ isTerminal(st'[n]),
               \A n \in Node \ S : st'[n] = st[n]
        PROVE  Contract!Settle(S)
    <2>1. /\ \A n \in S : PhaseOf(n) # "settled" /\ PhaseOf(n)' = "settled"
          /\ \A n \in Node \ S : PhaseOf(n)' = PhaseOf(n)
      BY <1>4 DEF PhaseOf, isTerminal, TerminalState
    <2> QED
      BY <1>1, <1>4, <2>1 DEF Contract!Settle
  <1>5. ASSUME NEW n \in Node, ReceiveFinal(n) \/ SweepSkip(n) PROVE Contract!Settle({n})
    <2>1. /\ st[n] \in {"running", "blocked"} /\ result' = result
          /\ st' = [st EXCEPT ![n] = task[n].state] \/ st' = [st EXCEPT ![n] = "skipped"]
      BY <1>5 DEF ReceiveFinal, SweepSkip, Bookkeeping, OneTaskPerNode, SweepBlocked, Active
    <2>2. task[n].state \in TerminalState /\ "skipped" \in TerminalState
      BY TaskFields DEF Bookkeeping, TypeOK, TerminalState
    <2>3. /\ ~isTerminal(st[n]) /\ isTerminal(st'[n])
          /\ \A m \in Node \ {n} : st'[m] = st[m]
      BY <2>1, <2>2 DEF isTerminal, TerminalState, Bookkeeping, TypeOK
    <2> QED
      BY <1>4, <2>1, <2>3
  <1>6. CASE Unschedulable \/ Cancelled
    <2> DEFINE S == {n \in Node : ~isTerminal(st[n])}
    <2>1. /\ result' = result
          /\ \A n \in S : isTerminal(st'[n])
          /\ \A n \in Node \ S : st'[n] = st[n]
      BY <1>6 DEF Unschedulable, Cancelled, FinishRest, isTerminal, TerminalState
    <2>2. Contract!Settle(S)
      BY <1>4, <2>1
    <2> QED
      BY <2>2 DEF Contract!CNext
  <1>7. CASE Finish
    <2>1. pc = "finish" /\ st' = st /\ result'.sent = TRUE /\ result.sent = FALSE
      BY <1>7 DEF Finish, Honest, ResultLast, Bookkeeping, TypeOK
    <2>2. \A n \in Node : PhaseOf(n) = "settled" /\ PhaseOf(n)' = PhaseOf(n)
      BY <2>1, EndedTerminal DEF Active, PhaseOf
    <2>3. Contract!Deliver
      BY <1>1, <2>1, <2>2 DEF Contract!Deliver
    <2> QED
      BY <2>3 DEF Contract!CNext
  <1>8. CASE Promote \/ RetryTimer
    <2>1. result' = result /\ \A n \in Node : PhaseOf(n)' = PhaseOf(n)
      BY <1>8 DEF Promote, RetryTimer, PromoteDue, PhaseOf, isTerminal, TerminalState
    <2> QED
      BY <2>1, Unseen
  <1>9. ASSUME NEW n \in Node, SweepReady(n) PROVE UNCHANGED Contract!cvars
    <2>1. st[n] = "blocked" /\ st' = [st EXCEPT ![n] = "ready"] /\ result' = result
      BY <1>9 DEF SweepReady, Bookkeeping, SweepBlocked
    <2>2. \A m \in Node : PhaseOf(m)' = PhaseOf(m)
      BY <2>1 DEF PhaseOf, isTerminal, TerminalState, Bookkeeping, TypeOK
    <2> QED
      BY <2>1, <2>2, Unseen
  <1>10. ASSUME UNCHANGED <<st, result>> PROVE UNCHANGED Contract!cvars
    BY <1>10, Unseen DEF PhaseOf
  <1>11. ASSUME NEW n \in Node, Contract!Begin(n) \/ Contract!GiveBack(n) PROVE Contract!CNext
    BY <1>11 DEF Contract!CNext
  <1>12. ASSUME NEW n \in Node, Contract!Settle({n}) PROVE Contract!CNext
    BY <1>12 DEF Contract!CNext
  <1> QED
    BY <1>2, <1>3, <1>5, <1>6, <1>7, <1>8, <1>9, <1>10, <1>11, <1>12
       DEF Next, Scheduler, vars, Start, Wait, Upsert, SweepDone, SweepWait,
           ExecuteNode, Expire, Consume

(* The executor, with its heaps, goroutines, retries and cancellation, does  *)
(* only what PlanContract lets an executor do.                               *)
THEOREM ExecutorImplementsContract == Spec => ContractKept
  <1>1. Init => Contract!CInit
    <2> SUFFICES ASSUME Init PROVE Contract!CInit
      OBVIOUS
    <2>1. \A n \in Node : PhaseOf(n) = "idle"
      BY DEF Init, PhaseOf, isTerminal, TerminalState
    <2>2. \A n \in Node : {Deps(n)[i] : i \in DOMAIN Deps(n)} \subseteq Node
      BY TypeInit, DepsAreNodes
    <2> QED
      BY <2>1, <2>2 DEF Contract!CInit, Init
  <1> QED
    BY <1>1, ContractStep, BookkeepingHolds, DepsClearedHolds, HonestHolds, PTL
       DEF Spec, ContractKept, Contract!CSpec
===========================================================================

--------------------------- MODULE ProviderProofs ---------------------------
(***************************************************************************)
(* Theorems about the components that call providers many times for one    *)
(* request, for any number of callers, objects and messages.               *)
(*                                                                         *)
(* Expand, for every graph and every budget: what an expansion asks and    *)
(* returns is exact, and expansions that do not overlap keep each other's  *)
(* relations.  MessageFetch and Replay: a batch that succeeds is complete, *)
(* a replay gives what was recorded, and recordings can be found.          *)
(***************************************************************************)
EXTENDS Expand, Replay, TLAPS

----------------------------------------------------------------------------
(* Expand *)

\* Relations between objects.
Relations == SUBSET (Object \X Object)

\* States of an object's goroutine.
Stage == {"none", "wait", "called", "ok", "leaf", "error", "exhausted"}

(* The variables have their types. *)
TypeOK ==
    /\ kind \in [Object -> {"expands", "unsupported", "refused"}]
    /\ relations \in Relations
    /\ pc \in [Task -> {"idle", "level", "finish", "done", "failed"}]
    /\ old \in [Task -> Relations] /\ new \in [Task -> Relations]
    /\ level \in [Task -> [Object -> Stage]]
    /\ depth \in [Task -> Nat]
    /\ visited \in [Task -> SUBSET Object] /\ partial \in [Task -> SUBSET Object]
    /\ asked \in [Task -> [Object -> Nat]]
    /\ overlap \in BOOLEAN

(* The relations an object has. *)
From(o) == {o} \X Reachable(o)

(* An expansion that has not begun has done nothing. *)
Untouched(t) ==
    pc[t] = "idle" =>
        /\ asked[t] = [o \in Object |-> 0] /\ level[t] = Idle
        /\ new[t] = {} /\ partial[t] = {} /\ depth[t] = 0 /\ visited[t] = {}

(* A goroutine's state says what its object can do and whether it was asked. *)
Called(t) ==
    \A o \in Object :
        /\ level[t][o] \in {"called", "ok"} => ~CannotExpand(o)
        /\ level[t][o] = "leaf" => CannotExpand(o) /\ o # Root[t]
        /\ level[t][o] = "wait" => asked[t][o] = 0
        /\ asked[t][o] <= IF o \in visited[t] THEN 1 ELSE 0

(* The first level is the root; the second one, if the depth allows it, the  *)
(* root's neighbours, and then the root has given its relations.             *)
Levels(t) ==
    /\ pc[t] # "idle" => visited[t] \subseteq Near(t)
    /\ pc[t] # "level" => \A o \in Object : level[t][o] = "none"
    /\ pc[t] = "level" =>
          /\ partial[t] = {}
          /\ \/ /\ depth[t] = 0 /\ new[t] = {} /\ visited[t] = {Root[t]}
                /\ \A o \in Object : level[t][o] # "none" <=> o = Root[t]
             \/ /\ depth[t] = 1 /\ Depth(t) = 2 /\ new[t] = From(Root[t])
                /\ visited[t] = Near(t)
                /\ \A o \in Object : level[t][o] # "none" <=> o \in Near(t) \ {Root[t]}

(* What an expansion that missed nothing has found. *)
Complete(t) ==
    pc[t] \in {"finish", "done"} /\ partial[t] = {} =>
        new[t] = UNION {From(o) : o \in Near(t)}

\* The inductive invariant behind ExpandExact.
Traversal == \A t \in Task : Untouched(t) /\ Called(t) /\ Levels(t) /\ Complete(t)

\* An expansion between its snapshot and its write-back.
Active(t) == pc[t] \in {"level", "finish"}

(* Without overlap, one expansion at most is active, and its snapshot is what *)
(* the session still holds.                                                  *)
Serial ==
    ~overlap =>
        /\ \A t, u \in Task : Active(t) /\ Active(u) => t = u
        /\ \A t \in Task : Active(t) => old[t] = relations
        /\ \A t \in Task : pc[t] = "done" => new[t] \subseteq relations

----------------------------------------------------------------------------
(* Types and constants. *)

\* Depths and neighbourhoods.
LEMMA DepthRange ==
    ASSUME NEW t \in Task PROVE Depth(t) \in {1, 2} /\ Root[t] \in Object
  BY ExpandAssumption DEF ExpandAssumption, Depth

\* Objects near an object are objects.
LEMMA NearObjects ==
    ASSUME NEW t \in Task PROVE Near(t) \in SUBSET Object /\ Root[t] \in Near(t)
  BY ExpandAssumption DEF ExpandAssumption, Near, Reachable

\* The state is typed initially.
LEMMA TypeInit == Init => TypeOK
  <1> SUFFICES ASSUME Init PROVE TypeOK
    OBVIOUS
  <1>1. kind \in [Object -> {"expands", "unsupported", "refused"}]
    BY ExpandAssumption DEF ExpandAssumption, Init
  <1>2. level \in [Task -> [Object -> Stage]] /\ asked \in [Task -> [Object -> Nat]]
    BY DEF Init, Idle, Stage
  <1> QED
    BY <1>1, <1>2 DEF Init, TypeOK, Relations

\* A goroutine's move keeps the type of levels.
LEMMA OutcomeType ==
    ASSUME TypeOK, NEW t \in Task, NEW o \in Object, NEW r \in Stage, Outcome(t, o, r)
    PROVE  /\ level' \in [Task -> [Object -> Stage]]
           /\ level'[t][o] = r
           /\ \A u \in Task, x \in Object : u # t \/ x # o => level'[u][x] = level[u][x]
  BY DEF TypeOK, Outcome

\* Moving on keeps the type of places.
LEMMA GoToType ==
    ASSUME TypeOK, NEW t \in Task, NEW l \in {"idle", "level", "finish", "done", "failed"}, GoTo(t, l)
    PROVE  /\ pc' \in [Task -> {"idle", "level", "finish", "done", "failed"}]
           /\ pc'[t] = l /\ \A u \in Task \ {t} : pc'[u] = pc[u]
  BY DEF TypeOK, GoTo

\* What a level has found are relations.
LEMMA FoundRelations ==
    ASSUME NEW t \in Task
    PROVE  {r \in Found(t) : r[2] \in Graph[r[1]]} =
              {r \in Object \X Object : level[t][r[1]] = "ok" /\ r[2] \in Graph[r[1]]}
  BY DEF Found, With

\* What Collect changes, spelled out.
LEMMA Collected ==
    ASSUME TypeOK, NEW t \in Task, Collect(t)
    PROVE  \E next \in SUBSET Object :
              LET rels == {r \in Object \X Object : level[t][r[1]] = "ok" /\ r[2] \in Graph[r[1]]}
              IN /\ next = IF Deeper(t) /\ (\A o \in Object : level[t][o] # "exhausted")
                           THEN {r[2] : r \in rels} \ visited[t] ELSE {}
                 /\ new' = [new EXCEPT ![t] = @ \cup rels]
                 /\ partial' = [partial EXCEPT
                        ![t] = @ \cup {o \in Object : level[t][o] \in {"error", "exhausted"}}]
                 /\ visited' = [visited EXCEPT ![t] = @ \cup next]
                 /\ level' = [level EXCEPT
                        ![t] = [o \in Object |-> IF o \in next THEN "wait" ELSE "none"]]
                 /\ depth' = [depth EXCEPT ![t] = @ + 1]
                 /\ GoTo(t, IF next = {} THEN "finish" ELSE "level")
  <1> DEFINE rels == {r \in Object \X Object : level[t][r[1]] = "ok" /\ r[2] \in Graph[r[1]]}
             next == IF Deeper(t) /\ With(t, "exhausted") = {} THEN Frontier(t, rels) ELSE {}
  <1>1. rels = {r \in Found(t) : r[2] \in Graph[r[1]]}
    BY FoundRelations
  <1>2. /\ new' = [new EXCEPT ![t] = @ \cup rels]
        /\ partial' = [partial EXCEPT ![t] = @ \cup With(t, "error") \cup With(t, "exhausted")]
        /\ visited' = [visited EXCEPT ![t] = @ \cup next]
        /\ level' = [level EXCEPT ![t] = [o \in Object |-> IF o \in next THEN "wait" ELSE "none"]]
        /\ depth' = [depth EXCEPT ![t] = @ + 1]
        /\ GoTo(t, IF next = {} THEN "finish" ELSE "level")
    BY <1>1 DEF Collect
  <1>3. next = IF Deeper(t) /\ (\A o \in Object : level[t][o] # "exhausted")
               THEN {r[2] : r \in rels} \ visited[t] ELSE {}
    BY DEF With, Frontier
  <1>4. next \in SUBSET Object
    <2>1. \A r \in rels : r[2] \in Object
      OBVIOUS
    <2> HIDE DEF rels, next
    <2> QED
      BY <1>3, <2>1
  <1>5. partial[t] \cup With(t, "error") \cup With(t, "exhausted") =
            partial[t] \cup {o \in Object : level[t][o] \in {"error", "exhausted"}}
    BY DEF With
  <1> HIDE DEF rels, next
  <1> QED
    BY <1>2, <1>3, <1>4, <1>5 DEF rels

\* Every step keeps the types.
LEMMA TypeNext == TypeOK /\ [Next]_vars => TypeOK'
  <1> SUFFICES ASSUME TypeOK, [Next]_vars PROVE TypeOK'
    OBVIOUS
  <1>1. CASE UNCHANGED vars
    BY <1>1 DEF TypeOK, vars, taskVars
  <1>2. ASSUME NEW t \in Task, Step(t) PROVE TypeOK'
    <2>1. CASE Begin(t)
      <3>1. level' \in [Task -> [Object -> Stage]]
        BY <2>1, DepthRange DEF Begin, TypeOK, Stage
      <3>2. visited' \in [Task -> SUBSET Object] /\ old' \in [Task -> Relations]
        BY <2>1, DepthRange DEF Begin, TypeOK
      <3>3. pc' \in [Task -> {"idle", "level", "finish", "done", "failed"}] /\ overlap' \in BOOLEAN
        BY <2>1, GoToType DEF Begin
      <3> QED
        BY <2>1, <3>1, <3>2, <3>3 DEF Begin, TypeOK
    <2>2. CASE BeginRefused(t) \/ ReturnError(t)
      BY <2>2, GoToType DEF BeginRefused, ReturnError, TypeOK
    <2>3. CASE Return(t)
      <3>1. WriteBack(t) \in Relations
        BY DEF WriteBack, TypeOK, Relations
      <3> QED
        BY <2>3, <3>1, GoToType DEF Return, TypeOK
    <2>4. CASE Collect(t)
      <3>1. PICK next \in SUBSET Object :
               /\ new'[t] \in Relations /\ new' = [new EXCEPT ![t] = new'[t]]
               /\ partial'[t] \in SUBSET Object /\ partial' = [partial EXCEPT ![t] = partial'[t]]
               /\ visited' = [visited EXCEPT ![t] = @ \cup next]
               /\ level' = [level EXCEPT
                      ![t] = [o \in Object |-> IF o \in next THEN "wait" ELSE "none"]]
               /\ depth' = [depth EXCEPT ![t] = @ + 1]
               /\ GoTo(t, IF next = {} THEN "finish" ELSE "level")
        <4>1. PICK rels \in Relations, next \in SUBSET Object, bad \in SUBSET Object :
                 /\ new' = [new EXCEPT ![t] = @ \cup rels]
                 /\ partial' = [partial EXCEPT ![t] = @ \cup bad]
                 /\ visited' = [visited EXCEPT ![t] = @ \cup next]
                 /\ level' = [level EXCEPT
                        ![t] = [o \in Object |-> IF o \in next THEN "wait" ELSE "none"]]
                 /\ depth' = [depth EXCEPT ![t] = @ + 1]
                 /\ GoTo(t, IF next = {} THEN "finish" ELSE "level")
          <5> DEFINE rels == {r \in Object \X Object : level[t][r[1]] = "ok" /\ r[2] \in Graph[r[1]]}
                     bad == {o \in Object : level[t][o] \in {"error", "exhausted"}}
          <5>1. rels \in Relations /\ bad \in SUBSET Object
            BY DEF Relations
          <5> HIDE DEF Relations
          <5> QED
            BY <2>4, <5>1, Collected
        <4>2. new'[t] = new[t] \cup rels /\ partial'[t] = partial[t] \cup bad
          BY <4>1 DEF TypeOK
        <4>3. new[t] \cup rels \in Relations /\ partial[t] \cup bad \in SUBSET Object
          BY DEF TypeOK, Relations
        <4> QED
          BY <4>1, <4>2, <4>3
      <3>2. level' \in [Task -> [Object -> Stage]]
        BY <3>1 DEF TypeOK, Stage
      <3>3. new' \in [Task -> Relations] /\ partial' \in [Task -> SUBSET Object]
        BY <3>1 DEF TypeOK
      <3>4. visited' \in [Task -> SUBSET Object] /\ depth' \in [Task -> Nat]
        BY <3>1 DEF TypeOK
      <3>5. pc' \in [Task -> {"idle", "level", "finish", "done", "failed"}]
        BY <3>1, GoToType
      <3> QED
        BY <2>4, <3>2, <3>3, <3>4, <3>5 DEF Collect, TypeOK
    <2>5. ASSUME NEW o \in Object, Refuse(t, o) \/ Call(t, o) \/ Answer(t, o)
          PROVE  TypeOK'
      <3>1. \E r \in Stage : Outcome(t, o, r)
        BY <2>5 DEF Refuse, Call, Answer, Stage
      <3>2. level' \in [Task -> [Object -> Stage]]
        BY <3>1, OutcomeType
      <3>3. asked' \in [Task -> [Object -> Nat]]
        <4>1. asked' = asked \/ asked' = [asked EXCEPT ![t][o] = @ + 1]
          BY <2>5 DEF Refuse, Call, Answer
        <4>2. asked[t] \in [Object -> Nat] /\ asked[t][o] + 1 \in Nat
          BY DEF TypeOK
        <4>3. [asked[t] EXCEPT ![o] = asked[t][o] + 1] \in [Object -> Nat]
          BY <4>2
        <4>4. asked' = asked \/ asked' = [asked EXCEPT ![t] = [asked[t] EXCEPT ![o] = asked[t][o] + 1]]
          BY <4>1
        <4> QED
          BY <4>3, <4>4 DEF TypeOK
      <3> QED
        BY <2>5, <3>2, <3>3 DEF Refuse, Call, Answer, TypeOK
    <2> QED
      BY <1>2, <2>1, <2>2, <2>3, <2>4, <2>5 DEF Step
  <1> QED
    BY <1>1, <1>2 DEF Next

----------------------------------------------------------------------------
(* Traversals. *)

\* What is true of one expansion.
Sound(t) == Untouched(t) /\ Called(t) /\ Levels(t) /\ Complete(t)

\* No expansion has begun.
LEMMA TraversalInit == Init => Traversal
  BY DEF Init, Traversal, Untouched, Called, Levels, Complete, Idle

\* An expansion no step touches stays as sound as it is.
LEMMA SoundSame ==
    ASSUME NEW t \in Task, Sound(t), kind' = kind, pc'[t] = pc[t], asked'[t] = asked[t],
           level'[t] = level[t], new'[t] = new[t], partial'[t] = partial[t],
           depth'[t] = depth[t], visited'[t] = visited[t]
    PROVE  Sound(t)'
  <1>1. Near(t)' = Near(t)
    BY DEF Near, Reachable, CannotExpand
  <1>2. \A o \in Object : From(o)' = From(o) /\ (CannotExpand(o)' <=> CannotExpand(o))
    BY DEF From, Reachable, CannotExpand
  <1>3. Untouched(t)'
    BY DEF Sound, Untouched
  <1>4. Called(t)'
    BY <1>2 DEF Sound, Called
  <1>5. Levels(t)'
    BY <1>1, <1>2, DepthRange DEF Sound, Levels
  <1>6. Complete(t)'
    BY <1>1, <1>2, NearObjects DEF Sound, Complete
  <1> QED
    BY <1>3, <1>4, <1>5, <1>6 DEF Sound

\* The first level is the root.
LEMMA BeginSound ==
    ASSUME TypeOK, NEW t \in Task, Sound(t), Begin(t)
    PROVE  Sound(t)'
  <1> DEFINE root == Root[t]
  <1>1. /\ pc[t] = "idle" /\ pc'[t] = "level" /\ root \in Object
        /\ level'[t] = [o \in Object |-> IF o = root THEN "wait" ELSE "none"]
        /\ visited'[t] = {root}
        /\ new'[t] = {} /\ partial'[t] = {} /\ depth'[t] = 0
        /\ asked'[t] = [o \in Object |-> 0]
    <2>1. pc[t] = "idle" /\ pc'[t] = "level" /\ root \in Object
      BY DepthRange, GoToType DEF Begin
    <2>2. level[t] = Idle /\ level'[t] = [level[t] EXCEPT ![root] = "wait"]
      BY <2>1 DEF Begin, TypeOK, Sound, Untouched
    <2>3. /\ visited'[t] = {root} /\ new'[t] = {} /\ partial'[t] = {} /\ depth'[t] = 0
          /\ asked'[t] = [o \in Object |-> 0]
      BY <2>1 DEF Begin, TypeOK, Sound, Untouched
    <2> HIDE DEF root
    <2> QED
      BY <2>1, <2>2, <2>3 DEF Idle
  <1>2. root \in Near(t)'
    BY DEF Near
  <1> HIDE DEF root
  <1>3. Untouched(t)' /\ Complete(t)'
    BY <1>1 DEF Untouched, Complete
  <1>4. Called(t)'
    BY <1>1 DEF Called
  <1>5. Levels(t)'
    BY <1>1, <1>2 DEF Levels, root
  <1> QED
    BY <1>3, <1>4, <1>5 DEF Sound

\* A goroutine moves: it was asked for its object at most once.
LEMMA GoroutineSound ==
    ASSUME TypeOK, NEW t \in Task, Sound(t), pc[t] # "idle",
           NEW o \in Object, Refuse(t, o) \/ Call(t, o) \/ Answer(t, o)
    PROVE  Sound(t)'
  <1>1. PICK r \in Stage \ {"none", "wait"} : Outcome(t, o, r)
    BY DEF Refuse, Call, Answer, Stage
  <1>2. /\ level'[t][o] = r /\ \A x \in Object \ {o} : level'[t][x] = level[t][x]
        /\ level[t][o] \in {"wait", "called"}
    BY <1>1, OutcomeType DEF Refuse, Call, Answer
  <1>3. /\ kind' = kind /\ pc' = pc /\ new' = new /\ partial' = partial
        /\ depth' = depth /\ visited' = visited
    BY DEF Refuse, Call, Answer
  <1>4. /\ \A x \in Object \ {o} : asked'[t][x] = asked[t][x]
        /\ asked'[t][o] \in {asked[t][o], asked[t][o] + 1}
        /\ asked'[t][o] # asked[t][o] => level[t][o] = "wait"
    BY DEF Refuse, Call, Answer, TypeOK
  <1>5. /\ r \in {"called", "ok"} => ~CannotExpand(o)
        /\ r = "leaf" => CannotExpand(o) /\ o # Root[t]
    <2>1. level[t][o] = "called" => ~CannotExpand(o)
      BY DEF Sound, Called
    <2>2. level'[t][o] = r
      BY <1>2
    <2>3. CASE Refuse(t, o)
      <3>1. \/ CannotExpand(o) /\ Outcome(t, o, IF o = Root[t] THEN "error" ELSE "leaf")
            \/ Outcome(t, o, "error")
        BY <2>3 DEF Refuse
      <3>2. \/ CannotExpand(o) /\ r = (IF o = Root[t] THEN "error" ELSE "leaf")
            \/ r = "error"
        BY <2>2, <3>1, OutcomeType DEF Stage
      <3> QED
        BY <3>2
    <2>4. CASE Call(t, o)
      <3>1. ~CannotExpand(o) /\ (Outcome(t, o, "called") \/ Outcome(t, o, "exhausted"))
        BY <2>4 DEF Call
      <3>2. r \in {"called", "exhausted"}
        BY <2>2, <3>1, OutcomeType DEF Stage
      <3> QED
        BY <3>1, <3>2
    <2>5. CASE Answer(t, o)
      <3>1. level[t][o] = "called" /\ \E x \in {"ok", "error", "exhausted"} : Outcome(t, o, x)
        BY <2>5 DEF Answer
      <3>2. r \in {"ok", "error", "exhausted"}
        BY <2>2, <3>1, OutcomeType DEF Stage
      <3> QED
        BY <2>1, <3>1, <3>2
    <2> QED
      BY <2>3, <2>4, <2>5
  <1>6. Near(t)' = Near(t) /\ \A x \in Object : From(x)' = From(x) /\ (CannotExpand(x)' <=> CannotExpand(x))
    BY <1>3 DEF Near, From, Reachable, CannotExpand
  <1>7. o \in visited[t]
    BY <1>2, NearObjects DEF Sound, Levels, Untouched, Idle
  <1>8. Called(t)'
    <2>1. asked[t] \in [Object -> Nat]
      BY DEF TypeOK
    <2> QED
      BY <1>2, <1>3, <1>4, <1>5, <1>6, <1>7, <2>1 DEF Sound, Called
  <1>9. Untouched(t)' /\ Complete(t)'
    BY <1>3, <1>6, NearObjects DEF Sound, Untouched, Complete
  <1>10. Levels(t)'
    BY <1>2, <1>3, <1>6, DepthRange DEF Sound, Levels
  <1> QED
    BY <1>8, <1>9, <1>10 DEF Sound

(* A level ends.  After the first one the root has given its relations or is *)
(* known to have failed; after the second one the same is true of every     *)
(* neighbour.                                                                *)
LEMMA CollectSound ==
    ASSUME TypeOK, NEW t \in Task, Sound(t), Collect(t)
    PROVE  Sound(t)'
  <1> DEFINE root == Root[t]
             rels == {r \in Object \X Object : level[t][r[1]] = "ok" /\ r[2] \in Graph[r[1]]}
             bad == {o \in Object : level[t][o] \in {"error", "exhausted"}}
  <1>1. PICK next \in SUBSET Object :
           /\ next = IF Deeper(t) /\ (\A o \in Object : level[t][o] # "exhausted")
                     THEN {r[2] : r \in rels} \ visited[t] ELSE {}
           /\ new'[t] = new[t] \cup rels
           /\ partial'[t] = partial[t] \cup bad
           /\ visited'[t] = visited[t] \cup next
           /\ level'[t] = [o \in Object |-> IF o \in next THEN "wait" ELSE "none"]
           /\ depth'[t] = depth[t] + 1
           /\ pc'[t] = IF next = {} THEN "finish" ELSE "level"
    <2>1. PICK next \in SUBSET Object :
             /\ next = IF Deeper(t) /\ (\A o \in Object : level[t][o] # "exhausted")
                       THEN {r[2] : r \in rels} \ visited[t] ELSE {}
             /\ new' = [new EXCEPT ![t] = @ \cup rels]
             /\ partial' = [partial EXCEPT ![t] = @ \cup bad]
             /\ visited' = [visited EXCEPT ![t] = @ \cup next]
             /\ level' = [level EXCEPT ![t] = [o \in Object |-> IF o \in next THEN "wait" ELSE "none"]]
             /\ depth' = [depth EXCEPT ![t] = @ + 1]
             /\ GoTo(t, IF next = {} THEN "finish" ELSE "level")
      BY Collected
    <2> HIDE DEF rels, bad
    <2> QED
      BY <2>1 DEF TypeOK, GoTo
  <1>2. /\ pc[t] = "level" /\ kind' = kind /\ asked' = asked
        /\ \A o \in Object : level[t][o] \in {"none", "ok", "leaf", "error", "exhausted"}
    BY DEF Collect
  <1>3. /\ Near(t)' = Near(t)
        /\ \A o \in Object : From(o)' = From(o) /\ (CannotExpand(o)' <=> CannotExpand(o))
    BY <1>2 DEF Near, From, Reachable, CannotExpand
  <1>4. /\ root \in Object /\ Depth(t) \in {1, 2}
        /\ Near(t) \in SUBSET Object /\ root \in Near(t)
    BY DepthRange, NearObjects
  <1>5. \A o \in Object : level[t][o] = "ok" => From(o) = {r \in rels : r[1] = o}
    BY ExpandAssumption DEF ExpandAssumption, Sound, Called, From, Reachable
  <1>6. \A o \in Object : level[t][o] = "leaf" => From(o) = {}
    BY DEF Sound, Called, From, Reachable
  <1>7. \A r \in rels : r[1] \in Object /\ level[t][r[1]] = "ok"
    OBVIOUS
  <1>8. CASE depth[t] = 0
    <2>1. new[t] = {} /\ visited[t] = {root} /\ \A o \in Object : level[t][o] # "none" <=> o = root
      BY <1>2, <1>8 DEF Sound, Levels
    <2>2. partial[t] = {}
      BY <1>2 DEF Sound, Levels
    <2>3. level[t][root] \in {"ok", "error", "exhausted"}
      BY <1>2, <1>4, <2>1 DEF Sound, Called
    <2>4. CASE level[t][root] = "ok"
      <3>1. rels = From(root) /\ bad = {}
        BY <1>4, <1>5, <1>7, <2>1, <2>4
      <3>2. {r[2] : r \in rels} = Graph[root]
        <4>1. From(root) = {root} \X Graph[root]
          BY <1>4, <2>4 DEF Sound, Called, From, Reachable
        <4>2. \A x \in Graph[root] : <<root, x>> \in From(root)
          BY <4>1
        <4>3. \A r \in From(root) : r[2] \in Graph[root]
          BY <4>1
        <4>4. \A x \in Graph[root] : \E r \in From(root) : r[2] = x
          <5>1. \A x : <<root, x>>[2] = x
            OBVIOUS
          <5> QED
            BY <4>2, <5>1
        <4>5. rels = From(root)
          BY <3>1
        <4> HIDE DEF rels, root
        <4>6. \A x : x \in {r[2] : r \in From(root)} <=> x \in Graph[root]
          BY <4>3, <4>4
        <4> QED
          BY <4>5, <4>6
      <3>3. Deeper(t) <=> Depth(t) = 2
        BY <1>4, <1>8 DEF Deeper
      <3>4. Near(t) = {root} \cup IF Depth(t) = 1 THEN {} ELSE Graph[root]
        BY <1>4, <2>4 DEF Sound, Called, Near, Reachable
      <3>5. next = Near(t) \ {root}
        BY <1>1, <1>4, <2>1, <2>4, <3>2, <3>3, <3>4
      <3> HIDE DEF rels, bad, root
      <3>6. visited'[t] = Near(t)
        BY <1>1, <1>4, <2>1, <3>5
      <3>7. new'[t] = From(root) /\ partial'[t] = {} /\ depth'[t] = 1
        BY <1>1, <1>8, <2>1, <2>2, <3>1
      <3>8. next # {} => Depth(t) = 2
        BY <1>4, <3>4, <3>5
      <3>9. next = {} => new'[t] = UNION {From(o) : o \in Near(t)}
        BY <1>4, <3>5, <3>7
      <3>10. Levels(t)'
        <4>1. \A o \in Object : level'[t][o] # "none" <=> o \in next
          BY <1>1
        <4> QED
          BY <1>1, <1>3, <1>4, <3>5, <3>6, <3>7, <3>8, <4>1 DEF Levels, root
      <3>11. Complete(t)'
        BY <1>1, <1>3, <1>4, <3>7, <3>9 DEF Complete
      <3>12. Called(t)'
        <4>1. \A o \in next : asked[t][o] = 0
          <5>1. \A o \in next : o \notin visited[t] /\ o \in Object
            BY <1>1
          <5>2. asked[t] \in [Object -> Nat]
            BY DEF TypeOK
          <5> QED
            BY <5>1, <5>2 DEF Sound, Called
        <4>2. \A o \in Object : asked[t][o] <= IF o \in visited[t] THEN 1 ELSE 0
          BY DEF Sound, Called
        <4>3. asked[t] \in [Object -> Nat]
          BY DEF TypeOK
        <4>4. \A o \in Object : level'[t][o] \in {"none", "wait"} /\ (level'[t][o] = "wait" => o \in next)
          BY <1>1
        <4> QED
          BY <1>1, <1>2, <4>1, <4>2, <4>3, <4>4 DEF Called
      <3> QED
        BY <1>1, <3>10, <3>11, <3>12 DEF Sound, Untouched
    <2>5. CASE level[t][root] # "ok"
      <3>1. rels = {} /\ root \in bad
        BY <1>4, <1>7, <2>1, <2>3, <2>5
      <3>2. next = {}
        BY <1>1, <3>1
      <3> HIDE DEF rels, bad, root
      <3>3. /\ pc'[t] = "finish" /\ root \in partial'[t] /\ visited'[t] = visited[t]
            /\ \A o \in Object : level'[t][o] = "none"
        BY <1>1, <3>1, <3>2
      <3>4. visited'[t] \subseteq Near(t)
        BY <1>2, <3>3 DEF Sound, Levels
      <3>5. Called(t)'
        BY <1>2, <3>3 DEF Sound, Called
      <3> QED
        BY <1>3, <3>3, <3>4, <3>5 DEF Sound, Untouched, Levels, Complete
    <2> QED
      BY <2>4, <2>5
  <1>9. CASE depth[t] # 0
    <2>1. /\ depth[t] = 1 /\ Depth(t) = 2 /\ new[t] = From(root) /\ visited[t] = Near(t)
          /\ \A o \in Object : level[t][o] # "none" <=> o \in Near(t) \ {root}
      BY <1>2, <1>9 DEF Sound, Levels
    <2>2. next = {}
      BY <1>1, <2>1 DEF Deeper
    <2> HIDE DEF rels, bad, root
    <2>3. /\ pc'[t] = "finish" /\ visited'[t] = visited[t]
          /\ \A o \in Object : level'[t][o] = "none"
      BY <1>1, <2>2
    <2>4. partial'[t] = {} => new'[t] = UNION {From(o) : o \in Near(t)}
      <3> SUFFICES ASSUME partial'[t] = {} PROVE new'[t] = UNION {From(o) : o \in Near(t)}
        OBVIOUS
      <3>1. \A o \in Near(t) \ {root} : level[t][o] \in {"ok", "leaf"}
        BY <1>1, <1>2, <1>4, <2>1 DEF bad
      <3>2. \A o \in Near(t) \ {root} : From(o) = {r \in rels : r[1] = o}
        BY <1>4, <1>5, <1>6, <1>7, <3>1
      <3>3. \A r \in rels : r[1] \in Near(t) \ {root}
        BY <1>7, <2>1
      <3>4. rels = UNION {From(o) : o \in Near(t) \ {root}}
        BY <3>2, <3>3
      <3>5. new'[t] = From(root) \cup rels
        BY <1>1, <2>1
      <3> QED
        BY <1>4, <3>4, <3>5
    <2>5. Called(t)'
      BY <1>2, <2>3 DEF Sound, Called
    <2>6. visited'[t] \subseteq Near(t)
      BY <2>1, <2>3
    <2> QED
      BY <1>3, <1>4, <2>3, <2>4, <2>5, <2>6 DEF Sound, Untouched, Levels, Complete
  <1> QED
    BY <1>8, <1>9

\* Every step keeps traversals sound.
LEMMA TraversalNext == TypeOK /\ Traversal /\ [Next]_vars => Traversal'
  <1> SUFFICES ASSUME TypeOK, Traversal, [Next]_vars, NEW u \in Task PROVE Sound(u)'
    BY DEF Traversal, Sound
  <1>1. Sound(u)
    BY DEF Traversal, Sound
  <1>2. CASE UNCHANGED vars
    BY <1>1, <1>2, SoundSame DEF vars, taskVars
  <1>3. ASSUME NEW t \in Task, Step(t), t # u PROVE Sound(u)'
    <2>1. /\ kind' = kind /\ pc'[u] = pc[u] /\ asked'[u] = asked[u] /\ level'[u] = level[u]
          /\ new'[u] = new[u] /\ partial'[u] = partial[u] /\ depth'[u] = depth[u]
          /\ visited'[u] = visited[u]
      <3>1. CASE Begin(t) \/ BeginRefused(t) \/ ReturnError(t) \/ Return(t)
        BY <1>3, <3>1 DEF TypeOK, Begin, BeginRefused, ReturnError, Return, GoTo
      <3>2. CASE Collect(t)
        <4>1. /\ kind' = kind /\ asked' = asked /\ level'[u] = level[u] /\ pc'[u] = pc[u]
          BY <1>3, <3>2 DEF TypeOK, Collect, GoTo
        <4> QED
          BY <1>3, <3>2, <4>1, Collected DEF TypeOK
      <3>3. ASSUME NEW o \in Object, Refuse(t, o) \/ Call(t, o) \/ Answer(t, o)
            PROVE  /\ kind' = kind /\ pc' = pc /\ new' = new /\ partial' = partial /\ depth' = depth
                   /\ visited' = visited /\ asked'[u] = asked[u] /\ level'[u] = level[u]
        BY <1>3, <3>3 DEF TypeOK, Refuse, Call, Answer, Outcome
      <3> QED
        BY <1>3, <3>1, <3>2, <3>3 DEF Step
    <2> QED
      BY <1>1, <2>1, SoundSame
  <1>4. CASE Step(u)
    <2>1. CASE Begin(u)
      BY <1>1, <2>1, BeginSound
    <2>2. CASE Collect(u)
      BY <1>1, <2>2, CollectSound
    <2>3. ASSUME NEW o \in Object, Refuse(u, o) \/ Call(u, o) \/ Answer(u, o) PROVE Sound(u)'
      <3>1. pc[u] # "idle"
        BY <1>1, <2>3 DEF Sound, Untouched, Idle, Refuse, Call, Answer
      <3> QED
        BY <1>1, <2>3, <3>1, GoroutineSound
    <2>4. CASE BeginRefused(u) \/ ReturnError(u) \/ Return(u)
      <3>1. /\ kind' = kind /\ asked' = asked /\ level' = level /\ new' = new /\ partial' = partial
            /\ depth' = depth /\ visited' = visited
            /\ pc[u] \in {"idle", "finish"} /\ pc'[u] \in {"failed", "done"}
            /\ pc'[u] = "done" => pc[u] = "finish"
        BY <2>4 DEF TypeOK, BeginRefused, ReturnError, Return, GoTo
      <3>2. Near(u)' = Near(u) /\ \A o \in Object : From(o)' = From(o) /\ (CannotExpand(o)' <=> CannotExpand(o))
        BY <3>1 DEF Near, From, Reachable, CannotExpand
      <3>3. Called(u)' /\ Complete(u)' /\ Untouched(u)'
        BY <1>1, <3>1, <3>2, NearObjects DEF Sound, Called, Complete, Untouched
      <3>4. Levels(u)'
        BY <1>1, <3>1, <3>2 DEF Sound, Levels, Untouched
      <3> QED
        BY <3>3, <3>4 DEF Sound
    <2> QED
      BY <1>4, <2>1, <2>2, <2>3, <2>4 DEF Step
  <1> QED
    BY <1>2, <1>3, <1>4 DEF Next

(* An expansion asks no object twice and none beyond its depth, and a result *)
(* that is not partial has every relation within that depth.                 *)
THEOREM ExpandAlwaysExact == Spec => []ExpandExact
  <1>1. TypeOK /\ Traversal => ExpandExact
    <2> SUFFICES ASSUME TypeOK, Traversal, NEW t \in Task
                 PROVE  /\ \A o \in Object : asked[t][o] <= IF o \in Near(t) THEN 1 ELSE 0
                        /\ pc[t] = "done" /\ partial[t] = {} =>
                              new[t] = UNION {{o} \X Reachable(o) : o \in Near(t)}
      BY DEF ExpandExact
    <2>1. ASSUME NEW o \in Object PROVE asked[t][o] <= IF o \in Near(t) THEN 1 ELSE 0
      <3>1. asked[t][o] \in Nat /\ asked[t][o] <= IF o \in visited[t] THEN 1 ELSE 0
        BY DEF TypeOK, Traversal, Called
      <3>2. visited[t] \subseteq Near(t)
        BY DEF Traversal, Untouched, Levels
      <3> QED
        BY <3>1, <3>2
    <2>2. pc[t] = "done" /\ partial[t] = {} => new[t] = UNION {{o} \X Reachable(o) : o \in Near(t)}
      BY DEF Traversal, Complete, From
    <2> QED
      BY <2>1, <2>2
  <1> QED
    BY <1>1, TypeInit, TypeNext, TraversalInit, TraversalNext, PTL DEF Spec

----------------------------------------------------------------------------
(* Relations of the session. *)

\* Every step keeps the relations of expansions that did not overlap.
LEMMA SerialNext == TypeOK /\ Serial /\ [Next]_vars => Serial'
  <1> SUFFICES ASSUME TypeOK, Serial, [Next]_vars, ~overlap' PROVE Serial'
    BY DEF Serial
  <1>1. CASE UNCHANGED vars
    BY <1>1 DEF Serial, Active, vars, taskVars
  <1>2. ASSUME NEW t \in Task, Step(t) PROVE Serial'
    <2>1. CASE Begin(t)
      <3>1. /\ ~overlap /\ \A u \in Task : ~Active(u)
            /\ relations' = relations /\ new' = new
            /\ old'[t] = relations /\ pc'[t] = "level" /\ \A u \in Task \ {t} : pc'[u] = pc[u]
        BY <2>1 DEF Begin, GoTo, Active, TypeOK
      <3> QED
        BY <3>1 DEF Serial, Active
    <2>2. CASE BeginRefused(t) \/ ReturnError(t)
      <3>1. /\ ~overlap /\ relations' = relations /\ new' = new /\ old' = old
            /\ pc'[t] = "failed" /\ \A u \in Task \ {t} : pc'[u] = pc[u]
        BY <2>2 DEF BeginRefused, ReturnError, GoTo, TypeOK
      <3> QED
        BY <3>1 DEF Serial, Active
    <2>3. CASE Collect(t)
      <3>1. /\ ~overlap /\ relations' = relations /\ old' = old /\ pc[t] = "level"
            /\ pc'[t] \in {"level", "finish"}
            /\ \A u \in Task \ {t} : pc'[u] = pc[u] /\ new'[u] = new[u]
        BY <2>3, Collected DEF Collect, GoTo, TypeOK
      <3> QED
        BY <3>1 DEF Serial, Active
    <2>4. CASE Return(t)
      <3>1. /\ ~overlap /\ pc[t] = "finish" /\ relations' = old[t] \cup new[t] /\ new' = new /\ old' = old
            /\ pc'[t] = "done" /\ \A u \in Task \ {t} : pc'[u] = pc[u]
        BY <2>4 DEF Return, WriteBack, GoTo, TypeOK
      <3>2. old[t] = relations /\ \A u \in Task : Active(u) => u = t
        BY <3>1 DEF Serial, Active
      <3> QED
        BY <3>1, <3>2 DEF Serial, Active
    <2>5. ASSUME NEW o \in Object, Refuse(t, o) \/ Call(t, o) \/ Answer(t, o) PROVE Serial'
      <3>1. ~overlap /\ relations' = relations /\ new' = new /\ old' = old /\ pc' = pc
        BY <2>5 DEF Refuse, Call, Answer
      <3> QED
        BY <3>1 DEF Serial, Active
    <2> QED
      BY <1>2, <2>1, <2>2, <2>3, <2>4, <2>5 DEF Step
  <1> QED
    BY <1>1, <1>2 DEF Next

(* Expansions that do not overlap lose none of each other's relations. *)
THEOREM SerialRelationsStay == Spec => []SerialRelationsKept
  <1>1. Init => Serial
    BY DEF Init, Serial, Active
  <1>2. Serial => SerialRelationsKept
    BY DEF Serial, SerialRelationsKept
  <1> QED
    BY <1>1, <1>2, TypeInit, TypeNext, SerialNext, PTL DEF Spec

----------------------------------------------------------------------------
(* The message pool. *)

\* Answers of the service, and what has been said to one index.
Replies == {"full", "thin", "other", "empty", "error"}
Said == {<<>>} \cup {<<a>> : a \in Replies}

\* A call of mget has its type.
CallType(c) ==
    /\ DOMAIN c = DOMAIN IdleBatch
    /\ c.state \in {"idle", "feeding", "closed", "done"}
    /\ c.ids \in Seq(MessageId)
    /\ c.next \in 1 .. Len(c.ids) + 1
    /\ c.job \in [Worker -> Nat]
    /\ c.results \in [1 .. Len(c.ids) -> {"none", "full", "thin", "other"}]
    /\ c.said \in [1 .. Len(c.ids) -> Said]
    /\ c.firstError \in BOOLEAN /\ c.cancelled \in BOOLEAN /\ c.aborted \in BOOLEAN

(* The result of an index agrees with the one answer it was given. *)
Answered(c, i) ==
    \E a \in Replies :
        /\ c.said[i] = <<a>>
        /\ c.results[i] = IF a \in {"full", "thin", "other"} THEN a ELSE "none"
        /\ a = "error" => c.firstError

(* An index is still with the feeder, in one worker's hands, or answered. *)
CallSound(c) ==
    /\ CallType(c)
    /\ \A i \in 1 .. Len(c.ids) :
          IF i >= c.next \/ (\E w \in Worker : c.job[w] = i)
          THEN c.said[i] = <<>> /\ c.results[i] = "none"
          ELSE Answered(c, i)
    /\ \A w \in Worker : c.job[w] < c.next
    /\ \A v, w \in Worker : c.job[v] = c.job[w] => v = w \/ c.job[w] = 0
    /\ c.state \in {"closed", "done"} => c.next = Len(c.ids) + 1 \/ c.aborted
    /\ c.state = "done" => \A w \in Worker : c.job[w] = 0

\* The inductive invariant behind PoolExact.
PoolSound ==
    /\ pool = [p \in Proc |-> pool[p]]
    /\ \A p \in Proc : CallSound(pool[p])

\* The fields of a call that has not begun.
LEMMA IdleBatchSound == CallSound(IdleBatch)
  <1>1. /\ IdleBatch.state = "idle" /\ IdleBatch.ids = <<>> /\ IdleBatch.next = 1
        /\ IdleBatch.job = [w \in Worker |-> 0] /\ IdleBatch.results = <<>> /\ IdleBatch.said = <<>>
        /\ IdleBatch.firstError = FALSE /\ IdleBatch.cancelled = FALSE /\ IdleBatch.aborted = FALSE
    BY DEF IdleBatch
  <1>2. <<>> \in Seq(MessageId) /\ Len(<<>>) = 0
    OBVIOUS
  <1>3. <<>> \in [1 .. 0 -> {"none", "full", "thin", "other"}] /\ <<>> \in [1 .. 0 -> Said]
    <2>1. <<>> = [i \in 1 .. 0 |-> "none"] /\ <<>> = [i \in 1 .. 0 |-> <<>>]
      OBVIOUS
    <2> QED
      BY <2>1 DEF Said
  <1>4. CallType(IdleBatch)
    <2>1. IdleBatch.next \in 1 .. Len(IdleBatch.ids) + 1 /\ IdleBatch.ids \in Seq(MessageId)
      BY <1>1, <1>2
    <2>2. IdleBatch.job \in [Worker -> Nat]
      BY <1>1
    <2>3. /\ IdleBatch.results \in [1 .. Len(IdleBatch.ids) -> {"none", "full", "thin", "other"}]
          /\ IdleBatch.said \in [1 .. Len(IdleBatch.ids) -> Said]
      BY <1>1, <1>2, <1>3
    <2> QED
      BY <1>1, <2>1, <2>2, <2>3 DEF CallType
  <1> QED
    BY <1>1, <1>2, <1>4 DEF CallSound

\* A new call has asked for nothing.
LEMMA MgetSound ==
    ASSUME NEW ids \in Seq(MessageId), NEW d,
           d = [IdleBatch EXCEPT !.state = IF ids = <<>> THEN "done" ELSE "feeding", !.ids = ids,
                            !.results = [i \in DOMAIN ids |-> "none"],
                            !.said = [i \in DOMAIN ids |-> <<>>]]
    PROVE  CallSound(d)
  <1>1. /\ d.state = (IF ids = <<>> THEN "done" ELSE "feeding") /\ d.ids = ids /\ d.next = 1
        /\ d.job = [w \in Worker |-> 0] /\ d.results = [i \in DOMAIN ids |-> "none"]
        /\ d.said = [i \in DOMAIN ids |-> <<>>]
        /\ d.firstError = FALSE /\ d.cancelled = FALSE /\ d.aborted = FALSE
        /\ DOMAIN d = DOMAIN IdleBatch
    BY DEF IdleBatch
  <1>2. DOMAIN ids = 1 .. Len(ids) /\ Len(ids) \in Nat /\ (ids = <<>> => Len(ids) = 0)
    OBVIOUS
  <1>3. /\ d.results \in [1 .. Len(ids) -> {"none", "full", "thin", "other"}]
        /\ d.said \in [1 .. Len(ids) -> Said]
    BY <1>1, <1>2 DEF Said
  <1>4. CallType(d)
    <2>1. d.job \in [Worker -> Nat]
      BY <1>1
    <2>2. d.next \in 1 .. Len(d.ids) + 1 /\ d.ids \in Seq(MessageId)
      BY <1>1, <1>2
    <2>3. d.state \in {"done", "feeding"}
      BY <1>1
    <2>4. /\ d.results \in [1 .. Len(d.ids) -> {"none", "full", "thin", "other"}]
          /\ d.said \in [1 .. Len(d.ids) -> Said]
      BY <1>1, <1>3
    <2> QED
      BY <1>1, <2>1, <2>2, <2>3, <2>4 DEF CallType
  <1> QED
    BY <1>1, <1>2, <1>4 DEF CallSound

\* Handing an index to a worker.
LEMMA SendSound ==
    ASSUME NEW c, CallSound(c), NEW w \in Worker, c.state = "feeding",
           c.next <= Len(c.ids), c.job[w] = 0,
           NEW d, d = [c EXCEPT !.job[w] = c.next, !.next = c.next + 1]
    PROVE  CallSound(d)
  <1>1. /\ d.state = c.state /\ d.ids = c.ids /\ d.next = c.next + 1
        /\ d.job = [c.job EXCEPT ![w] = c.next] /\ d.results = c.results /\ d.said = c.said
        /\ d.firstError = c.firstError /\ d.cancelled = c.cancelled /\ d.aborted = c.aborted
        /\ DOMAIN d = DOMAIN c
    BY DEF CallSound, CallType, IdleBatch
  <1>2. d.job[w] = c.next /\ \A v \in Worker \ {w} : d.job[v] = c.job[v]
    BY <1>1 DEF CallSound, CallType
  <1>3. CallType(d)
    BY <1>1 DEF CallSound, CallType
  <1>4. c.next \in Nat /\ c.next # 0 /\ Len(c.ids) \in Nat
    BY DEF CallSound, CallType
  <1>5. \A i \in 1 .. Len(c.ids) :
           (i >= d.next \/ (\E v \in Worker : d.job[v] = i)) <=>
           (i >= c.next \/ (\E v \in Worker : c.job[v] = i))
    BY <1>1, <1>2, <1>4
  <1>6. \A i \in 1 .. Len(c.ids) : Answered(d, i) <=> Answered(c, i)
    BY <1>1 DEF Answered
  <1>7. \A v \in Worker : c.job[v] \in Nat /\ c.job[v] < c.next
    BY DEF CallSound, CallType
  <1>8. /\ \A v \in Worker : d.job[v] < d.next
        /\ \A u, v \in Worker : d.job[u] = d.job[v] => u = v \/ d.job[v] = 0
    BY <1>1, <1>2, <1>4, <1>7 DEF CallSound
  <1> QED
    BY <1>1, <1>3, <1>5, <1>6, <1>8 DEF CallSound

\* An answer is stored for its own index.
LEMMA ReplySound ==
    ASSUME NEW c, CallSound(c), NEW w \in Worker, NEW a \in Replies, c.job[w] # 0,
           NEW d, d = [c EXCEPT !.job[w] = 0, !.said[c.job[w]] = Append(@, a),
                                !.firstError = @ \/ a = "error",
                                !.results[c.job[w]] = IF a \in {"full", "thin", "other"} THEN a ELSE @]
    PROVE  CallSound(d)
  <1> DEFINE i == c.job[w]
  <1>1. /\ d.state = c.state /\ d.ids = c.ids /\ d.next = c.next
        /\ d.job = [c.job EXCEPT ![w] = 0]
        /\ d.results = [c.results EXCEPT ![i] = IF a \in {"full", "thin", "other"} THEN a ELSE c.results[i]]
        /\ d.said = [c.said EXCEPT ![i] = Append(c.said[i], a)]
        /\ d.firstError = (c.firstError \/ a = "error")
        /\ d.cancelled = c.cancelled /\ d.aborted = c.aborted
        /\ DOMAIN d = DOMAIN c
    BY DEF CallSound, CallType, IdleBatch
  <1>2. d.job[w] = 0 /\ \A v \in Worker \ {w} : d.job[v] = c.job[v]
    BY <1>1 DEF CallSound, CallType
  <1>3. i \in 1 .. Len(c.ids) /\ i < c.next
    BY DEF CallSound, CallType
  <1>4. c.said[i] = <<>> /\ c.results[i] = "none"
    BY <1>3 DEF CallSound
  <1>5. Append(c.said[i], a) = <<a>>
    BY <1>4
  <1> HIDE DEF i
  <1>6. /\ d.said[i] = <<a>> /\ d.results[i] = IF a \in {"full", "thin", "other"} THEN a ELSE "none"
        /\ \A j \in 1 .. Len(c.ids) : j # i => d.said[j] = c.said[j] /\ d.results[j] = c.results[j]
    <2> DEFINE r == IF a \in {"full", "thin", "other"} THEN a ELSE "none"
    <2>1. /\ c.said \in [1 .. Len(c.ids) -> Said]
          /\ c.results \in [1 .. Len(c.ids) -> {"none", "full", "thin", "other"}]
      BY DEF CallSound, CallType
    <2>2. d.said = [c.said EXCEPT ![i] = <<a>>]
      BY <1>1, <1>5
    <2>3. d.results = [c.results EXCEPT ![i] = r]
      BY <1>1, <1>4
    <2> HIDE DEF r
    <2>4. d.said[i] = <<a>> /\ d.results[i] = r
      BY <1>3, <2>1, <2>2, <2>3
    <2>5. \A j \in 1 .. Len(c.ids) : j # i => d.said[j] = c.said[j] /\ d.results[j] = c.results[j]
      BY <2>1, <2>2, <2>3
    <2> QED
      BY <2>4, <2>5 DEF r
  <1>7. CallType(d)
    <2>1. d.said \in [1 .. Len(c.ids) -> Said]
      <3>1. c.said \in [1 .. Len(c.ids) -> Said]
        BY DEF CallSound, CallType
      <3>2. <<a>> \in Said
        BY DEF Said
      <3>3. d.said = [c.said EXCEPT ![i] = <<a>>]
        BY <1>1, <1>5
      <3> QED
        BY ONLY <3>1, <3>2, <3>3
    <2>2. d.results \in [1 .. Len(c.ids) -> {"none", "full", "thin", "other"}]
      <3> DEFINE r == IF a \in {"full", "thin", "other"} THEN a ELSE c.results[i]
      <3>1. c.results \in [1 .. Len(c.ids) -> {"none", "full", "thin", "other"}]
        BY DEF CallSound, CallType
      <3>2. r \in {"none", "full", "thin", "other"}
        BY <1>4
      <3>3. d.results = [c.results EXCEPT ![i] = r]
        BY <1>1
      <3> QED
        BY ONLY <3>1, <3>2, <3>3
    <2>3. d.job \in [Worker -> Nat]
      BY <1>1 DEF CallSound, CallType
    <2> QED
      BY <1>1, <2>1, <2>2, <2>3 DEF CallSound, CallType
  <1>8. \A j \in 1 .. Len(c.ids) : j # i => (Answered(c, j) => Answered(d, j))
    <2> SUFFICES ASSUME NEW j \in 1 .. Len(c.ids), j # i, Answered(c, j) PROVE Answered(d, j)
      OBVIOUS
    <2>1. c.firstError => d.firstError
      BY <1>1
    <2>2. d.said[j] = c.said[j] /\ d.results[j] = c.results[j]
      BY <1>6
    <2> QED
      BY <2>1, <2>2 DEF Answered
  <1>9. Answered(d, i)
    BY <1>1, <1>6 DEF Answered
  <1>10. \A v \in Worker \ {w} : c.job[v] # i
    <2>1. c.job[w] = i /\ i # 0
      BY <1>3 DEF i
    <2> QED
      BY <2>1 DEF CallSound
  <1>11. \A j \in 1 .. Len(c.ids) : j # i =>
            ((\E v \in Worker : d.job[v] = j) <=> (\E v \in Worker : c.job[v] = j))
    BY <1>2 DEF i
  <1>12. \A v \in Worker : d.job[v] # i
    BY <1>2, <1>3, <1>10
  <1>13. \A j \in 1 .. Len(c.ids) :
            IF j >= d.next \/ (\E v \in Worker : d.job[v] = j)
            THEN d.said[j] = <<>> /\ d.results[j] = "none"
            ELSE Answered(d, j)
    <2>1. ASSUME NEW j \in 1 .. Len(c.ids), j # i
          PROVE  IF j >= d.next \/ (\E v \in Worker : d.job[v] = j)
                 THEN d.said[j] = <<>> /\ d.results[j] = "none"
                 ELSE Answered(d, j)
      <3>1. IF j >= c.next \/ (\E v \in Worker : c.job[v] = j)
            THEN c.said[j] = <<>> /\ c.results[j] = "none"
            ELSE Answered(c, j)
        BY DEF CallSound
      <3>2. /\ d.next = c.next /\ d.said[j] = c.said[j] /\ d.results[j] = c.results[j]
            /\ (\E v \in Worker : d.job[v] = j) <=> (\E v \in Worker : c.job[v] = j)
        BY <1>1, <1>6, <1>11, <2>1
      <3>3. Answered(c, j) => Answered(d, j)
        BY <1>8, <2>1
      <3> QED
        BY ONLY <3>1, <3>2, <3>3
    <2>2. ~(i >= d.next) /\ ~(\E v \in Worker : d.job[v] = i)
      BY <1>1, <1>3, <1>12 DEF CallSound, CallType
    <2> QED
      BY <1>9, <2>1, <2>2
  <1>14. /\ \A v \in Worker : d.job[v] < d.next
         /\ \A u, v \in Worker : d.job[u] = d.job[v] => u = v \/ d.job[v] = 0
    BY <1>1, <1>2, <1>3 DEF CallSound, CallType
  <1>15. c.state # "done"
    BY DEF CallSound
  <1> QED
    BY <1>1, <1>7, <1>13, <1>14, <1>15 DEF CallSound

\* The feeder stops, a caller gives up, or the workers have left.
LEMMA StateSound ==
    ASSUME NEW c, CallSound(c), NEW state, NEW aborted \in BOOLEAN, NEW cancelled \in BOOLEAN,
           c.aborted => aborted,
           \/ state = c.state
           \/ state = "closed" /\ (c.next > Len(c.ids) \/ aborted)
           \/ state = "done" /\ c.state = "closed" /\ \A w \in Worker : c.job[w] = 0,
           NEW d, d = [c EXCEPT !.state = state, !.aborted = aborted, !.cancelled = cancelled]
    PROVE  CallSound(d)
  <1>1. /\ d.ids = c.ids /\ d.next = c.next /\ d.job = c.job /\ d.results = c.results
        /\ d.said = c.said /\ d.firstError = c.firstError /\ DOMAIN d = DOMAIN c
        /\ d.cancelled = cancelled /\ d.aborted = aborted /\ d.state = state
    BY DEF CallSound, CallType, IdleBatch
  <1>2. CallType(d)
    BY <1>1 DEF CallSound, CallType
  <1>3. \A i : Answered(d, i) <=> Answered(c, i)
    BY <1>1 DEF Answered
  <1>4. c.next \in 1 .. Len(c.ids) + 1 /\ Len(c.ids) \in Nat
    BY DEF CallSound, CallType
  <1>5. d.state \in {"closed", "done"} => d.next = Len(d.ids) + 1 \/ d.aborted
    BY <1>1, <1>4 DEF CallSound
  <1>6. d.state = "done" => \A w \in Worker : d.job[w] = 0
    BY <1>1 DEF CallSound
  <1> QED
    BY <1>1, <1>2, <1>3, <1>5, <1>6 DEF CallSound

\* One call changes and stays sound.
LEMMA PoolUpdate ==
    ASSUME PoolSound, NEW p \in Proc, NEW d, CallSound(d), pool' = [pool EXCEPT ![p] = d]
    PROVE  PoolSound'
  <1>1. DOMAIN pool = Proc
    BY DEF PoolSound
  <1>2. pool' = [q \in Proc |-> IF q = p THEN d ELSE pool[q]]
    BY <1>1
  <1>3. ASSUME NEW q \in Proc PROVE CallSound(pool'[q])
    BY <1>2 DEF PoolSound
  <1> QED
    BY <1>2, <1>3 DEF PoolSound

\* A new call of mget.
LEMMA MgetStep ==
    ASSUME PoolSound, NEW p \in Proc, NEW ids \in Seq(MessageId), Mget(p, ids)
    PROVE  PoolSound'
  <1> DEFINE d == [IdleBatch EXCEPT !.state = IF ids = <<>> THEN "done" ELSE "feeding", !.ids = ids,
                               !.results = [i \in DOMAIN ids |-> "none"],
                               !.said = [i \in DOMAIN ids |-> <<>>]]
  <1>1. CallSound(d)
    BY MgetSound
  <1>2. pool' = [pool EXCEPT ![p] = d]
    BY DEF Mget
  <1> HIDE DEF d
  <1> QED
    BY <1>1, <1>2, PoolUpdate

\* Any step of a call under way.
LEMMA PoolSteps ==
    ASSUME PoolSound, NEW p \in Proc, PoolStep(p) \/ Cancel(p)
    PROVE  PoolSound'
  <1> DEFINE c == pool[p]
             Set(state, aborted, cancelled) ==
                [c EXCEPT !.state = state, !.aborted = aborted, !.cancelled = cancelled]
  <1>1. CallSound(c) /\ DOMAIN pool = Proc
    BY DEF PoolSound
  <1>2. /\ DOMAIN c = DOMAIN IdleBatch /\ c.aborted \in BOOLEAN /\ c.cancelled \in BOOLEAN
        /\ c.next \in Nat /\ Len(c.ids) \in Nat
    BY <1>1 DEF CallSound, CallType
  <1>3. ASSUME NEW w \in Worker, Send(p, w) PROVE PoolSound'
    <2> DEFINE d == [c EXCEPT !.job[w] = c.next, !.next = c.next + 1]
    <2>1. c.state = "feeding" /\ c.next <= Len(c.ids) /\ c.job[w] = 0
      BY <1>3 DEF Send
    <2>2. CallSound(d)
      BY <1>1, <2>1, SendSound
    <2>3. pool' = [pool EXCEPT ![p] = d]
      BY <1>1, <1>2, <1>3 DEF Send, IdleBatch
    <2> HIDE DEF d
    <2> QED
      BY <2>2, <2>3, PoolUpdate
  <1>4. ASSUME NEW w \in Worker, Reply(p, w) PROVE PoolSound'
    <2>1. PICK a \in Replies :
             pool' = [pool EXCEPT
                ![p].job[w] = 0, ![p].said[c.job[w]] = Append(@, a),
                ![p].firstError = @ \/ a = "error",
                ![p].results[c.job[w]] = IF a \in {"full", "thin", "other"} THEN a ELSE @]
      BY <1>4 DEF Reply, Replies
    <2> DEFINE d == [c EXCEPT !.job[w] = 0, !.said[c.job[w]] = Append(@, a),
                              !.firstError = @ \/ a = "error",
                              !.results[c.job[w]] = IF a \in {"full", "thin", "other"} THEN a ELSE @]
    <2>2. c.job[w] # 0
      BY <1>4 DEF Reply
    <2>3. CallSound(d)
      BY <1>1, <2>2, ReplySound
    <2>4. pool' = [pool EXCEPT ![p] = d]
      BY <1>1, <1>2, <2>1 DEF IdleBatch
    <2> HIDE DEF d
    <2> QED
      BY <2>3, <2>4, PoolUpdate
  <1>5. CASE CloseJobs(p)
    <2>1. CallSound(Set("closed", c.aborted, c.cancelled))
      BY <1>1, <1>2, <1>5, StateSound DEF CloseJobs
    <2>2. pool' = [pool EXCEPT ![p] = Set("closed", c.aborted, c.cancelled)]
      BY <1>1, <1>2, <1>5 DEF CloseJobs, IdleBatch
    <2> HIDE DEF Set
    <2> QED
      BY <2>1, <2>2, PoolUpdate
  <1>6. CASE Abort(p)
    <2>1. CallSound(Set("closed", TRUE, c.cancelled))
      BY <1>1, <1>2, <1>6, StateSound DEF Abort
    <2>2. pool' = [pool EXCEPT ![p] = Set("closed", TRUE, c.cancelled)]
      BY <1>1, <1>2, <1>6 DEF Abort, IdleBatch
    <2> HIDE DEF Set
    <2> QED
      BY <2>1, <2>2, PoolUpdate
  <1>7. CASE Wait(p)
    <2>1. CallSound(Set("done", c.aborted, c.cancelled))
      BY <1>1, <1>2, <1>7, StateSound DEF Wait
    <2>2. pool' = [pool EXCEPT ![p] = Set("done", c.aborted, c.cancelled)]
      BY <1>1, <1>2, <1>7 DEF Wait, IdleBatch
    <2> HIDE DEF Set
    <2> QED
      BY <2>1, <2>2, PoolUpdate
  <1>8. CASE Cancel(p)
    <2>1. CallSound(Set(c.state, c.aborted, TRUE))
      BY <1>1, <1>2, <1>8, StateSound DEF Cancel
    <2>2. pool' = [pool EXCEPT ![p] = Set(c.state, c.aborted, TRUE)]
      BY <1>1, <1>2, <1>8 DEF Cancel, IdleBatch
    <2> HIDE DEF Set
    <2> QED
      BY <2>1, <2>2, PoolUpdate
  <1> QED
    BY <1>3, <1>4, <1>5, <1>6, <1>7, <1>8 DEF PoolStep

\* The invariant gives the property.
LEMMA PoolSoundExact == PoolSound => PoolExact
  <1> SUFFICES ASSUME PoolSound, NEW p \in Proc, pool[p].state = "done", ~MgetFails(p)
               PROVE  \A i \in DOMAIN pool[p].ids :
                         \E answer \in {"full", "thin", "other", "empty"} :
                            /\ pool[p].said[i] = <<answer>>
                            /\ pool[p].results[i] = IF answer = "empty" THEN "none" ELSE answer
    BY DEF PoolSound, PoolExact, CallSound
  <1>1. CallSound(pool[p]) /\ ~pool[p].firstError /\ ~pool[p].aborted
    BY DEF PoolSound, MgetFails
  <1>2. DOMAIN pool[p].ids = 1 .. Len(pool[p].ids) /\ Len(pool[p].ids) \in Nat
    BY <1>1 DEF CallSound, CallType
  <1>3. ASSUME NEW i \in 1 .. Len(pool[p].ids) PROVE Answered(pool[p], i)
    <2>1. pool[p].next = Len(pool[p].ids) + 1 /\ \A w \in Worker : pool[p].job[w] = 0
      BY <1>1 DEF CallSound
    <2>2. ~(i >= pool[p].next) /\ ~(\E w \in Worker : pool[p].job[w] = i)
      BY <1>2, <2>1
    <2> QED
      BY <1>1, <2>2 DEF CallSound
  <1> QED
    BY <1>1, <1>2, <1>3 DEF Answered, Replies

----------------------------------------------------------------------------
(* The recorders and the directory. *)

\* The key of a request, in every session.
Key(r) == <<r.provider, r.op, r.ids, r.scope>>

\* What a process holds.
Process ==
    [pc : {"down", "open", "ready", "base", "save", "answered"}, mode : {"record", "replay"},
     known : SUBSET Provider, register : SUBSET Provider, request : Request \cup {Nil},
     key : {Key(r) : r \in Request} \cup {Nil}, outcome : CallOutcome \cup {Nil}, error : BOOLEAN]

\* A process in a call holds a request with its key, under a provider it knows;
\* one that told its caller all went well saved the request.
ProcSound(c) ==
    /\ c \in Process
    /\ c.pc \in {"base", "save"} =>
          /\ c.mode = "record" /\ c.request \in Request /\ c.key = Key(c.request)
          /\ c.request.provider \in c.known
    /\ c.pc = "save" => c.outcome \in CallOutcome
    /\ c.pc = "answered" /\ c.mode = "record" /\ ~c.error => c.request \in DOMAIN saved
    /\ ~overlapped => (c.pc # "down" => c.known \subseteq manifest) /\ (c.pc = "open" => c.known = manifest)

\* Every recorder and replayer is sound.
ProcsSound == proc = [p \in Proc |-> proc[p]] /\ \A p \in Proc : ProcSound(proc[p])

\* There is an entry for every recorded request, and no other.
EntriesSound ==
    /\ DOMAIN saved \subseteq Request /\ manifest \subseteq Provider
    /\ \A r \in DOMAIN saved :
          /\ saved[r] \in CallOutcome /\ Key(r) \in DOMAIN entries
          /\ entries[Key(r)] = [request |-> r, outcome |-> saved[r]]
    /\ \A k \in DOMAIN entries : \E r \in DOMAIN saved : k = Key(r)
    /\ ~overlapped => \A r \in DOMAIN saved : r.provider \in manifest

\* The inductive invariant behind ReplayFaithful and RecordingsReplayable.
ReplayInv == PoolSound /\ ProcsSound /\ EntriesSound

\* Different requests have different keys.
LEMMA KeyInjective ==
    ASSUME NEW r \in Request, NEW t \in Request, Key(r) = Key(t)
    PROVE  r = t
  BY ReplayAssumption DEF Key

\* A process changes and the directory does not.
LEMMA ProcUpdate ==
    ASSUME ProcsSound, NEW p \in Proc, NEW d, ProcSound(d), proc' = [proc EXCEPT ![p] = d],
           UNCHANGED <<saved, overlapped, manifest>>
    PROVE  ProcsSound'
  <1>1. DOMAIN proc = Proc
    BY DEF ProcsSound
  <1>2. proc' = [q \in Proc |-> IF q = p THEN d ELSE proc[q]]
    BY <1>1
  <1>3. ASSUME NEW q \in Proc PROVE ProcSound(proc'[q])
    BY <1>2 DEF ProcsSound
  <1>4. ASSUME NEW q \in Proc PROVE ProcSound(proc[q])'
    BY <1>3 DEF ProcSound
  <1> QED
    BY <1>2, <1>4 DEF ProcsSound

\* A process that is down.
LEMMA DownSound == ProcSound(Down)
  <1>1. Down \in Process
    BY DEF Down, Process
  <1> QED
    BY <1>1 DEF ProcSound, Down

\* Nothing is recorded in the initial state.
LEMMA ReplayInitSound == ReplayInit => ReplayInv
  <1> SUFFICES ASSUME ReplayInit PROVE ReplayInv
    OBVIOUS
  <1>1. PoolSound
    BY IdleBatchSound DEF ReplayInit, PoolInit, PoolSound
  <1>2. ProcsSound
    BY DownSound DEF ReplayInit, ProcsSound
  <1>3. DOMAIN saved = {} /\ DOMAIN entries = {} /\ manifest = {}
    BY DEF ReplayInit
  <1>4. EntriesSound
    BY <1>3 DEF EntriesSound
  <1> QED
    BY <1>1, <1>2, <1>4 DEF ReplayInv

\* What is known of a process in a sound state.
LEMMA ProcFacts ==
    ASSUME ProcsSound, NEW p \in Proc
    PROVE  /\ DOMAIN proc = Proc /\ ProcSound(proc[p])
           /\ proc[p].pc \in {"down", "open", "ready", "base", "save", "answered"}
           /\ proc[p].mode \in {"record", "replay"} /\ proc[p].known \subseteq Provider
           /\ proc[p].register \subseteq Provider /\ proc[p].request \in Request \cup {Nil}
           /\ proc[p].key \in {Key(r) : r \in Request} \cup {Nil}
           /\ proc[p].outcome \in CallOutcome \cup {Nil} /\ proc[p].error \in BOOLEAN
  <1>1. DOMAIN proc = Proc /\ ProcSound(proc[p])
    BY DEF ProcsSound
  <1>2. proc[p] \in Process
    BY <1>1 DEF ProcSound
  <1> QED
    BY <1>1, <1>2 DEF Process

\* Opening a recorder or a replay.
LEMMA OpenSound ==
    ASSUME ReplayInv, NEW p \in Proc, OpenRecorder(p) \/ OpenReplay(p)
    PROVE  ProcsSound'
  <1> USE ProcFacts DEF ReplayInv
  <1>0. manifest \subseteq Provider
    BY DEF EntriesSound
  <1>1. Down \in Process
    BY DownSound DEF ProcSound
  <1>2. UNCHANGED <<saved, overlapped, manifest>>
    BY DEF OpenRecorder, OpenReplay, diskVars, historyVars
  <1>3. CASE OpenRecorder(p)
    <2>1. PICK ps \in SUBSET Provider \ {{}} :
             proc' = [proc EXCEPT ![p] =
                [Down EXCEPT !.pc = "open", !.known = manifest, !.register = ps]]
      BY <1>3 DEF OpenRecorder, KnownAtOpen
    <2> DEFINE d == [Down EXCEPT !.pc = "open", !.known = manifest, !.register = ps]
    <2>2. d \in Process /\ d.pc = "open" /\ d.known = manifest
      BY <1>0, <1>1 DEF Process, Down
    <2> HIDE DEF d
    <2>3. ProcSound(d)
      BY <2>2 DEF ProcSound
    <2>4. proc' = [proc EXCEPT ![p] = d]
      BY <2>1 DEF d
    <2> QED
      BY <1>2, <2>3, <2>4, ProcUpdate
  <1>4. CASE OpenReplay(p)
    <2> DEFINE d == [Down EXCEPT !.pc = "ready", !.mode = "replay", !.known = manifest]
    <2>1. d \in Process /\ d.pc = "ready" /\ d.known = manifest
      BY <1>0, <1>1 DEF Process, Down
    <2>2. proc' = [proc EXCEPT ![p] = d]
      BY <1>4 DEF OpenReplay, KnownAtOpen
    <2> HIDE DEF d
    <2>3. ProcSound(d)
      BY <2>1 DEF ProcSound
    <2> QED
      BY <1>2, <2>2, <2>3, ProcUpdate
  <1> QED
    BY <1>3, <1>4

\* A call of a recorder or a replay begins, is refused or ends.
LEMMA CallStepSound ==
    ASSUME ReplayInv, NEW p \in Proc, proc[p].pc # "down",
           NEW d \in Process, d.pc # "open", d.mode = proc[p].mode, d.known = proc[p].known,
           d.pc \in {"base", "save"} =>
              /\ d.mode = "record" /\ d.request \in Request /\ d.key = Key(d.request)
              /\ d.request.provider \in d.known,
           d.pc = "save" => d.outcome \in CallOutcome,
           d.pc = "answered" /\ d.mode = "record" /\ ~d.error => d.request \in DOMAIN saved
    PROVE  ProcSound(d)
  <1>1. ProcSound(proc[p]) /\ proc[p] \in Process
    BY DEF ReplayInv, ProcsSound, ProcSound
  <1> QED
    BY <1>1 DEF ProcSound

\* The outcome of a batch is an outcome.
LEMMA BatchOutcome ==
    ASSUME PoolSound, NEW p \in Proc
    PROVE  FetchOutcome(p) \in CallOutcome /\ SearchOutcome(p) \in CallOutcome
  <1>1. DOMAIN pool[p].ids = 1 .. Len(pool[p].ids) /\ Len(pool[p].ids) \in Nat
    BY DEF PoolSound, CallSound, CallType
  <1>2. FoundMessages(p) \in SUBSET Nat /\ DOMAIN pool[p].ids \in SUBSET Nat
    BY <1>1 DEF FoundMessages
  <1> QED
    BY <1>2 DEF FetchOutcome, SearchOutcome, Failure, CallOutcome

\* The base provider's answer is kept.
LEMMA BaseSound ==
    ASSUME ReplayInv, NEW p \in Proc, NEW outcome \in CallOutcome, proc[p].pc = "base",
           BaseIs(p, outcome)
    PROVE  ReplayInv'
  <1> DEFINE c == proc[p]
             d == [c EXCEPT !.pc = "save", !.request = c.request, !.key = c.key,
                            !.outcome = outcome, !.error = c.error]
  <1>1. DOMAIN proc = Proc /\ c \in Process /\ ProcSound(c)
    BY ProcFacts DEF ReplayInv, ProcSound
  <1>2. /\ d \in Process /\ d.mode = c.mode /\ d.known = c.known
        /\ d.pc = "save" /\ d.request = c.request /\ d.key = c.key /\ d.outcome = outcome
    BY <1>1 DEF Process
  <1>3. ProcSound(d)
    <2> HIDE DEF d
    <2> QED
      BY <1>1, <1>2, CallStepSound DEF ProcSound
  <1>4. proc' = [proc EXCEPT ![p] = d]
    BY <1>1 DEF BaseIs, Process
  <1>5. PoolSound'
    BY IdleBatchSound, PoolUpdate DEF BaseIs, ReplayInv
  <1>6. UNCHANGED <<saved, overlapped, manifest, entries>>
    BY DEF BaseIs, diskVars, historyVars
  <1> HIDE DEF d
  <1>7. ProcsSound'
    BY <1>3, <1>4, <1>6, ProcUpdate DEF ReplayInv
  <1> QED
    BY <1>5, <1>6, <1>7 DEF ReplayInv, EntriesSound

\* The steps of a call that leave the directory alone.
LEMMA QuietCallSound ==
    ASSUME ReplayInv, NEW p \in Proc,
           Unsupported(p) \/ CallBase(p) \/ SaveFails(p) \/ Replayed(p) \/ Done(p)
    PROVE  ProcsSound'
  <1> DEFINE c == proc[p]
             Set(stage, request, key, outcome, error) ==
                [c EXCEPT !.pc = stage, !.request = request, !.key = key,
                          !.outcome = outcome, !.error = error]
  <1>1. DOMAIN proc = Proc /\ c \in Process /\ ProcSound(c)
    BY ProcFacts DEF ReplayInv, ProcSound
  <1>2. UNCHANGED <<saved, overlapped, manifest>>
    BY DEF Unsupported, CallBase, SaveFails, Replayed, Done, diskVars, historyVars
  <1>3. CASE Unsupported(p)
    <2>1. PICK r \in Calls(p) :
             proc' = [proc EXCEPT ![p].pc = "answered", ![p].request = r, ![p].error = TRUE]
      BY <1>3 DEF Unsupported
    <2>2. r \in Request /\ c.pc = "ready"
      BY <1>3 DEF Calls, Unsupported
    <2> DEFINE d == Set("answered", r, c.key, c.outcome, TRUE)
    <2>3. /\ d \in Process /\ d.mode = c.mode /\ d.known = c.known
          /\ d.pc = "answered" /\ d.request = r /\ d.key = c.key /\ d.error = TRUE
      BY <1>1, <2>2 DEF Process
    <2>4. ProcSound(d)
      <3> HIDE DEF d
      <3> QED
        BY <2>2, <2>3, CallStepSound
    <2>5. proc' = [proc EXCEPT ![p] = d]
      BY <1>1, <2>1 DEF Process
    <2> HIDE DEF d
    <2> QED
      BY <1>2, <2>4, <2>5, ProcUpdate DEF ReplayInv
  <1>4. CASE CallBase(p)
    <2>1. PICK r \in Calls(p), s \in Session :
             proc' = [proc EXCEPT ![p].pc = "base", ![p].request = r, ![p].key = requestKey(r, s)]
      BY <1>4 DEF CallBase
    <2>2. /\ r \in Request /\ r.provider \in c.known /\ c.pc = "ready" /\ c.mode = "record"
          /\ requestKey(r, s) = Key(r)
      BY <1>4 DEF Calls, CallBase, requestKey, Key
    <2> DEFINE d == Set("base", r, Key(r), c.outcome, c.error)
    <2>3. /\ d \in Process /\ d.mode = c.mode /\ d.known = c.known
          /\ d.pc = "base" /\ d.request = r /\ d.key = Key(r) /\ d.error = c.error
      BY <1>1, <2>2 DEF Process
    <2>4. ProcSound(d)
      <3> HIDE DEF d
      <3> QED
        BY <2>2, <2>3, CallStepSound
    <2>5. proc' = [proc EXCEPT ![p] = d]
      BY <1>1, <2>1, <2>2 DEF Process
    <2> HIDE DEF d
    <2> QED
      BY <1>2, <2>4, <2>5, ProcUpdate DEF ReplayInv
  <1>5. CASE SaveFails(p)
    <2> DEFINE d == Set("answered", c.request, Nil, Nil, TRUE)
    <2>1. /\ d \in Process /\ d.mode = c.mode /\ d.known = c.known /\ c.pc = "save"
          /\ d.pc = "answered" /\ d.request = c.request /\ d.key = Nil /\ d.error = TRUE
      BY <1>1, <1>5 DEF Process, SaveFails
    <2>2. ProcSound(d)
      <3> HIDE DEF d
      <3> QED
        BY <2>1, CallStepSound
    <2>3. proc' = [proc EXCEPT ![p] = d]
      BY <1>1, <1>5 DEF Process, SaveFails
    <2> HIDE DEF d
    <2> QED
      BY <1>2, <2>2, <2>3, ProcUpdate DEF ReplayInv
  <1>6. CASE Replayed(p)
    <2>1. PICK r \in Calls(p), e \in BOOLEAN :
             proc' = [proc EXCEPT ![p].pc = "answered", ![p].request = r, ![p].error = e]
      BY <1>6 DEF Replayed
    <2>2. r \in Request /\ c.pc = "ready" /\ c.mode = "replay"
      BY <1>6 DEF Calls, Replayed
    <2> DEFINE d == Set("answered", r, c.key, c.outcome, e)
    <2>3. /\ d \in Process /\ d.mode = c.mode /\ d.known = c.known
          /\ d.pc = "answered" /\ d.request = r /\ d.key = c.key /\ d.error = e
      BY <1>1, <2>2 DEF Process
    <2>4. ProcSound(d)
      <3> HIDE DEF d
      <3> QED
        BY <2>2, <2>3, CallStepSound
    <2>5. proc' = [proc EXCEPT ![p] = d]
      BY <1>1, <2>1 DEF Process
    <2> HIDE DEF d
    <2> QED
      BY <1>2, <2>4, <2>5, ProcUpdate DEF ReplayInv
  <1>7. CASE Done(p)
    <2> DEFINE d == Set("ready", Nil, Nil, Nil, FALSE)
    <2>1. /\ d \in Process /\ d.mode = c.mode /\ d.known = c.known /\ c.pc = "answered"
          /\ d.pc = "ready" /\ d.request = Nil /\ d.key = Nil /\ d.error = FALSE
      BY <1>1, <1>7 DEF Process, Done
    <2>2. ProcSound(d)
      <3> HIDE DEF d
      <3> QED
        BY <2>1, CallStepSound
    <2>3. proc' = [proc EXCEPT ![p] = d]
      BY <1>1, <1>7 DEF Process, Done
    <2> HIDE DEF d
    <2> QED
      BY <1>2, <2>2, <2>3, ProcUpdate DEF ReplayInv
  <1> QED
    BY <1>3, <1>4, <1>5, <1>6, <1>7

\* Registering a provider writes the manifest from the recorder's memory: no
\* provider is lost unless another recorder was registering too.
LEMMA RegisterSound ==
    ASSUME ReplayInv, NEW p \in Proc, Register(p)
    PROVE  ReplayInv'
  <1>1. PICK t \in proc[p].register :
           /\ proc' = [proc EXCEPT ![p].known = @ \cup {t}, ![p].register = @ \ {t},
                                   ![p].pc = IF proc[p].register = {t} THEN "ready" ELSE "open"]
           /\ manifest' = proc[p].known \cup {t}
    BY DEF Register
  <1> DEFINE c == proc[p]
             stage == IF c.register = {t} THEN "ready" ELSE "open"
             d == [c EXCEPT !.known = @ \cup {t}, !.register = @ \ {t}, !.pc = stage]
  <1>2. /\ DOMAIN proc = Proc /\ c \in Process /\ ProcSound(c) /\ c.pc = "open"
        /\ t \in Provider
    BY ProcFacts DEF ReplayInv, ProcSound, Register
  <1>3. /\ UNCHANGED <<pool, entries, saved>>
        /\ overlapped' = (overlapped \/ \E q \in Proc \ {p} : proc[q].pc = "open")
    BY DEF Register
  <1>4. /\ d \in Process /\ d.pc \in {"ready", "open"} /\ d.known = c.known \cup {t}
    BY <1>2 DEF Process
  <1>5. proc' = [q \in Proc |-> IF q = p THEN d ELSE proc[q]]
    BY <1>1, <1>2 DEF Process
  <1> HIDE DEF d, stage
  <1>6. ~overlapped' => c.known = manifest /\ manifest \subseteq manifest'
    BY <1>1, <1>2, <1>3 DEF ProcSound
  <1>7. ProcSound(proc[p])'
    <2>1. proc'[p] = d
      BY <1>5
    <2>2. d.known = manifest'
      BY <1>1, <1>4
    <2> QED
      BY <1>4, <2>1, <2>2 DEF ProcSound
  <1>8. ASSUME NEW q \in Proc, q # p PROVE ProcSound(proc[q])'
    <2>1. proc'[q] = proc[q] /\ ProcSound(proc[q])
      BY <1>5, <1>8, ProcFacts DEF ReplayInv
    <2>2. ~overlapped' => proc[q].pc # "open" /\ ~overlapped
      BY <1>3, <1>8
    <2> QED
      BY <1>3, <1>6, <2>1, <2>2 DEF ProcSound
  <1>9. ProcsSound'
    <2>1. \A q \in Proc : ProcSound(proc[q])'
      BY <1>7, <1>8
    <2> QED
      BY <1>5, <2>1 DEF ProcsSound
  <1>10. EntriesSound'
    <2>1. manifest' \subseteq Provider
      BY <1>1, <1>2 DEF Process
    <2>2. ~overlapped' => \A r \in DOMAIN saved : r.provider \in manifest'
      BY <1>3, <1>6 DEF ReplayInv, EntriesSound
    <2> QED
      BY <1>3, <2>1, <2>2 DEF ReplayInv, EntriesSound
  <1> QED
    BY <1>3, <1>9, <1>10 DEF ReplayInv, PoolSound

\* Saving an outcome replaces what its path held, and nothing else.
LEMMA SaveSound ==
    ASSUME ReplayInv, NEW p \in Proc, Save(p)
    PROVE  ReplayInv'
  <1> DEFINE c == proc[p]
             r == c.request
             d == [c EXCEPT !.pc = "answered", !.key = Nil, !.outcome = Nil, !.error = ~c.outcome.ok]
  <1>1. DOMAIN proc = Proc /\ c \in Process /\ ProcSound(c) /\ c.pc = "save"
    BY ProcFacts DEF ReplayInv, ProcSound, Save
  <1>2. /\ r \in Request /\ c.key = Key(r) /\ c.outcome \in CallOutcome /\ c.mode = "record"
        /\ r.provider \in c.known
    BY <1>1 DEF ProcSound
  <1>3. /\ entries' = [k \in DOMAIN entries \cup {Key(r)} |->
                         IF k = Key(r) THEN [request |-> r, outcome |-> c.outcome] ELSE entries[k]]
        /\ saved' = [x \in DOMAIN saved \cup {r} |-> IF x = r THEN c.outcome ELSE saved[x]]
        /\ proc' = [proc EXCEPT ![p] = d]
        /\ UNCHANGED <<pool, manifest, overlapped>>
    BY <1>1, <1>2 DEF Save, Process
  <1>4. c.outcome.ok \in BOOLEAN
    BY <1>2 DEF CallOutcome
  <1>5. /\ d \in Process /\ d.pc = "answered" /\ d.request = r /\ d.known = c.known
    BY <1>1, <1>4 DEF Process
  <1> HIDE DEF d, r
  <1>6. proc' = [q \in Proc |-> IF q = p THEN d ELSE proc[q]]
    BY <1>1, <1>3
  <1>7. ProcsSound'
    <2>1. proc'[p] = d /\ r \in DOMAIN saved'
      BY <1>3, <1>6
    <2>2. ProcSound(proc[p])'
      <3>1. ~overlapped => c.known \subseteq manifest
        BY <1>1 DEF ProcSound
      <3> QED
        BY <1>3, <1>5, <2>1, <3>1 DEF ProcSound
    <2>3. ASSUME NEW q \in Proc, q # p PROVE ProcSound(proc[q])'
      <3>1. proc'[q] = proc[q] /\ ProcSound(proc[q])
        BY <1>6, <2>3, ProcFacts DEF ReplayInv
      <3> QED
        BY <1>3, <3>1 DEF ProcSound
    <2> QED
      BY <1>6, <2>2, <2>3 DEF ProcsSound
  <1>8. EntriesSound'
    <2>1. DOMAIN saved' \subseteq Request /\ manifest' \subseteq Provider
      BY <1>2, <1>3 DEF ReplayInv, EntriesSound
    <2>2. ASSUME NEW x \in DOMAIN saved'
          PROVE  /\ saved'[x] \in CallOutcome /\ Key(x) \in DOMAIN entries'
                 /\ entries'[Key(x)] = [request |-> x, outcome |-> saved'[x]]
      <3>1. CASE x = r
        BY <1>2, <1>3, <3>1
      <3>2. CASE x # r
        <4>1. x \in DOMAIN saved /\ saved'[x] = saved[x] /\ x \in Request
          BY <1>3, <3>2 DEF ReplayInv, EntriesSound
        <4>2. Key(x) # Key(r)
          BY <1>2, <3>2, <4>1, KeyInjective
        <4> QED
          BY <1>3, <4>1, <4>2 DEF ReplayInv, EntriesSound
      <3> QED
        BY <3>1, <3>2
    <2>3. ASSUME NEW k \in DOMAIN entries' PROVE \E x \in DOMAIN saved' : k = Key(x)
      BY <1>3 DEF ReplayInv, EntriesSound
    <2>4. ~overlapped' => \A x \in DOMAIN saved' : x.provider \in manifest'
      <3>1. ~overlapped => r.provider \in manifest
        BY <1>1, <1>2 DEF ProcSound
      <3> QED
        BY <1>3, <3>1 DEF ReplayInv, EntriesSound
    <2> QED
      BY <2>1, <2>2, <2>3, <2>4 DEF EntriesSound
  <1> QED
    BY <1>3, <1>7, <1>8 DEF ReplayInv, PoolSound

\* Every step keeps the invariant.
LEMMA ReplayStep == ReplayInv /\ [ReplayNext]_replayVars => ReplayInv'
  <1> SUFFICES ASSUME ReplayInv, [ReplayNext]_replayVars PROVE ReplayInv'
    OBVIOUS
  <1>1. ASSUME UNCHANGED pool PROVE PoolSound'
    BY <1>1 DEF ReplayInv, PoolSound
  <1>2. ASSUME UNCHANGED <<manifest, entries, saved, overlapped>> PROVE EntriesSound'
    BY <1>2 DEF ReplayInv, EntriesSound
  <1>3. ASSUME UNCHANGED <<proc, manifest, saved, overlapped>> PROVE ProcsSound'
    BY <1>3 DEF ReplayInv, ProcsSound, ProcSound
  <1>4. ASSUME NEW p \in Proc, OpenRecorder(p) \/ OpenReplay(p) PROVE ReplayInv'
    <2>1. UNCHANGED <<pool, manifest, entries, saved, overlapped>>
      BY <1>4 DEF OpenRecorder, OpenReplay, diskVars, historyVars
    <2> QED
      BY <1>1, <1>2, <1>4, <2>1, OpenSound DEF ReplayInv
  <1>5. ASSUME NEW p \in Proc, Unsupported(p) \/ SaveFails(p) \/ Replayed(p) \/ Done(p)
        PROVE  ReplayInv'
    <2>1. UNCHANGED <<pool, manifest, entries, saved, overlapped>>
      BY <1>5 DEF Unsupported, SaveFails, Replayed, Done, diskVars, historyVars
    <2> QED
      BY <1>1, <1>2, <1>5, <2>1, QuietCallSound DEF ReplayInv
  <1>6. ASSUME NEW p \in Proc, CallBase(p) PROVE ReplayInv'
    <2>1. UNCHANGED <<manifest, entries, saved, overlapped>>
      BY <1>6 DEF CallBase, diskVars
    <2>2. PICK r \in Calls(p) : IF r.provider = Messages THEN Mget(p, r.ids) ELSE UNCHANGED pool
      BY <1>6 DEF CallBase
    <2>3. r.ids \in Seq(MessageId)
      BY ReplayAssumption DEF Calls
    <2>4. PoolSound'
      BY <1>1, <2>2, <2>3, MgetStep DEF ReplayInv
    <2> QED
      BY <1>2, <1>6, <2>1, <2>4, QuietCallSound DEF ReplayInv
  <1>7. ASSUME NEW p \in Proc, Fetching(p) PROVE ReplayInv'
    <2>1. /\ PoolStep(p) \/ Cancel(p)
          /\ UNCHANGED <<proc, manifest, entries, saved, overlapped>>
      BY <1>7 DEF Fetching, diskVars, historyVars
    <2> QED
      BY <1>2, <1>3, <2>1, PoolSteps DEF ReplayInv
  <1>8. ASSUME NEW p \in Proc, BaseReturns(p) PROVE ReplayInv'
    <2>1. FetchOutcome(p) \in CallOutcome /\ SearchOutcome(p) \in CallOutcome
      BY BatchOutcome DEF ReplayInv
    <2> QED
      BY <1>8, <2>1, BaseSound DEF BaseReturns
  <1>9. ASSUME NEW p \in Proc, BaseAnswers(p) PROVE ReplayInv'
    <2>1. PICK outcome \in {Failure,
              [Failure EXCEPT !.ok = TRUE, !.messages = DOMAIN proc[p].request.ids]} :
             BaseIs(p, outcome)
      BY <1>9 DEF BaseAnswers
    <2>2. proc[p].pc = "base" /\ proc[p].request \in Request
      BY <1>9, ProcFacts DEF BaseAnswers, ReplayInv, ProcSound
    <2>3. DOMAIN proc[p].request.ids = 1 .. Len(proc[p].request.ids)
          /\ Len(proc[p].request.ids) \in Nat
      BY <2>2, ReplayAssumption
    <2>4. DOMAIN proc[p].request.ids \in SUBSET Nat
      BY <2>3
    <2>5. outcome \in CallOutcome
      <3>1. Failure \in CallOutcome
        BY DEF Failure, CallOutcome
      <3>2. \A ids \in SUBSET Nat : [Failure EXCEPT !.ok = TRUE, !.messages = ids] \in CallOutcome
        BY <3>1 DEF CallOutcome
      <3>3. [Failure EXCEPT !.ok = TRUE, !.messages = DOMAIN proc[p].request.ids] \in CallOutcome
        BY <2>4, <3>2
      <3> QED
        BY <2>1, <3>1, <3>3
    <2> QED
      BY <2>1, <2>2, <2>5, BaseSound
  <1>10. ASSUME NEW p \in Proc, RegisterFails(p) \/ Stop(p) PROVE ReplayInv'
    <2>1. /\ proc' = [proc EXCEPT ![p] = Down]
          /\ UNCHANGED <<manifest, entries, saved, overlapped>>
          /\ UNCHANGED pool \/ pool' = [pool EXCEPT ![p] = IdleBatch]
      BY <1>10 DEF RegisterFails, Stop, diskVars, historyVars
    <2>2. ProcsSound'
      BY <2>1, DownSound, ProcUpdate DEF ReplayInv
    <2>3. PoolSound'
      BY <1>1, <2>1, IdleBatchSound, PoolUpdate DEF ReplayInv
    <2> QED
      BY <1>2, <2>1, <2>2, <2>3 DEF ReplayInv
  <1>11. CASE UNCHANGED replayVars
    BY <1>1, <1>2, <1>3, <1>11 DEF replayVars, diskVars, historyVars, ReplayInv
  <1> QED
    BY <1>4, <1>5, <1>6, <1>7, <1>8, <1>9, <1>10, <1>11, RegisterSound, SaveSound DEF ReplayNext

\* The invariant holds in every reachable state.
LEMMA ReplayInvariant == ReplaySpec => []ReplayInv
  BY ReplayInitSound, ReplayStep, PTL DEF ReplaySpec

----------------------------------------------------------------------------
\* A batch of messages that is taken for complete is complete, for any number
\* of workers and messages: each was asked for once and none failed.
THEOREM PoolAlwaysExact == ReplaySpec => []PoolExact
  <1>1. ReplayInv => PoolExact
    BY PoolSoundExact DEF ReplayInv
  <1> QED
    BY <1>1, ReplayInvariant, PTL

\* A replay answers with what was recorded last, and answers nothing that was
\* not recorded, for any number of processes that stop at any point.
THEOREM ReplayAlwaysFaithful == ReplaySpec => []ReplayFaithful
  <1>1. ReplayInv => ReplayFaithful
    <2> SUFFICES ASSUME EntriesSound, NEW r \in Request, NEW s \in Session
                 PROVE  IF r \in DOMAIN saved
                        THEN /\ Load(r, s) # Nil /\ Load(r, s).request = r
                             /\ Load(r, s).outcome = saved[r]
                        ELSE Load(r, s) = Nil
      BY DEF ReplayInv, ReplayFaithful
    <2>1. Load(r, s) = IF Key(r) \in DOMAIN entries /\ entries[Key(r)].request = r
                       THEN entries[Key(r)] ELSE Nil
      BY DEF Load, requestKey, Key
    <2>2. CASE r \in DOMAIN saved
      <3>1. Load(r, s) = [request |-> r, outcome |-> saved[r]] /\ saved[r] \in CallOutcome
        BY <2>1, <2>2 DEF EntriesSound
      <3>2. Load(r, s) \in [request : Request, outcome : CallOutcome]
        BY <3>1
      <3> QED
        BY <2>2, <3>1, <3>2, ReplayAssumption
    <2>3. CASE r \notin DOMAIN saved
      <3>1. Key(r) \notin DOMAIN entries
        BY <2>3, KeyInjective DEF EntriesSound
      <3> QED
        BY <2>1, <2>3, <3>1
    <2> QED
      BY <2>2, <2>3
  <1> QED
    BY <1>1, ReplayInvariant, PTL

\* What a recorder reported as recorded can be replayed, and its provider is
\* in the manifest unless two recorders registered at the same time.
THEOREM RecordingsAlwaysReplayable == ReplaySpec => []RecordingsReplayable
  <1>1. ReplayInv => RecordingsReplayable
    BY DEF ReplayInv, ProcsSound, ProcSound, EntriesSound, RecordingsReplayable, KnownAtOpen
  <1> QED
    BY <1>1, ReplayInvariant, PTL
=============================================================================

--------------------------- MODULE WorkflowProofs ---------------------------
(***************************************************************************)
(* Theorems about Research, PlanValidation and EventStream, for every plan *)
(* a model or a command may write, every request, every channel capacity   *)
(* and every number of events: an answer leads back to what was read, a    *)
(* plan stays within its caller's authority, the two validators accept the *)
(* same graphs, no event is overtaken by the terminal message, and the     *)
(* handlers implement StreamContract.                                      *)
(***************************************************************************)
EXTENDS EventStream, Research, FiniteSetTheorems, WellFoundedInduction, TLAPS

----------------------------------------------------------------------------
(* Sequences, and what the workflow gathers. *)


\* Induction over the natural numbers, for a set that is closed under
\* successors.
LEMMA Induction ==
    ASSUME NEW T, T \subseteq Nat, 0 \in T, \A n \in T : n + 1 \in T
    PROVE  T = Nat
  <1> DEFINE R == {ss \in Nat \X Nat : ss[1] < ss[2]}
             Rest == Nat \ T
  <1>1. IsWellFoundedOn(R, Nat)
    BY NatLessThanWellFounded DEF OpToRel
  <1> SUFFICES ASSUME Rest # {} PROVE FALSE
    OBVIOUS
  <1> HIDE DEF R
  <1>2. PICK x \in Rest : \A y \in Rest : ~(<<y, x>> \in R)
    BY <1>1, WFMin
  <1>3. x - 1 \in T
    <2>1. x # 0 /\ x \in Nat
      BY <1>2
    <2>2. x - 1 \in Nat /\ x - 1 < x
      BY <2>1
    <2>3. <<x - 1, x>> \in Nat \X Nat /\ <<x - 1, x>>[1] = x - 1 /\ <<x - 1, x>>[2] = x
      BY <2>1, <2>2
    <2>4. <<x - 1, x>> \in R
      BY <2>2, <2>3 DEF R
    <2> QED
      BY <1>2, <2>2, <2>4
  <1> QED
    BY <1>2, <1>3

\* The prefixes of Distinct exist: each is built from the one before.
LEMMA DistinctUpTo ==
    ASSUME NEW seq, Len(seq) \in Nat
    PROVE  \E upTo :
              /\ upTo = [i \in 0 .. Len(seq) |->
                    IF i = 0 THEN <<>>
                    ELSE IF seq[i] \in ToSet(upTo[i - 1]) THEN upTo[i - 1]
                         ELSE Append(upTo[i - 1], seq[i])]
              /\ Distinct(seq) = upTo[Len(seq)]
  <1> DEFINE Body(u, n) == [i \in 0 .. n |->
                    IF i = 0 THEN <<>>
                    ELSE IF seq[i] \in ToSet(u[i - 1]) THEN u[i - 1]
                         ELSE Append(u[i - 1], seq[i])]
             T == {n \in Nat : \E u : u = Body(u, n)}
  <1>1. 0 \in T
    <2> DEFINE u == [i \in 0 .. 0 |-> <<>>]
    <2>1. u = Body(u, 0)
      OBVIOUS
    <2> QED
      BY <2>1
  <1>2. ASSUME NEW n \in T PROVE n + 1 \in T
    <2>1. PICK u : u = Body(u, n)
      OBVIOUS
    <2> DEFINE next == IF seq[n + 1] \in ToSet(u[n]) THEN u[n] ELSE Append(u[n], seq[n + 1])
               v == [i \in 0 .. n + 1 |-> IF i = n + 1 THEN next ELSE u[i]]
    <2>2. v[n + 1] = next /\ \A i \in 0 .. n : v[i] = u[i]
      OBVIOUS
    <2> HIDE DEF next
    <2>3. ASSUME NEW i \in 0 .. n + 1
          PROVE  v[i] = IF i = 0 THEN <<>>
                        ELSE IF seq[i] \in ToSet(v[i - 1]) THEN v[i - 1]
                             ELSE Append(v[i - 1], seq[i])
      <3>1. CASE i = n + 1
        <4>1. v[i - 1] = u[n] /\ i - 1 = n /\ i # 0
          BY <2>2, <3>1
        <4> QED
          BY <2>2, <3>1, <4>1 DEF next
      <3>2. CASE i \in 0 .. n
        <4>1. v[i] = u[i] /\ (i # 0 => v[i - 1] = u[i - 1])
          BY <2>2, <3>2
        <4>2. u[i] = IF i = 0 THEN <<>>
                     ELSE IF seq[i] \in ToSet(u[i - 1]) THEN u[i - 1]
                          ELSE Append(u[i - 1], seq[i])
          BY <2>1, <3>2
        <4> QED
          BY <4>1, <4>2
      <3> QED
        BY <3>1, <3>2
    <2>4. v = Body(v, n + 1)
      BY <2>3
    <2>5. \E x : x = Body(x, n + 1)
      <3> HIDE DEF v
      <3> WITNESS v
      <3> QED
        BY <2>4
    <2> HIDE DEF Body
    <2> QED
      BY <2>5
  <1>3. Len(seq) \in T
    <2> HIDE DEF T
    <2>1. T = Nat
      <3>1. T \subseteq Nat
        BY DEF T
      <3> QED
        BY <1>1, <1>2, <3>1, Induction
    <2> QED
      BY <2>1
  <1>4. PICK u : u = Body(u, Len(seq))
    BY <1>3
  <1> DEFINE c == CHOOSE x : x = Body(x, Len(seq))
  <1>5. c = Body(c, Len(seq))
    BY <1>4
  <1>6. Distinct(seq) = c[Len(seq)]
    BY DEF Distinct
  <1> QED
    BY <1>5, <1>6

\* Distinct keeps every element of a sequence, and each once.
LEMMA DistinctSound ==
    ASSUME NEW S, NEW seq \in Seq(S)
    PROVE  /\ Distinct(seq) \in Seq(S) /\ IsInjective(Distinct(seq))
           /\ ToSet(Distinct(seq)) = ToSet(seq)
  <1>0. Len(seq) \in Nat /\ DOMAIN seq = 1 .. Len(seq) /\ \A i \in 1 .. Len(seq) : seq[i] \in S
    OBVIOUS
  <1>1. PICK upTo :
           /\ upTo = [i \in 0 .. Len(seq) |->
                 IF i = 0 THEN <<>>
                 ELSE IF seq[i] \in ToSet(upTo[i - 1]) THEN upTo[i - 1]
                      ELSE Append(upTo[i - 1], seq[i])]
           /\ Distinct(seq) = upTo[Len(seq)]
    BY <1>0, DistinctUpTo
  <1> DEFINE Good(n) == /\ upTo[n] \in Seq(S) /\ IsInjective(upTo[n])
                        /\ ToSet(upTo[n]) = {seq[i] : i \in 1 .. n}
             T == {n \in Nat : n <= Len(seq) => Good(n)}
  <1>2. upTo[0] = <<>>
    BY <1>0, <1>1
  <1>3. 0 \in T
    <2>1. upTo[0] \in Seq(S) /\ IsInjective(upTo[0])
      BY <1>2 DEF IsInjective
    <2>2. ToSet(upTo[0]) = {} /\ {seq[i] : i \in 1 .. 0} = {}
      BY <1>2 DEF ToSet
    <2> QED
      BY <2>1, <2>2
  <1>4. ASSUME NEW n \in T PROVE n + 1 \in T
    <2> SUFFICES ASSUME n + 1 <= Len(seq) PROVE Good(n + 1)
      OBVIOUS
    <2>1. Good(n) /\ n \in Nat /\ n + 1 \in 1 .. Len(seq)
      BY <1>0
    <2> DEFINE x == seq[n + 1]
               old == upTo[n]
               new == upTo[n + 1]
    <2>2. new = IF x \in ToSet(old) THEN old ELSE Append(old, x)
      <3>1. n + 1 \in 0 .. Len(seq) /\ n + 1 # 0 /\ (n + 1) - 1 = n
        BY <1>0, <2>1
      <3> QED
        BY <1>1, <3>1
    <2>3. x \in S /\ {seq[i] : i \in 1 .. n + 1} = {seq[i] : i \in 1 .. n} \cup {x}
      BY <1>0, <2>1
    <2>4. old \in Seq(S) /\ IsInjective(old) /\ ToSet(old) = {seq[i] : i \in 1 .. n}
      BY <2>1
    <2> HIDE DEF x, old, new
    <2>5. CASE x \in ToSet(old)
      <3>1. new \in Seq(S) /\ IsInjective(new) /\ ToSet(new) = {seq[i] : i \in 1 .. n + 1}
        BY <2>2, <2>3, <2>4, <2>5
      <3> QED
        BY <3>1 DEF new
    <2>6. CASE x \notin ToSet(old)
      <3>1. new = Append(old, x) /\ x \in S /\ old \in Seq(S)
        BY <2>2, <2>3, <2>4, <2>6
      <3>2. /\ new \in Seq(S) /\ DOMAIN new = 1 .. Len(old) + 1 /\ Len(old) \in Nat
            /\ DOMAIN old = 1 .. Len(old)
            /\ new[Len(old) + 1] = x /\ \A i \in 1 .. Len(old) : new[i] = old[i]
        BY <3>1
      <3>3. ToSet(new) = ToSet(old) \cup {x}
        BY <3>2 DEF ToSet
      <3>4. IsInjective(new)
        BY <2>4, <2>6, <3>2 DEF IsInjective, ToSet
      <3>5. new \in Seq(S) /\ IsInjective(new) /\ ToSet(new) = {seq[i] : i \in 1 .. n + 1}
        BY <2>3, <2>4, <3>2, <3>3, <3>4
      <3> QED
        BY <3>5 DEF new
    <2> QED
      BY <2>5, <2>6
  <1>5. Good(Len(seq))
    <2> HIDE DEF Good
    <2>1. T \subseteq Nat
      OBVIOUS
    <2> HIDE DEF T
    <2>2. T = Nat
      BY <1>3, <1>4, <2>1, Induction
    <2>3. Len(seq) \in T
      BY <1>0, <2>2
    <2> QED
      BY <1>0, <2>3 DEF T
  <1>6. ToSet(seq) = {seq[i] : i \in 1 .. Len(seq)}
    BY <1>0 DEF ToSet
  <1> HIDE DEF T
  <1> QED
    BY <1>1, <1>5, <1>6

\* The prefixes of FlattenSeq exist, and are sequences of what was flattened.
LEMMA FlattenSound ==
    ASSUME NEW S, NEW seqs \in Seq(Seq(S))
    PROVE  FlattenSeq(seqs) \in Seq(S)
  <1> DEFINE Body(u, n) == [i \in 1 .. n |-> IF i = 1 THEN seqs[i] ELSE u[i - 1] \o seqs[i]]
             T == {n \in Nat : \E u : u = Body(u, n)}
  <1>0. Len(seqs) \in Nat /\ \A i \in 1 .. Len(seqs) : seqs[i] \in Seq(S)
    OBVIOUS
  <1>1. 0 \in T
    <2> DEFINE u == [i \in 1 .. 0 |-> seqs[i]]
    <2>1. u = Body(u, 0)
      OBVIOUS
    <2> QED
      BY <2>1
  <1>2. ASSUME NEW n \in T PROVE n + 1 \in T
    <2>1. PICK u : u = Body(u, n)
      OBVIOUS
    <2> DEFINE next == IF n = 0 THEN seqs[1] ELSE u[n] \o seqs[n + 1]
               v == [i \in 1 .. n + 1 |-> IF i = n + 1 THEN next ELSE u[i]]
    <2> HIDE DEF next
    <2>2. v[n + 1] = next /\ \A i \in 1 .. n : v[i] = u[i]
      <3>1. n \in Nat
        OBVIOUS
      <3> QED
        BY ONLY <3>1
    <2>3. ASSUME NEW i \in 1 .. n + 1
          PROVE  v[i] = IF i = 1 THEN seqs[i] ELSE v[i - 1] \o seqs[i]
      <3>1. CASE i = n + 1
        <4>1. i # 1 => n # 0 /\ v[i - 1] = u[n]
          BY <2>2, <3>1
        <4>2. i = 1 <=> n = 0
          BY <3>1
        <4> QED
          BY <2>2, <3>1, <4>1, <4>2 DEF next
      <3>2. CASE i \in 1 .. n
        <4>1. v[i] = u[i] /\ (i # 1 => v[i - 1] = u[i - 1])
          BY <2>2, <3>2
        <4>2. u[i] = IF i = 1 THEN seqs[i] ELSE u[i - 1] \o seqs[i]
          BY <2>1, <3>2
        <4> QED
          BY <4>1, <4>2
      <3> QED
        BY <3>1, <3>2
    <2>4. v = Body(v, n + 1)
      BY <2>3
    <2>5. \E x : x = Body(x, n + 1)
      <3> HIDE DEF v
      <3> WITNESS v
      <3> QED
        BY <2>4
    <2> HIDE DEF Body
    <2> QED
      BY <2>5
  <1>3. Len(seqs) \in T
    <2>1. \A n \in T : n \in Nat
      OBVIOUS
    <2> HIDE DEF T
    <2>2. T = Nat
      BY <1>1, <1>2, <2>1, Induction
    <2> QED
      BY <1>0, <2>2
  <1> DEFINE c == CHOOSE x : x = Body(x, Len(seqs))
  <1>4. c = Body(c, Len(seqs))
    BY <1>3
  <1>5. FlattenSeq(seqs) = IF Len(seqs) = 0 THEN seqs ELSE c[Len(seqs)]
    BY DEF FlattenSeq
  <1> HIDE DEF c
  <1> DEFINE G == {n \in Nat : n \in 1 .. Len(seqs) => c[n] \in Seq(S)}
  <1>6. \A i \in 1 .. Len(seqs) : c[i] = IF i = 1 THEN seqs[i] ELSE c[i - 1] \o seqs[i]
    BY <1>4
  <1>7. 0 \in G /\ \A n \in G : n + 1 \in G
    <2>1. ASSUME NEW n \in G, n + 1 \in 1 .. Len(seqs) PROVE c[n + 1] \in Seq(S)
      <3>1. seqs[n + 1] \in Seq(S) /\ n \in Nat
        BY <1>0, <2>1
      <3>2. CASE n = 0
        BY <1>6, <2>1, <3>1, <3>2
      <3>3. CASE n # 0
        <4>1. n \in 1 .. Len(seqs) /\ n + 1 # 1 /\ (n + 1) - 1 = n
          BY <1>0, <2>1, <3>1, <3>3
        <4>2. c[n] \in Seq(S) /\ c[n + 1] = c[n] \o seqs[n + 1]
          BY <1>6, <2>1, <4>1
        <4> QED
          BY <3>1, <4>2
      <3> QED
        BY <3>2, <3>3
    <2> QED
      BY <1>0, <2>1
  <1>8. Len(seqs) \in G
    <2>1. G \subseteq Nat
      OBVIOUS
    <2> HIDE DEF G
    <2>2. G = Nat
      BY <1>7, <2>1, Induction
    <2> QED
      BY <1>0, <2>2
  <1>9. CASE Len(seqs) = 0
    <2>1. seqs = <<>>
      BY <1>9
    <2> QED
      BY <1>5, <1>9, <2>1
  <1>10. CASE Len(seqs) # 0
    BY <1>0, <1>5, <1>8, <1>10
  <1> QED
    BY <1>9, <1>10

----------------------------------------------------------------------------
(* From candidates to citations. *)

\* Where the candidates come from: the output nodes, else the session.
Origin == IF found = <<>> /\ session # None THEN session.candidates ELSE found

\* The workflow holds its candidates, and from here on its evidence.
Gathered == pc \in {"rerank", "supplement", "evidence", "answer", "done"}
Extracted == pc \in {"answer", "done"}

\* The inductive invariant behind AnswerTraceable.
Traced ==
    /\ pc \in {"capabilities", "rules", "ai", "command", "repair", "fallback", "constrain",
               "execute", "session", "rerank", "supplement", "evidence", "answer", "done", "failed"}
    /\ planner \in {"rules", "ai", "command"}
    /\ found \in Seq(Object) /\ IsInjective(found) /\ candidates \in Seq(Object)
    /\ Gathered => IsInjective(candidates) /\ ToSet(candidates) = ToSet(Origin) /\ read \subseteq artifacts
    /\ extra \cap read = {} /\ (pc \notin {"evidence", "answer", "done", "failed"} => extra = {})
    /\ Extracted => evidence = artifacts \cap Textual
    /\ pc # "done" => answer = None
    /\ partial \in BOOLEAN
    /\ answer # None => /\ answer.citations = UNION answer.claims
                        /\ answer.citations \subseteq evidence
                        /\ answer.citations = {} => partial

\* A plan that is to be confined or executed has the shape of a plan.
Planned == pc \in {"constrain", "execute"} => IsPlan(plan)

\* What the safety proofs of the workflow rest on.
ResearchInv == request \in Requests /\ Planned /\ Traced

\* The rules write a plan.
LEMMA RulesPlanShape == request \in Requests => IsPlan(RulesPlan)
  <1> SUFFICES ASSUME request \in Requests PROVE IsPlan(RulesPlan)
    OBVIOUS
  <1> DEFINE sources == IF request.sources # {} THEN request.sources ELSE selectSources
             top == IF request.fetchTopK <= 0 THEN DefaultTopK ELSE request.fetchTopK
             search == [id |-> "search", op |-> "search", dependsOn |-> <<>>, maxItems |-> 0,
                        request |-> [query |-> Compact, sources |-> sources,
                                     source_queries |-> sourceQueries(sources),
                                     filters |-> request.filters, limit |-> SearchLimit,
                                     limit_per_source |-> PerSource]]
             fetch == [id |-> "fetch_top", op |-> "map_fetch", dependsOn |-> <<"search">>,
                       maxItems |-> top, request |-> [top_k |-> top, max_items |-> top]]
  <1>1. RulesPlan = [identity |-> request.identity,
                     nodes |-> IF request.deep THEN <<search, fetch>> ELSE <<search>>,
                     output |-> IF request.deep THEN <<"search", "fetch_top">> ELSE <<"search">>,
                     budget |-> request.budget]
    BY DEF RulesPlan
  <1>2. /\ search = [id |-> search.id, op |-> search.op, dependsOn |-> search.dependsOn,
                     request |-> search.request, maxItems |-> search.maxItems]
        /\ IsSequence(search.dependsOn) /\ search.maxItems \in Int
        /\ fetch = [id |-> fetch.id, op |-> fetch.op, dependsOn |-> fetch.dependsOn,
                    request |-> fetch.request, maxItems |-> fetch.maxItems]
        /\ IsSequence(fetch.dependsOn) /\ fetch.maxItems \in Int
    BY ResearchAssumption DEF IsSequence
  <1> HIDE DEF search, fetch
  <1>3. /\ IsSequence(<<search, fetch>>) /\ IsSequence(<<search>>)
        /\ IsSequence(<<"search", "fetch_top">>) /\ IsSequence(<<"search">>)
    BY DEF IsSequence
  <1>4. request.budget \in [Dim -> Int]
    BY ResearchAssumption
  <1>5. \A i \in DOMAIN RulesPlan.nodes : RulesPlan.nodes[i] \in {search, fetch}
    BY <1>1
  <1> QED
    BY <1>1, <1>2, <1>3, <1>4, <1>5 DEF IsPlan

\* Defaults, clamped budgets and limits are at least one.
LEMMA BudgetRange ==
    ASSUME NEW b \in [Dim -> Int], request \in Requests
    PROVE  /\ WithDefaults(b) \in [Dim -> Nat \ {0}]
           /\ clampBudget(b, WithDefaults(request.budget)) \in [Dim -> Nat \ {0}]
           /\ \A d \in Dim : clampBudget(b, WithDefaults(request.budget))[d]
                                \in 1 .. WithDefaults(request.budget)[d]
           /\ FetchTopK(b) \in Nat \ {0}
  <1>1. \A c \in [Dim -> Int] : WithDefaults(c) \in [Dim -> Nat \ {0}]
    BY ResearchAssumption DEF WithDefaults
  <1>2. request.budget \in [Dim -> Int] /\ request.fetchTopK \in Int
    BY ResearchAssumption
  <1>3. \A limit \in [Dim -> Nat \ {0}] :
           /\ clampBudget(b, limit) \in [Dim -> Nat \ {0}]
           /\ \A d \in Dim : clampBudget(b, limit)[d] \in 1 .. limit[d]
    BY DEF clampBudget
  <1>4. WithDefaults(b)["fetches"] \in Nat \ {0}
    BY <1>1, ResearchAssumption
  <1>5. FetchTopK(b) \in Nat \ {0}
    BY <1>2, <1>4, ResearchAssumption DEF FetchTopK
  <1> QED
    BY <1>1, <1>2, <1>3, <1>5

\* A clamped number is within the limit.
LEMMA ClampRange ==
    ASSUME NEW value \in Int, NEW limit \in Nat \ {0} PROVE Clamp(value, limit) \in 1 .. limit
  BY DEF Clamp

\* A node of a plan.
IsNode(n) ==
    /\ n = [id |-> n.id, op |-> n.op, dependsOn |-> n.dependsOn, request |-> n.request,
            maxItems |-> n.maxItems]
    /\ IsSequence(n.dependsOn) /\ n.maxItems \in Int

\* Two nodes at the same place of a graph.
SameGraph(m, n) == m.id = n.id /\ m.dependsOn = n.dependsOn

\* Rewriting a node changes its request, and the limit of a fetch.
LEMMA ConstrainedNode ==
    ASSUME NEW n, IsNode(n), NEW budget \in [Dim -> Int], request \in Requests
    PROVE  /\ IsNode(ConstrainSearch(n)) /\ IsNode(ConstrainFetch(n, budget))
           /\ ConstrainSearch(n).op = n.op /\ ConstrainFetch(n, budget).op = n.op
           /\ SameGraph(ConstrainSearch(n), n) /\ SameGraph(ConstrainFetch(n, budget), n)
           /\ ConstrainFetch(n, budget).maxItems = Clamp(n.maxItems, FetchTopK(budget))
           /\ ConstrainFetch(n, budget).request = PinnedFetch(n, FetchTopK(budget))
           /\ ConstrainSearch(n).request = Pinned(n)
  <1>1. Clamp(n.maxItems, FetchTopK(budget)) \in Int
    BY BudgetRange, ClampRange DEF IsNode
  <1>0. PICK i, o, d, q, k : /\ n = [id |-> i, op |-> o, dependsOn |-> d, request |-> q, maxItems |-> k]
                             /\ IsSequence(d) /\ k \in Int
    BY DEF IsNode
  <1>2. ASSUME NEW r, NEW x, x = [n EXCEPT !.request = r]
        PROVE  IsNode(x) /\ x.op = n.op /\ x.request = r /\ SameGraph(x, n)
    <2>1. x = [id |-> i, op |-> o, dependsOn |-> d, request |-> r, maxItems |-> k]
      BY ONLY <1>0, <1>2
    <2> QED
      BY ONLY <1>0, <2>1 DEF IsNode, SameGraph
  <1>3. ConstrainFetch(n, budget) =
           [n EXCEPT !.request = PinnedFetch(n, FetchTopK(budget)),
                     !.maxItems = Clamp(n.maxItems, FetchTopK(budget))]
    BY DEF ConstrainFetch
  <1>5. /\ IsNode(ConstrainSearch(n)) /\ ConstrainSearch(n).op = n.op
        /\ SameGraph(ConstrainSearch(n), n) /\ ConstrainSearch(n).request = Pinned(n)
    BY <1>2 DEF ConstrainSearch
  <1>6. /\ IsNode(ConstrainFetch(n, budget)) /\ ConstrainFetch(n, budget).op = n.op
        /\ SameGraph(ConstrainFetch(n, budget), n)
        /\ ConstrainFetch(n, budget).maxItems = Clamp(n.maxItems, FetchTopK(budget))
        /\ ConstrainFetch(n, budget).request = PinnedFetch(n, FetchTopK(budget))
    <2> DEFINE r == PinnedFetch(n, FetchTopK(budget))
               m == Clamp(n.maxItems, FetchTopK(budget))
    <2>1. PICK y : y = ConstrainFetch(n, budget)
      OBVIOUS
    <2>3. y = [n EXCEPT !.request = r, !.maxItems = m] /\ m \in Int
      BY <1>1, <1>3, <2>1
    <2> HIDE DEF r, m
    <2> DEFINE z == [n EXCEPT !.request = r]
    <2>5. z = [id |-> i, op |-> o, dependsOn |-> d, request |-> r, maxItems |-> k]
      BY ONLY <1>0
    <2>6. y = [z EXCEPT !.maxItems = m]
      BY ONLY <2>3
    <2> HIDE DEF z
    <2>7. y = [id |-> i, op |-> o, dependsOn |-> d, request |-> r, maxItems |-> m]
      BY ONLY <2>5, <2>6
    <2>4. IsNode(y) /\ y.op = n.op /\ y.request = r /\ y.maxItems = m /\ SameGraph(y, n)
      BY ONLY <1>0, <2>3, <2>7 DEF IsNode, SameGraph
    <2>2. /\ IsNode(ConstrainFetch(n, budget)) /\ ConstrainFetch(n, budget).op = n.op
          /\ SameGraph(ConstrainFetch(n, budget), n)
          /\ ConstrainFetch(n, budget).request = r /\ ConstrainFetch(n, budget).maxItems = m
      BY <2>1, <2>4
    <2> QED
      BY <2>2 DEF r, m
  <1> QED
    BY <1>5, <1>6

\* Rewriting the nodes of a plan leaves a plan.
LEMMA ConstrainedShape ==
    ASSUME NEW p, IsPlan(p), request \in Requests
    PROVE  /\ IsPlan(Constrained(p)) /\ Constrained(p).output = p.output
           /\ Constrained(p).identity = request.identity
           /\ DOMAIN Constrained(p).nodes = DOMAIN p.nodes
           /\ LET budget == clampBudget(p.budget, WithDefaults(request.budget))
              IN /\ Constrained(p).budget = budget
                 /\ \A i \in DOMAIN p.nodes :
                       Constrained(p).nodes[i] =
                          CASE p.nodes[i].op = "search" -> ConstrainSearch(p.nodes[i])
                            [] p.nodes[i].op = "map_fetch" -> ConstrainFetch(p.nodes[i], budget)
                            [] OTHER -> p.nodes[i]
  <1> DEFINE budget == clampBudget(p.budget, WithDefaults(request.budget))
             Node(i) == CASE p.nodes[i].op = "search" -> ConstrainSearch(p.nodes[i])
                          [] p.nodes[i].op = "map_fetch" -> ConstrainFetch(p.nodes[i], budget)
                          [] OTHER -> p.nodes[i]
             nodes == [i \in DOMAIN p.nodes |-> Node(i)]
  <1>1. budget \in [Dim -> Int]
    BY BudgetRange DEF IsPlan
  <1>2. Constrained(p) = [p EXCEPT !.identity = request.identity, !.budget = budget, !.nodes = nodes]
    BY DEF Constrained
  <1> HIDE DEF budget
  <1>3. \A i \in DOMAIN p.nodes : IsNode(Node(i))
    BY <1>1, ConstrainedNode DEF IsPlan, IsNode
  <1>4. DOMAIN p.nodes = 1 .. Len(p.nodes) /\ Len(p.nodes) \in Nat
    BY DEF IsPlan, IsSequence
  <1>5. \A i \in DOMAIN p.nodes : nodes[i] = Node(i)
    OBVIOUS
  <1>6. IsSequence(nodes)
    <2>1. nodes = [i \in 1 .. Len(p.nodes) |-> Node(i)]
      BY <1>4
    <2> HIDE DEF Node
    <2>2. Len(nodes) = Len(p.nodes)
      BY <1>4, <2>1
    <2> QED
      BY <1>4, <2>1, <2>2 DEF IsSequence
  <1> HIDE DEF nodes, Node
  <1>7. DOMAIN nodes = DOMAIN p.nodes
    BY DEF nodes
  <1>8. /\ Constrained(p).nodes = nodes /\ Constrained(p).budget = budget
        /\ Constrained(p).output = p.output /\ Constrained(p).identity = request.identity
        /\ Constrained(p) = [identity |-> request.identity, nodes |-> nodes, output |-> p.output,
                             budget |-> budget]
    BY <1>2 DEF IsPlan
  <1>9. IsPlan(Constrained(p))
    BY <1>1, <1>3, <1>5, <1>6, <1>7, <1>8 DEF IsPlan, IsNode
  <1> QED
    BY <1>5, <1>7, <1>8, <1>9 DEF budget, Node

\* A plan has finitely many ids.
LEMMA IdsFinite ==
    ASSUME NEW p, IsPlan(p) PROVE IsFiniteSet(Ids(p)) /\ Cardinality(Ids(p)) \in Nat
  <1>1. Len(p.nodes) \in Nat /\ DOMAIN p.nodes = 1 .. Len(p.nodes)
    BY DEF IsPlan, IsSequence
  <1>2. IsFiniteSet(1 .. Len(p.nodes))
    BY <1>1, 1 \in Int, Len(p.nodes) \in Int, FS_Interval
  <1> DEFINE f == [i \in DOMAIN p.nodes |-> p.nodes[i].id]
  <1>3. f \in Surjection(DOMAIN p.nodes, Ids(p))
    BY DEF Surjection, Ids
  <1>4. IsFiniteSet(Ids(p))
    BY <1>1, <1>2, <1>3, FS_Surjection
  <1> QED
    BY <1>4, FS_CardinalityType

\* Whatever the output nodes hold, it can be put into one sequence.
LEMMA OutputsFlatten ==
    ASSUME NEW p, IsPlan(p), NEW ids \in outputIDs(p), NEW out \in Outputs(p, ids)
    PROVE  FlattenSeq([i \in DOMAIN out |-> out[i].candidates]) \in Seq(Object)
  <1>1. PICK n \in Nat : DOMAIN ids = 1 .. n
    <2>1. CASE p.output = <<>>
      <3>4. Cardinality(Ids(p)) \in Nat
        BY IdsFinite
      <3>5. DOMAIN ids = 1 .. Cardinality(Ids(p))
        BY <2>1 DEF outputIDs, SetToSeqs
      <3> QED
        BY <3>4, <3>5
    <2>2. CASE p.output # <<>>
      BY <2>2 DEF outputIDs, IsPlan, IsSequence
    <2> QED
      BY <2>1, <2>2
  <1>2. DOMAIN out = 1 .. n /\ \A i \in 1 .. n : out[i].candidates \in Seq(Object)
    BY <1>1, ResearchAssumption DEF Outputs
  <1>3. [i \in DOMAIN out |-> out[i].candidates] \in Seq(Seq(Object))
    BY <1>2
  <1> QED
    BY <1>3, FlattenSound

\* The workflow starts with nothing in hand.
LEMMA ResearchInvInit == Init => ResearchInv
  <1> SUFFICES ASSUME Init PROVE ResearchInv
    OBVIOUS
  <1>1. <<>> \in Seq(Object) /\ IsInjective(<<>>)
    BY DEF IsInjective
  <1> QED
    BY <1>1 DEF Init, ResearchInv, Planned, Traced, Gathered, Extracted

\* Steps that neither plan nor touch the result.
LEMMA ResearchInvPlanning ==
    ASSUME ResearchInv,
           request' = request, planner' = planner, pc \notin {"evidence", "answer", "done", "failed"} \/ pc' = "failed",
           pc' \in {"rules", "ai", "command", "repair", "fallback", "constrain", "execute", "failed"},
           pc' \in {"constrain", "execute"} => IsPlan(plan'),
           UNCHANGED <<workVars, endVars>>, pc # "done"
    PROVE  ResearchInv'
  BY DEF ResearchInv, Planned, Traced, Gathered, Extracted, Origin, workVars, endVars

\* Executing a plan leaves candidates that are each there once.
LEMMA ResearchInvExecute == ResearchInv /\ Execute => ResearchInv'
  <1> SUFFICES ASSUME ResearchInv, Execute PROVE ResearchInv'
    OBVIOUS
  <1>1. IsPlan(plan)
    BY DEF Execute, ResearchInv, Planned
  <1>2. PICK ids \in outputIDs(plan), some \in BOOLEAN : \E out \in Outputs(plan, ids) :
           /\ found' = Distinct(FlattenSeq([i \in DOMAIN out |-> out[i].candidates]))
           /\ read' = UNION {out[i].artifacts : i \in DOMAIN out}
           /\ partial' = some
    BY DEF Execute
  <1>3. found' \in Seq(Object) /\ IsInjective(found') /\ partial' \in BOOLEAN
    BY <1>1, <1>2, OutputsFlatten, DistinctSound
  <1>4. extra = {} /\ answer = None /\ candidates \in Seq(Object)
    BY DEF Execute, ResearchInv, Traced
  <1> QED
    BY <1>3, <1>4 DEF Execute, ResearchInv, Planned, Traced, Gathered, Extracted

\* The session stands in where the outputs are empty.
LEMMA ResearchInvReadSession == ResearchInv /\ ReadSession => ResearchInv'
  <1> SUFFICES ASSUME ResearchInv, ReadSession PROVE ResearchInv'
    OBVIOUS
  <1>1. PICK snapshot \in {None} \cup [candidates : {f \in Findings : IsInjective(f)},
                                  artifacts : {{}, Textual}] :
          /\ session' = snapshot
          /\ candidates' = IF found = <<>> /\ snapshot # None THEN snapshot.candidates ELSE found
          /\ artifacts' = IF read = {} /\ snapshot # None THEN snapshot.artifacts ELSE read
    BY DEF ReadSession
  <1>2. snapshot # None => snapshot.candidates \in Seq(Object) /\ IsInjective(snapshot.candidates)
    BY <1>1, ResearchAssumption
  <1>3. found \in Seq(Object) /\ IsInjective(found) /\ extra = {} /\ answer = None
    BY DEF ReadSession, ResearchInv, Traced
  <1>4. candidates' \in Seq(Object) /\ IsInjective(candidates') /\ candidates' = Origin'
    BY <1>1, <1>2, <1>3 DEF Origin, ReadSession
  <1>5. read \subseteq artifacts'
    BY <1>1
  <1> QED
    BY <1>3, <1>4, <1>5 DEF ReadSession, ResearchInv, Planned, Traced, Gathered, Extracted, endVars

\* What the reranker is shown are candidates.
LEMMA ShownAreCandidates ==
    ASSUME candidates \in Seq(Object) PROVE Shown \in Seq(Object) /\ ToSet(Shown) \subseteq ToSet(candidates)
  <1> DEFINE m == IF TopN < Len(candidates) THEN TopN ELSE Len(candidates)
  <1>1. m \in 0 .. Len(candidates)
    BY ResearchAssumption
  <1> HIDE DEF m
  <1>2. /\ SubSeq(candidates, 1, m) \in Seq(Object) /\ Len(SubSeq(candidates, 1, m)) = m
        /\ \A i \in 1 .. m : SubSeq(candidates, 1, m)[i] = candidates[i]
    BY <1>1
  <1> QED
    BY <1>1, <1>2 DEF Shown, ToSet, m

\* Reranking neither drops nor invents a candidate.
LEMMA RerankSound ==
    ASSUME candidates \in Seq(Object), NEW ids \in Seq(Object), ToSet(ids) \subseteq ToSet(candidates)
    PROVE  /\ Rerank(ids) \in Seq(Object) /\ IsInjective(Rerank(ids))
           /\ ToSet(Rerank(ids)) = ToSet(candidates)
  <1>1. ids \o candidates \in Seq(Object)
    OBVIOUS
  <1>2. ToSet(ids \o candidates) = ToSet(ids) \cup ToSet(candidates)
    <2>1. /\ Len(ids) \in Nat /\ Len(candidates) \in Nat
          /\ DOMAIN ids = 1 .. Len(ids) /\ DOMAIN candidates = 1 .. Len(candidates)
          /\ DOMAIN (ids \o candidates) = 1 .. (Len(ids) + Len(candidates))
          /\ \A i \in 1 .. Len(ids) : (ids \o candidates)[i] = ids[i]
      OBVIOUS
    <2>2. \A i \in 1 .. Len(candidates) : (ids \o candidates)[Len(ids) + i] = candidates[i]
      BY <2>1
    <2>3. \A i \in DOMAIN (ids \o candidates) :
             i \in 1 .. Len(ids) \/ \E k \in 1 .. Len(candidates) : i = Len(ids) + k
      <3> SUFFICES ASSUME NEW i \in DOMAIN (ids \o candidates), i \notin 1 .. Len(ids)
                   PROVE  i - Len(ids) \in 1 .. Len(candidates) /\ i = Len(ids) + (i - Len(ids))
        OBVIOUS
      <3> QED
        BY <2>1
    <2>4. ToSet(ids \o candidates) \subseteq ToSet(ids) \cup ToSet(candidates)
      BY <2>1, <2>2, <2>3 DEF ToSet
    <2>5. ToSet(ids) \subseteq ToSet(ids \o candidates)
      BY <2>1 DEF ToSet
    <2>6. ToSet(candidates) \subseteq ToSet(ids \o candidates)
      <3> SUFFICES ASSUME NEW i \in 1 .. Len(candidates)
                   PROVE  candidates[i] \in ToSet(ids \o candidates)
        BY <2>1 DEF ToSet
      <3>1. Len(ids) + i \in DOMAIN (ids \o candidates)
        BY <2>1
      <3> QED
        BY <2>2, <3>1 DEF ToSet
    <2> QED
      BY <2>4, <2>5, <2>6
  <1> QED
    BY <1>1, <1>2, DistinctSound DEF Rerank

\* A refused reranking leaves the order as it was.
LEMMA ResearchInvRefused ==
    ASSUME ResearchInv, pc = "rerank", RerankRefused PROVE ResearchInv'
  BY DEF ResearchInv, Planned, Traced, Gathered, Extracted, Origin, RerankRefused, workVars

\* An accepted one is a permutation of it.
LEMMA ResearchInvRerank == ResearchInv /\ RerankAnswers => ResearchInv'
  <1> SUFFICES ASSUME ResearchInv, RerankAnswers PROVE ResearchInv'
    OBVIOUS
  <1>1. PICK ids \in {s \in Findings : ToSet(s) \subseteq ToSet(Shown)} :
           LET order == IF Len(Shown) < 2 THEN candidates ELSE Rerank(ids)
           IN IF Len(order) = Len(candidates) THEN RerankDone(order) ELSE RerankRefused
    BY DEF RerankAnswers
  <1>2. /\ candidates \in Seq(Object) /\ IsInjective(candidates)
        /\ ToSet(candidates) = ToSet(Origin) /\ pc = "rerank"
    BY DEF ResearchInv, Traced, Gathered, RerankAnswers
  <1>3. ids \in Seq(Object) /\ ToSet(ids) \subseteq ToSet(candidates)
    BY <1>1, <1>2, ShownAreCandidates, ResearchAssumption
  <1> DEFINE order == IF Len(Shown) < 2 THEN candidates ELSE Rerank(ids)
  <1>4. order \in Seq(Object) /\ IsInjective(order) /\ ToSet(order) = ToSet(Origin)
    BY <1>2, <1>3, RerankSound
  <1>5. RerankDone(order) \/ RerankRefused
    BY <1>1
  <1> HIDE DEF order
  <1>6. CASE RerankDone(order)
    <2>1. candidates' = order /\ Origin' = Origin /\ read' = read /\ artifacts' = artifacts
      BY <1>6 DEF RerankDone, Origin
    <2> QED
      BY <1>2, <1>4, <1>6, <2>1 DEF ResearchInv, Planned, Traced, Gathered, Extracted, RerankDone, endVars
  <1>7. CASE RerankRefused
    BY <1>2, <1>7, ResearchInvRefused
  <1> QED
    BY <1>5, <1>6, <1>7

\* What is fetched after reranking was not read before.
LEMMA ResearchInvSupplement == ResearchInv /\ Supplement => ResearchInv'
  <1> SUFFICES ASSUME ResearchInv, Supplement PROVE ResearchInv'
    OBVIOUS
  <1>1. /\ extra' \cap artifacts = {} /\ artifacts' = artifacts \cup extra' /\ pc' = "evidence"
        /\ UNCHANGED <<request, planner, found, read, session, candidates, partial, answer>>
    BY DEF Supplement
  <1>2. read \subseteq artifacts /\ Gathered /\ pc = "supplement"
    BY DEF Supplement, ResearchInv, Traced, Gathered
  <1>3. Origin' = Origin
    BY <1>1 DEF Origin
  <1> QED
    BY <1>1, <1>2, <1>3 DEF ResearchInv, Planned, Traced, Gathered, Extracted

\* Evidence comes from the text of what was read.
LEMMA ResearchInvExtract == ResearchInv /\ ExtractEvidence => ResearchInv'
  <1> SUFFICES ASSUME ResearchInv, ExtractEvidence PROVE ResearchInv'
    OBVIOUS
  <1>1. Origin' = Origin
    BY DEF ExtractEvidence, workVars, Origin
  <1> QED
    BY <1>1 DEF ResearchInv, Planned, Traced, Gathered, Extracted, ExtractEvidence, workVars

\* An answer cites the evidence, or says that it is partial.
LEMMA ResearchInvAnswerIs ==
    ASSUME ResearchInv, pc = "answer", NEW claims, NEW incomplete \in BOOLEAN, NEW error,
           AnswerIs(claims, incomplete, error),
           (claims = {} /\ incomplete) \/ Grounded(claims)
    PROVE  ResearchInv'
  <1>1. /\ answer' = [claims |-> claims, citations |-> UNION claims]
        /\ partial' = (partial \/ incomplete) /\ pc' = "done"
        /\ UNCHANGED <<request, planner, found, read, session, candidates, artifacts, extra, evidence>>
    BY DEF AnswerIs, workVars
  <1>2. Origin' = Origin
    BY <1>1 DEF Origin
  <1>3. UNION claims \subseteq evidence /\ (UNION claims = {} => claims = {})
    BY DEF Grounded
  <1>4. claims = {} => incomplete
    BY DEF Grounded
  <1>5. answer'.citations = UNION answer'.claims /\ answer'.citations = UNION claims
    BY <1>1
  <1>6. partial' \in BOOLEAN /\ (incomplete => partial')
    BY <1>1, Zenon
  <1>7. /\ answer'.citations \subseteq evidence' /\ (answer'.citations = {} => partial')
    BY <1>1, <1>3, <1>4, <1>5, <1>6
  <1> QED
    BY <1>1, <1>2, <1>5, <1>6, <1>7 DEF ResearchInv, Planned, Traced, Gathered, Extracted

\* Every step keeps the invariant.
LEMMA ResearchInvStep == ResearchInv /\ [Next]_vars => ResearchInv'
  <1> SUFFICES ASSUME ResearchInv, [Next]_vars PROVE ResearchInv'
    OBVIOUS
  <1>0. /\ request \in Requests
        /\ pc \in {"constrain", "execute"} => IsPlan(plan)
    BY DEF ResearchInv, Planned
  <1>1. CASE ReadCapabilities
    <2>1. planner \in {"rules", "ai", "command"}
      BY DEF ResearchInv, Traced
    <2> QED
      BY <1>1, <2>1, ResearchInvPlanning DEF ReadCapabilities
  <1>2. ASSUME Fail, pc \in {"capabilities", "command", "constrain", "execute"} PROVE ResearchInv'
    BY <1>2, ResearchInvPlanning DEF Fail
  <1>3. CASE CapabilitiesFail \/ CommandFails \/ RejectPlan \/ ExecuteFails
    BY <1>2, <1>3 DEF CapabilitiesFail, CommandFails, RejectPlan, ExecuteFails
  <1>4. ASSUME NEW p, NEW next \in {"repair", "fallback", "constrain", "execute", "failed"},
               PlanIs(p, next), next \in {"constrain", "execute"} => IsPlan(p),
               pc \in {"rules", "fallback", "ai", "repair", "command", "constrain"}
        PROVE  ResearchInv'
    BY <1>4, ResearchInvPlanning DEF PlanIs
  <1>5. CASE PlanByRules
    BY <1>0, <1>4, <1>5, RulesPlanShape DEF PlanByRules
  <1>6. CASE AIPlan
    <2>1. PICK draft \in Drafts :
             PlanIs(draft, IF Validate(draft) THEN "constrain"
                           ELSE IF pc = "ai" THEN "repair" ELSE "fallback")
      BY <1>6 DEF AIPlan
    <2> DEFINE next == IF Validate(draft) THEN "constrain"
                       ELSE IF pc = "ai" THEN "repair" ELSE "fallback"
    <2>2. next \in {"repair", "fallback", "constrain"} /\ IsPlan(draft) /\ PlanIs(draft, next)
      BY <2>1, ResearchAssumption
    <2> HIDE DEF next
    <2> QED
      BY <1>4, <1>6, <2>2 DEF AIPlan
  <1>7. CASE AIPlanFails
    BY <1>4, <1>7 DEF AIPlanFails
  <1>8. CASE CommandPlan
    <2>1. PICK draft \in Drafts : PlanIs(draft, IF Validate(draft) THEN "constrain" ELSE "failed")
      BY <1>8 DEF CommandPlan
    <2> DEFINE next == IF Validate(draft) THEN "constrain" ELSE "failed"
    <2>2. next \in {"constrain", "failed"} /\ IsPlan(draft) /\ PlanIs(draft, next)
      BY <2>1, ResearchAssumption
    <2> HIDE DEF next
    <2> QED
      BY <1>4, <1>8, <2>2 DEF CommandPlan
  <1>9. CASE Constrain
    <2>1. pc = "constrain" /\ IsPlan(plan) /\ PlanIs(Constrained(plan), "execute")
      BY <1>0, <1>9 DEF Constrain
    <2>2. IsPlan(Constrained(plan))
      BY <1>0, <2>1, ConstrainedShape
    <2> QED
      BY <1>4, <2>1, <2>2
  <1>10. CASE RerankSkipped
    BY <1>10 DEF RerankSkipped, ResearchInv, Planned, Traced, Gathered, Extracted, Origin, workVars,
                 endVars
  <1>11. CASE RerankFails
    BY <1>11, ResearchInvRefused DEF RerankFails
  <1>12. CASE Answer
    <2>1. CASE AnswerIs({}, TRUE, FALSE)
      BY <1>12, <2>1, ResearchInvAnswerIs DEF Answer
    <2>2. CASE \E claims \in SUBSET (SUBSET Object) : Grounded(claims) /\ AnswerIs(claims, FALSE, FALSE)
      BY <1>12, <2>2, ResearchInvAnswerIs DEF Answer
    <2> QED
      BY <1>12, <2>1, <2>2 DEF Answer
  <1>13. CASE AnswerFails
    BY <1>13, ResearchInvAnswerIs DEF AnswerFails
  <1>14. CASE UNCHANGED vars
    BY <1>14 DEF vars, workVars, endVars, ResearchInv, Planned, Traced, Gathered, Extracted, Origin
  <1> QED
    BY <1>1, <1>3, <1>5, <1>6, <1>7, <1>8, <1>9, <1>10, <1>11, <1>12, <1>13, <1>14,
       ResearchInvExecute, ResearchInvReadSession, ResearchInvRerank, ResearchInvSupplement,
       ResearchInvExtract DEF Next

\* Whatever the model answers and whichever call fails, reranking neither
\* drops nor invents a candidate, what the plan read stays in the evidence,
\* and every citation leads to an artifact that was read.
THEOREM AnswerAlwaysTraceable == Spec => []AnswerTraceable
  <1>1. ResearchInv => AnswerTraceable
    <2> SUFFICES ASSUME ResearchInv, pc = "done" PROVE AnswerTraceable
      BY DEF AnswerTraceable
    <2>1. /\ IsInjective(candidates) /\ ToSet(candidates) = ToSet(Origin) /\ read \subseteq artifacts
          /\ extra \cap read = {} /\ evidence = artifacts \cap Textual
          /\ answer # None => /\ answer.citations = UNION answer.claims
                              /\ answer.citations \subseteq evidence
                              /\ answer.citations = {} => partial
      BY DEF ResearchInv, Traced, Gathered, Extracted
    <2>2. ToSet(Origin) = IF found = <<>> /\ session # None THEN ToSet(session.candidates)
                          ELSE ToSet(found)
      BY DEF Origin
    <2> QED
      BY <2>1, <2>2 DEF AnswerTraceable
  <1>2. Spec => []ResearchInv
    BY ResearchInvInit, ResearchInvStep, PTL DEF Spec
  <1> QED
    BY <1>1, <1>2, PTL

----------------------------------------------------------------------------
(* The depth-first search of constrainPlan. *)

\* The answers of a loop of visits after each of its steps.
Loop(visit, ids, marked, upTo) ==
    /\ upTo[0] = <<TRUE, marked>>
    /\ \A i \in 1 .. Len(ids) :
          upTo[i] = IF upTo[i - 1][1] THEN visit[<<ids[i], upTo[i - 1][2]>>]
                    ELSE upTo[i - 1]

\* They exist: each follows from the last.
LEMMA LoopExists ==
    ASSUME NEW visit, NEW ids, NEW marked, Len(ids) \in Nat
    PROVE  \E upTo : Loop(visit, ids, marked, upTo) /\ VisitEach(visit, ids, marked) = upTo[Len(ids)]
  <1> DEFINE Body(u, n) == [i \in 0 .. n |->
                    IF i = 0 THEN <<TRUE, marked>>
                    ELSE IF u[i - 1][1] THEN visit[<<ids[i], u[i - 1][2]>>]
                         ELSE u[i - 1]]
             T == {n \in Nat : \E u : u = Body(u, n)}
  <1>1. 0 \in T
    <2> DEFINE u == [i \in 0 .. 0 |-> <<TRUE, marked>>]
    <2>1. u = Body(u, 0)
      OBVIOUS
    <2> QED
      BY <2>1
  <1>2. ASSUME NEW n \in T PROVE n + 1 \in T
    <2>1. PICK u : u = Body(u, n)
      OBVIOUS
    <2> DEFINE next == IF u[n][1] THEN visit[<<ids[n + 1], u[n][2]>>] ELSE u[n]
               v == [i \in 0 .. n + 1 |-> IF i = n + 1 THEN next ELSE u[i]]
    <2>2. v[n + 1] = next /\ \A i \in 0 .. n : v[i] = u[i]
      OBVIOUS
    <2> HIDE DEF next
    <2>3. ASSUME NEW i \in 0 .. n + 1
          PROVE  v[i] = IF i = 0 THEN <<TRUE, marked>>
                        ELSE IF v[i - 1][1] THEN visit[<<ids[i], v[i - 1][2]>>]
                             ELSE v[i - 1]
      <3>1. CASE i = n + 1
        <4>1. v[i - 1] = u[n] /\ i - 1 = n /\ i # 0
          BY <2>2, <3>1
        <4> QED
          BY <2>2, <3>1, <4>1 DEF next
      <3>2. CASE i \in 0 .. n
        <4>1. v[i] = u[i] /\ (i # 0 => v[i - 1] = u[i - 1])
          BY <2>2, <3>2
        <4>2. u[i] = IF i = 0 THEN <<TRUE, marked>>
                     ELSE IF u[i - 1][1] THEN visit[<<ids[i], u[i - 1][2]>>]
                          ELSE u[i - 1]
          BY <2>1, <3>2
        <4> QED
          BY <4>1, <4>2
      <3> QED
        BY <3>1, <3>2
    <2>4. v = Body(v, n + 1)
      BY <2>3
    <2>5. \E x : x = Body(x, n + 1)
      <3> HIDE DEF v
      <3> WITNESS v
      <3> QED
        BY <2>4
    <2> HIDE DEF Body
    <2> QED
      BY <2>5
  <1>3. Len(ids) \in T
    <2>1. T \subseteq Nat
      BY DEF T
    <2> HIDE DEF T
    <2>2. T = Nat
      BY <1>1, <1>2, <2>1, Induction
    <2> QED
      BY <2>2
  <1>4. PICK u : u = Body(u, Len(ids))
    BY <1>3
  <1> DEFINE c == CHOOSE x : x = Body(x, Len(ids))
  <1>5. c = Body(c, Len(ids))
    BY <1>4
  <1>6. VisitEach(visit, ids, marked) = c[Len(ids)]
    BY DEF VisitEach
  <1> HIDE DEF c
  <1>7. Loop(visit, ids, marked, c)
    <2>1. c[0] = <<TRUE, marked>>
      <3>1. 0 \in 0 .. Len(ids)
        OBVIOUS
      <3>2. c[0] = Body(c, Len(ids))[0]
        BY <1>5
      <3>3. Body(c, Len(ids))[0] = <<TRUE, marked>>
        BY <3>1
      <3> QED
        BY <3>2, <3>3
    <2>2. ASSUME NEW i \in 1 .. Len(ids)
          PROVE  c[i] = IF c[i - 1][1] THEN visit[<<ids[i], c[i - 1][2]>>] ELSE c[i - 1]
      <3>1. i \in 0 .. Len(ids) /\ i # 0
        OBVIOUS
      <3> QED
        BY <1>5, <3>1
    <2> QED
      BY <2>1, <2>2 DEF Loop
  <1> QED
    BY <1>6, <1>7

\* Visits from a set of states that lead back into it, two searches that
\* answer alike there, and a visit that stops the loop.
Stays(visit, ids, states) == \A d \in ToSet(ids), s \in states : visit[<<d, s>>][2] \in states
Agree(u, v, ids, states) == \A d \in ToSet(ids), s \in states : u[<<d, s>>] = v[<<d, s>>]
Stops(visit, ids, states) == \E d \in ToSet(ids), s \in states : ~visit[<<d, s>>][1]

\* A loop leads where its visits lead, its answer depends on nothing but them,
\* and if it stops, one of them does.
LEMMA VisitEachSound ==
    ASSUME NEW u, NEW v, NEW ids, NEW states, NEW marked \in states, IsSequence(ids),
           Stays(u, ids, states), Agree(u, v, ids, states)
    PROVE  /\ VisitEach(u, ids, marked) = VisitEach(v, ids, marked)
           /\ VisitEach(u, ids, marked)[2] \in states
           /\ ~VisitEach(u, ids, marked)[1] => Stops(u, ids, states)
  <1>0. Len(ids) \in Nat /\ DOMAIN ids = 1 .. Len(ids)
    BY DEF IsSequence
  <1>1. PICK f : Loop(u, ids, marked, f) /\ VisitEach(u, ids, marked) = f[Len(ids)]
    BY <1>0, LoopExists
  <1>2. PICK g : Loop(v, ids, marked, g) /\ VisitEach(v, ids, marked) = g[Len(ids)]
    BY <1>0, LoopExists
  <1> DEFINE Some == Stops(u, ids, states)
             Good(n) == f[n] = g[n] /\ f[n][2] \in states /\ (~f[n][1] => Some)
             T == {n \in Nat : n <= Len(ids) => Good(n)}
  <1>3. 0 \in T
    <2>1. f[0] = <<TRUE, marked>> /\ g[0] = <<TRUE, marked>>
      BY <1>1, <1>2 DEF Loop
    <2>2. Good(0)
      BY <2>1
    <2> HIDE DEF Good
    <2> QED
      BY <2>2
  <1>4. ASSUME NEW n \in T PROVE n + 1 \in T
    <2> HIDE DEF Good
    <2> SUFFICES ASSUME n + 1 <= Len(ids) PROVE Good(n + 1)
      OBVIOUS
    <2>1. Good(n) /\ n + 1 \in 1 .. Len(ids) /\ (n + 1) - 1 = n
      BY <1>0
    <2> USE DEF Good
    <2> DEFINE d == ids[n + 1]
               s == f[n][2]
    <2>2. d \in ToSet(ids)
      BY <1>0, <2>1 DEF ToSet
    <2>3. /\ f[n + 1] = IF f[n][1] THEN u[<<d, s>>] ELSE f[n]
          /\ g[n + 1] = IF g[n][1] THEN v[<<d, g[n][2]>>] ELSE g[n]
      BY <1>1, <1>2, <2>1 DEF Loop
    <2>4. f[n] = g[n] /\ s \in states /\ (~f[n][1] => Some)
      BY <2>1
    <2>5. /\ u[<<d, s>>] = v[<<d, s>>] /\ u[<<d, s>>][2] \in states
          /\ ~u[<<d, s>>][1] => Some
      BY <2>2, <2>4 DEF Stays, Agree, Stops
    <2> HIDE DEF d, s, Some
    <2>6. CASE ~f[n][1]
      BY <2>1, <2>3, <2>4, <2>6
    <2>7. CASE f[n][1]
      <3>1. f[n + 1] = u[<<d, s>>] /\ g[n + 1] = v[<<d, s>>]
        BY <2>3, <2>4, <2>7 DEF s
      <3> QED
        BY <2>4, <2>5, <3>1
    <2> QED
      BY <2>6, <2>7
  <1>5. Good(Len(ids))
    <2> HIDE DEF Good
    <2>1. T \subseteq Nat
      OBVIOUS
    <2> HIDE DEF T
    <2>2. T = Nat
      BY <1>3, <1>4, <2>1, Induction
    <2>3. Len(ids) \in T
      BY <1>0, <2>2
    <2> QED
      BY <1>0, <2>3 DEF T
  <1> QED
    BY <1>1, <1>2, <1>5

\* The node of an id, whose dependencies are known.
LEMMA NodeOfSound ==
    ASSUME NEW p, IsPlan(p), KnownDependencies(p), NEW id \in Ids(p)
    PROVE  /\ \E i \in DOMAIN p.nodes : NodeOf(p, id) = p.nodes[i] /\ p.nodes[i].id = id
           /\ IsSequence(NodeOf(p, id).dependsOn) /\ ToSet(NodeOf(p, id).dependsOn) \subseteq Ids(p)
  <1>1. PICK i \in DOMAIN p.nodes : p.nodes[i].id = id
    BY DEF Ids
  <1> DEFINE j == CHOOSE k \in DOMAIN p.nodes : p.nodes[k].id = id
  <1>2. j \in DOMAIN p.nodes /\ p.nodes[j].id = id
    BY <1>1
  <1>3. NodeOf(p, id) = p.nodes[j]
    BY DEF NodeOf
  <1> HIDE DEF j
  <1> QED
    BY <1>2, <1>3 DEF IsPlan, KnownDependencies

\* The states of a search, and how many ids are not marked in one.
Visits(p) == Ids(p) \X SUBSET Ids(p)
Left(p, seen) == Cardinality(Ids(p) \ seen)

\* Marking an id leaves fewer.
LEMMA LeftLess ==
    ASSUME NEW p, IsPlan(p), NEW s \in SUBSET Ids(p), NEW t \in SUBSET Ids(p),
           NEW id \in Ids(p), id \notin s, s \cup {id} \subseteq t
    PROVE  Left(p, t) \in Nat /\ Left(p, s) \in Nat /\ Left(p, t) < Left(p, s)
  <1>1. IsFiniteSet(Ids(p) \ s) /\ IsFiniteSet(Ids(p) \ t)
    BY IdsFinite, FS_Subset
  <1>2. (Ids(p) \ t) \subseteq (Ids(p) \ s) /\ (Ids(p) \ t) # (Ids(p) \ s)
    OBVIOUS
  <1>3. Cardinality(Ids(p) \ t) <= Cardinality(Ids(p) \ s)
        /\ Cardinality(Ids(p) \ t) # Cardinality(Ids(p) \ s)
    BY <1>1, <1>2, FS_Subset
  <1> QED
    BY <1>1, <1>3, FS_CardinalityType DEF Left

\* How many are left is a number.
LEMMA LeftType ==
    ASSUME NEW p, IsPlan(p), NEW s \in SUBSET Ids(p)
    PROVE  Left(p, s) \in Nat /\ Left(p, s) <= Cardinality(Ids(p))
  BY IdsFinite, FS_Subset, FS_CardinalityType DEF Left

\* The states that mark no less than this one, and what a visit rests on when
\* it finds a search.
From(p, seen) == {s \in SUBSET Ids(p) : seen \subseteq s}
Searches(u, p, id, seen) ==
    \/ NodeOf(p, id).op = "search"
    \/ id \notin seen /\ Stops(u, NodeOf(p, id).dependsOn, From(p, seen \cup {id}))

\* Once an id is marked, two searches answer alike, and mark more.
Deeper(u, v, p, id, seen) ==
    id \notin seen =>
       \A d \in Ids(p), s \in From(p, seen \cup {id}) :
          u[<<d, s>>] = v[<<d, s>>] /\ u[<<d, s>>][2] \in From(p, s)

\* What a visit of one id answers depends on visits with more ids marked.
LEMMA VisitOneSound ==
    ASSUME NEW p, IsPlan(p), KnownDependencies(p), NEW id \in Ids(p), NEW seen \in SUBSET Ids(p),
           NEW u, NEW v,
           Deeper(u, v, p, id, seen)
    PROVE  /\ VisitOne(u, p, id, seen) = VisitOne(v, p, id, seen)
           /\ VisitOne(u, p, id, seen)[2] \in From(p, seen)
           /\ ~VisitOne(u, p, id, seen)[1] => Searches(u, p, id, seen)
  <1> USE DEF From, Searches
  <1>1. CASE id \in seen
    <2>1. VisitOne(u, p, id, seen) = <<TRUE, seen>> /\ VisitOne(v, p, id, seen) = <<TRUE, seen>>
      BY <1>1 DEF VisitOne
    <2>2. <<TRUE, seen>>[2] = seen /\ <<TRUE, seen>>[1] = TRUE
      OBVIOUS
    <2> QED
      BY <2>1, <2>2
  <1>2. CASE id \notin seen /\ NodeOf(p, id).op = "search"
    <2>1. /\ VisitOne(u, p, id, seen) = <<FALSE, seen \cup {id}>>
          /\ VisitOne(v, p, id, seen) = <<FALSE, seen \cup {id}>>
      BY <1>2 DEF VisitOne
    <2> QED
      BY <1>2, <2>1
  <1>3. CASE id \notin seen /\ NodeOf(p, id).op # "search"
    <2> DEFINE deps == NodeOf(p, id).dependsOn
               more == seen \cup {id}
    <2>1. /\ VisitOne(u, p, id, seen) = VisitEach(u, deps, more)
          /\ VisitOne(v, p, id, seen) = VisitEach(v, deps, more)
      BY <1>3 DEF VisitOne
    <2>2. IsSequence(deps) /\ ToSet(deps) \subseteq Ids(p) /\ more \in SUBSET Ids(p)
      BY NodeOfSound
    <2>3. Stays(u, deps, From(p, more))
      BY <1>3, <2>2 DEF Stays, Deeper
    <2>4. Agree(u, v, deps, From(p, more)) /\ more \in From(p, more)
      BY <1>3, <2>2 DEF Agree, Deeper
    <2>5. seen \subseteq more
      OBVIOUS
    <2> HIDE DEF deps, more
    <2>6. /\ VisitEach(u, deps, more) = VisitEach(v, deps, more)
          /\ VisitEach(u, deps, more)[2] \in From(p, more)
          /\ ~VisitEach(u, deps, more)[1] => Stops(u, deps, From(p, more))
      BY <2>2, <2>3, <2>4, VisitEachSound
    <2> QED
      BY <1>3, <2>1, <2>5, <2>6 DEF deps, more
  <1> QED
    BY <1>1, <1>2, <1>3

\* The recursion of the search is well founded: it has a solution.
LEMMA VisitExists ==
    ASSUME NEW p, IsPlan(p), KnownDependencies(p)
    PROVE  \E visit : visit = [x \in Visits(p) |-> VisitOne(visit, p, x[1], x[2])]
  <1> DEFINE Good(u, n) == \A x \in Visits(p) : Left(p, x[2]) < n =>
                              u[x] = VisitOne(u, p, x[1], x[2]) /\ u[x][2] \in From(p, x[2])
             T == {n \in Nat : \E u : Good(u, n)}
  <1>0. \A x \in Visits(p) : x[1] \in Ids(p) /\ x[2] \in SUBSET Ids(p) /\ Left(p, x[2]) \in Nat
    BY LeftType DEF Visits
  <1>1. 0 \in T
    <2>1. Good(<<>>, 0)
      BY <1>0
    <2> HIDE DEF Good
    <2> QED
      BY <2>1
  <1>2. ASSUME NEW n \in T PROVE n + 1 \in T
    <2>1. PICK u : Good(u, n)
      OBVIOUS
    <2>2. n \in Nat
      OBVIOUS
    <2> DEFINE v == [x \in Visits(p) |-> IF Left(p, x[2]) < n THEN u[x]
                                          ELSE VisitOne(u, p, x[1], x[2])]
    <2>3. ASSUME NEW x \in Visits(p), Left(p, x[2]) < n + 1
          PROVE  v[x] = VisitOne(v, p, x[1], x[2]) /\ v[x][2] \in From(p, x[2])
      <3> DEFINE id == x[1]
                 seen == x[2]
      <3>1. id \in Ids(p) /\ seen \in SUBSET Ids(p) /\ Left(p, seen) \in Nat
        BY <1>0
      <3>2. v[x] = VisitOne(u, p, id, seen)
        BY <2>1, <2>2
      <3>3. ASSUME id \notin seen, NEW d \in Ids(p), NEW s \in From(p, seen \cup {id})
            PROVE  u[<<d, s>>] = v[<<d, s>>] /\ u[<<d, s>>][2] \in From(p, s)
        <4>0. s \in SUBSET Ids(p) /\ seen \cup {id} \subseteq s
          BY DEF From
        <4>1. Left(p, s) < Left(p, seen) /\ Left(p, s) \in Nat
          BY <3>1, <3>3, <4>0, LeftLess
        <4>2. <<d, s>> \in Visits(p) /\ <<d, s>>[2] = s /\ Left(p, s) < n
          BY <2>2, <2>3, <3>1, <4>0, <4>1 DEF Visits
        <4> QED
          BY <2>1, <4>2
      <3>5. Deeper(u, v, p, id, seen)
        BY <3>3 DEF Deeper
      <3> HIDE DEF v, id, seen
      <3>4. /\ VisitOne(u, p, id, seen) = VisitOne(v, p, id, seen)
            /\ VisitOne(u, p, id, seen)[2] \in From(p, seen)
        BY <3>1, <3>5, VisitOneSound
      <3> QED
        BY <3>2, <3>4 DEF id, seen
    <2>4. Good(v, n + 1)
      BY <2>3
    <2> HIDE DEF Good, v
    <2> QED
      BY <2>2, <2>4
  <1> DEFINE most == Cardinality(Ids(p)) + 1
  <1>3. most \in T
    <2>1. T \subseteq Nat
      BY DEF T
    <2>2. most \in Nat
      BY IdsFinite
    <2> HIDE DEF T, most
    <2>3. T = Nat
      BY <1>1, <1>2, <2>1, Induction
    <2> QED
      BY <2>2, <2>3
  <1>4. PICK u : Good(u, most)
    BY <1>3
  <1> DEFINE visit == [x \in Visits(p) |-> VisitOne(u, p, x[1], x[2])]
  <1>5. ASSUME NEW x \in Visits(p)
        PROVE  u[x] = VisitOne(u, p, x[1], x[2]) /\ u[x][2] \in From(p, x[2])
    <2>1. Left(p, x[2]) < most
      BY <1>0, LeftType, IdsFinite
    <2> QED
      BY <1>4, <2>1
  <1>6. \A x \in Visits(p) : visit[x] = u[x]
    BY <1>5
  <1>7. ASSUME NEW x \in Visits(p)
        PROVE  VisitOne(u, p, x[1], x[2]) = VisitOne(visit, p, x[1], x[2])
    <2>1. ASSUME NEW d \in Ids(p), NEW s \in SUBSET Ids(p)
          PROVE  u[<<d, s>>] = visit[<<d, s>>] /\ u[<<d, s>>][2] \in From(p, s)
      <3>1. <<d, s>> \in Visits(p) /\ <<d, s>>[2] = s
        BY DEF Visits
      <3> QED
        BY <1>5, <1>6, <3>1
    <2> HIDE DEF visit
    <2>2. Deeper(u, visit, p, x[1], x[2])
      BY <2>1 DEF Deeper, From
    <2> QED
      BY <1>0, <2>2, VisitOneSound
  <1>8. visit = [x \in Visits(p) |-> VisitOne(visit, p, x[1], x[2])]
    BY <1>7
  <1> HIDE DEF visit
  <1> QED
    BY <1>8

\* A set of ids that holds the dependencies of its members.
Closed(p, set) == \A id \in set : ToSet(NodeOf(p, id).dependsOn) \subseteq set
HasSearch(p, set) == \E id \in set : NodeOf(p, id).op = "search"

\* A visit that finds a search starts below one.
LEMMA VisitSound ==
    ASSUME NEW p, IsPlan(p), KnownDependencies(p), NEW visit,
           visit = [x \in Visits(p) |-> VisitOne(visit, p, x[1], x[2])],
           NEW set \in SUBSET Ids(p), Closed(p, set)
    PROVE  \A x \in Visits(p) : /\ visit[x][2] \in From(p, x[2])
                                /\ x[1] \in set /\ ~visit[x][1] => HasSearch(p, set)
  <1> DEFINE Good(x) == /\ visit[x][2] \in From(p, x[2])
                        /\ x[1] \in set /\ ~visit[x][1] => HasSearch(p, set)
             T == {n \in Nat : \A x \in Visits(p) : Left(p, x[2]) < n => Good(x)}
  <1>0. \A x \in Visits(p) : x[1] \in Ids(p) /\ x[2] \in SUBSET Ids(p) /\ Left(p, x[2]) \in Nat
    BY LeftType DEF Visits
  <1> HIDE DEF Good
  <1>1. 0 \in T
    BY <1>0
  <1>2. ASSUME NEW n \in T PROVE n + 1 \in T
    <2>1. n \in Nat /\ \A x \in Visits(p) : Left(p, x[2]) < n => Good(x)
      OBVIOUS
    <2>2. ASSUME NEW x \in Visits(p), Left(p, x[2]) < n + 1
          PROVE  Good(x)
      <3> DEFINE id == x[1]
                 seen == x[2]
      <3>1. id \in Ids(p) /\ seen \in SUBSET Ids(p) /\ Left(p, seen) \in Nat
        BY <1>0
      <3>2. visit[x] = VisitOne(visit, p, id, seen)
        OBVIOUS
      <3>3. ASSUME id \notin seen, NEW d \in Ids(p), NEW s \in From(p, seen \cup {id})
            PROVE  Good(<<d, s>>) /\ <<d, s>>[1] = d /\ <<d, s>>[2] = s
        <4>0. s \in SUBSET Ids(p) /\ seen \cup {id} \subseteq s
          BY DEF From
        <4>1. Left(p, s) < Left(p, seen) /\ Left(p, s) \in Nat
          BY <3>1, <3>3, <4>0, LeftLess
        <4>2. <<d, s>> \in Visits(p) /\ <<d, s>>[2] = s /\ <<d, s>>[1] = d
          BY <4>0 DEF Visits
        <4>3. Left(p, s) < n
          BY <2>1, <2>2, <3>1, <4>1
        <4> QED
          BY <2>1, <4>2, <4>3
      <3> HIDE DEF id, seen
      <3>4. Deeper(visit, visit, p, id, seen)
        BY <3>3 DEF Deeper, Good
      <3>5. /\ visit[x][2] \in From(p, seen)
            /\ ~visit[x][1] => Searches(visit, p, id, seen)
        BY <3>1, <3>2, <3>4, VisitOneSound
      <3>6. ASSUME id \in set, Searches(visit, p, id, seen)
            PROVE  HasSearch(p, set)
        <4>1. CASE NodeOf(p, id).op = "search"
          BY <3>6, <4>1 DEF HasSearch
        <4>2. CASE /\ id \notin seen
                   /\ Stops(visit, NodeOf(p, id).dependsOn, From(p, seen \cup {id}))
          <5>1. PICK d \in ToSet(NodeOf(p, id).dependsOn), s \in From(p, seen \cup {id}) :
                   ~visit[<<d, s>>][1]
            BY <4>2 DEF Stops
          <5>2. d \in set /\ d \in Ids(p)
            BY <3>6, <5>1 DEF Closed
          <5>3. Good(<<d, s>>) /\ <<d, s>>[1] = d
            BY <3>3, <4>2, <5>1, <5>2
          <5> QED
            BY <5>1, <5>2, <5>3 DEF Good
        <4> QED
          BY <3>6, <4>1, <4>2 DEF Searches
      <3> QED
        BY <3>5, <3>6 DEF Good, id, seen
    <2> QED
      BY <2>1, <2>2
  <1> DEFINE most == Cardinality(Ids(p)) + 1
  <1>3. most \in T
    <2>1. T \subseteq Nat
      BY DEF T
    <2>2. most \in Nat
      BY IdsFinite
    <2> HIDE DEF T, most
    <2>3. T = Nat
      BY <1>1, <1>2, <2>1, Induction
    <2> QED
      BY <2>2, <2>3
  <1>4. ASSUME NEW x \in Visits(p) PROVE Good(x)
    <2>1. Left(p, x[2]) < most
      BY <1>0, LeftType, IdsFinite
    <2> QED
      BY <1>3, <2>1
  <1> QED
    BY <1>4 DEF Good

\* A read that constrainPlan admits is below a search, by some path.
LEMMA AncestorSound ==
    ASSUME NEW p, IsPlan(p), KnownDependencies(p), IsInjective(IdOrder(p)),
           NEW i \in DOMAIN p.nodes, hasRetrievalAncestor(p.nodes[i], p)
    PROVE  BelowSearch(p, p.nodes[i].id)
  <1> DEFINE n == p.nodes[i]
             Deps(x) == ToSet(NodeOf(p, x).dependsOn)
             IsUp(set) == ToSet(n.dependsOn) \subseteq set /\ Closed(p, set)
             up == {y \in Ids(p) : \A set \in SUBSET Ids(p) : IsUp(set) => y \in set}
  <1>1. n.id \in Ids(p) /\ NodeOf(p, n.id) = n
    <2>1. n.id \in Ids(p)
      BY DEF Ids
    <2>2. PICK j \in DOMAIN p.nodes : NodeOf(p, n.id) = p.nodes[j] /\ p.nodes[j].id = n.id
      BY <2>1, NodeOfSound
    <2>3. i = j
      BY <2>2 DEF IsInjective, IdOrder
    <2> QED
      BY <2>1, <2>2, <2>3
  <1>2. \A x \in Ids(p) : Deps(x) \subseteq Ids(p)
    BY NodeOfSound
  <1>3. ToSet(n.dependsOn) \subseteq up
    BY <1>1, <1>2
  <1>4. Closed(p, up)
    <2> SUFFICES ASSUME NEW x \in up, NEW d \in Deps(x) PROVE d \in up
      BY DEF Closed
    <2>1. d \in Ids(p)
      BY <1>2
    <2>2. ASSUME NEW set \in SUBSET Ids(p), IsUp(set) PROVE d \in set
      BY <2>2 DEF Closed
    <2> QED
      BY <2>1, <2>2
  <1>5. up \in SUBSET Ids(p)
    OBVIOUS
  <1>6. HasSearch(p, up)
    <2> DEFINE visit == CHOOSE f : f = [x \in Ids(p) \X SUBSET Ids(p) |-> VisitOne(f, p, x[1], x[2])]
    <2>1. visit = [x \in Visits(p) |-> VisitOne(visit, p, x[1], x[2])]
      BY VisitExists DEF Visits
    <2>2. ~VisitEach(visit, n.dependsOn, {})[1]
      BY DEF hasRetrievalAncestor
    <2> HIDE DEF visit, up, n
    <2>3. \A x \in Visits(p) : /\ visit[x][2] \in From(p, x[2])
                               /\ x[1] \in up /\ ~visit[x][1] => HasSearch(p, up)
      BY <1>4, <1>5, <2>1, VisitSound
    <2>4. IsSequence(n.dependsOn)
      BY <1>1, NodeOfSound
    <2>5. ASSUME NEW d \in ToSet(n.dependsOn), NEW s \in SUBSET Ids(p)
          PROVE  /\ visit[<<d, s>>][2] \in From(p, s)
                 /\ ~visit[<<d, s>>][1] => HasSearch(p, up)
      <3>1. d \in up /\ d \in Ids(p)
        BY <1>3, <1>5
      <3>2. <<d, s>> \in Visits(p) /\ <<d, s>>[1] = d /\ <<d, s>>[2] = s
        BY <3>1 DEF Visits
      <3> QED
        BY <2>3, <3>1, <3>2
    <2>6. /\ Stays(visit, n.dependsOn, SUBSET Ids(p))
          /\ Agree(visit, visit, n.dependsOn, SUBSET Ids(p))
      BY <2>5 DEF Stays, Agree, From
    <2>7. Stops(visit, n.dependsOn, SUBSET Ids(p))
      BY <2>2, <2>4, <2>6, VisitEachSound, {} \in SUBSET Ids(p)
    <2> QED
      BY <2>5, <2>7 DEF Stops
  <1>7. \A x \in up \cup {n.id} : Deps(x) \subseteq up
    BY <1>1, <1>3, <1>4 DEF Closed
  <1>8. ASSUME NEW low \in SUBSET up, \A x \in low \cup {n.id} : Deps(x) \subseteq low
        PROVE  low = up
    <2>1. IsUp(low) /\ low \in SUBSET Ids(p)
      BY <1>1, <1>5, <1>8 DEF Closed
    <2> QED
      BY <2>1
  <1> HIDE DEF up
  <1> QED
    BY <1>5, <1>6, <1>7, <1>8 DEF BelowSearch, HasSearch

\* A plan that may be confined: each id has one node, dependencies are known,
\* and the limits of a read are numbers.
Confinable(p) ==
    /\ IsPlan(p) /\ IsInjective(IdOrder(p)) /\ KnownDependencies(p)
    /\ \A i \in DOMAIN p.nodes :
          p.nodes[i].op = "map_fetch" =>
             Field(p.nodes[i], "top_k", 0) \in Int /\ Field(p.nodes[i], "max_items", 0) \in Int

\* Confining a plan leaves its graph alone.
LEMMA GraphKept ==
    ASSUME NEW p, Confinable(p), request \in Requests,
           NEW q, q = Constrained(p)
    PROVE  /\ DOMAIN q.nodes = DOMAIN p.nodes
           /\ \A i \in DOMAIN p.nodes : SameGraph(q.nodes[i], p.nodes[i]) /\ q.nodes[i].op = p.nodes[i].op
           /\ IsPlan(q) /\ IsInjective(IdOrder(q)) /\ KnownDependencies(q) /\ Ids(q) = Ids(p)
           /\ \A id \in Ids(p) : /\ NodeOf(q, id).op = NodeOf(p, id).op
                                 /\ NodeOf(q, id).dependsOn = NodeOf(p, id).dependsOn
  <1> DEFINE budget == clampBudget(p.budget, WithDefaults(request.budget))
  <1>1. /\ IsPlan(q) /\ DOMAIN q.nodes = DOMAIN p.nodes
        /\ \A i \in DOMAIN p.nodes :
              q.nodes[i] = CASE p.nodes[i].op = "search" -> ConstrainSearch(p.nodes[i])
                             [] p.nodes[i].op = "map_fetch" -> ConstrainFetch(p.nodes[i], budget)
                             [] OTHER -> p.nodes[i]
    BY ConstrainedShape DEF Confinable
  <1>2. budget \in [Dim -> Int]
    BY BudgetRange DEF Confinable, IsPlan
  <1> HIDE DEF budget
  <1>3. ASSUME NEW i \in DOMAIN p.nodes
        PROVE  SameGraph(q.nodes[i], p.nodes[i]) /\ q.nodes[i].op = p.nodes[i].op
    <2>1. IsNode(p.nodes[i])
      BY DEF Confinable, IsPlan, IsNode
    <2>2. /\ SameGraph(ConstrainSearch(p.nodes[i]), p.nodes[i])
          /\ ConstrainSearch(p.nodes[i]).op = p.nodes[i].op
          /\ SameGraph(ConstrainFetch(p.nodes[i], budget), p.nodes[i])
          /\ ConstrainFetch(p.nodes[i], budget).op = p.nodes[i].op
      BY <1>2, <2>1, ConstrainedNode
    <2>3. SameGraph(p.nodes[i], p.nodes[i])
      BY DEF SameGraph
    <2>4. CASE p.nodes[i].op = "search"
      BY <1>1, <2>2, <2>4
    <2>5. CASE p.nodes[i].op = "map_fetch"
      BY <1>1, <2>2, <2>5
    <2>6. CASE p.nodes[i].op \notin {"search", "map_fetch"}
      BY <1>1, <2>3, <2>6
    <2> QED
      BY <2>4, <2>5, <2>6
  <1>4. IsInjective(IdOrder(q)) /\ KnownDependencies(q) /\ Ids(q) = Ids(p)
    <2>1. \A i \in DOMAIN p.nodes : q.nodes[i].id = p.nodes[i].id /\ q.nodes[i].dependsOn = p.nodes[i].dependsOn
      BY <1>3 DEF SameGraph
    <2>2. Ids(q) = Ids(p)
      BY <1>1, <2>1 DEF Ids
    <2>3. IdOrder(q) = IdOrder(p)
      BY <1>1, <2>1 DEF IdOrder
    <2> QED
      BY <1>1, <2>1, <2>2, <2>3 DEF Confinable, KnownDependencies
  <1>5. ASSUME NEW id \in Ids(p)
        PROVE  /\ NodeOf(q, id).op = NodeOf(p, id).op
               /\ NodeOf(q, id).dependsOn = NodeOf(p, id).dependsOn
    <2>1. PICK i \in DOMAIN p.nodes : NodeOf(p, id) = p.nodes[i] /\ p.nodes[i].id = id
      BY NodeOfSound DEF Confinable
    <2>2. PICK j \in DOMAIN q.nodes : NodeOf(q, id) = q.nodes[j] /\ q.nodes[j].id = id
      BY <1>1, <1>4, NodeOfSound
    <2>3. p.nodes[j].id = id
      BY <1>1, <1>3, <2>2 DEF SameGraph
    <2>4. i = j
      BY <1>1, <2>1, <2>2, <2>3 DEF Confinable, IsInjective, IdOrder
    <2> QED
      BY <1>3, <2>1, <2>2, <2>4 DEF SameGraph
  <1> QED
    BY <1>1, <1>3, <1>4, <1>5

\* What constrainPlan admits and rewrites is within the caller's request.
LEMMA ConstrainSound ==
    ASSUME NEW p, Confinable(p), Authorized(p), request \in Requests
    PROVE  WithinRequest(Constrained(p)) /\ ReadsBelowSearch(Constrained(p))
  <1> DEFINE q == Constrained(p)
             budget == clampBudget(p.budget, WithDefaults(request.budget))
  <1>1. /\ DOMAIN q.nodes = DOMAIN p.nodes /\ q.budget = budget /\ q.identity = request.identity
        /\ \A i \in DOMAIN p.nodes :
              q.nodes[i] = CASE p.nodes[i].op = "search" -> ConstrainSearch(p.nodes[i])
                             [] p.nodes[i].op = "map_fetch" -> ConstrainFetch(p.nodes[i], budget)
                             [] OTHER -> p.nodes[i]
    BY ConstrainedShape DEF Confinable
  <1>2. /\ budget \in [Dim -> Int] /\ FetchTopK(budget) \in Nat \ {0}
        /\ \A d \in Dim : budget[d] \in 1 .. WithDefaults(request.budget)[d]
    <2>1. p.budget \in [Dim -> Int]
      BY DEF Confinable, IsPlan
    <2>2. budget \in [Dim -> Int]
      BY <2>1, BudgetRange
    <2> HIDE DEF budget
    <2>3. FetchTopK(budget) \in Nat \ {0}
      BY <2>2, BudgetRange
    <2> QED
      BY <2>1, <2>2, <2>3, BudgetRange DEF budget
  <1>3. /\ DOMAIN q.nodes = DOMAIN p.nodes /\ IsPlan(q) /\ Ids(q) = Ids(p)
        /\ \A i \in DOMAIN p.nodes : SameGraph(q.nodes[i], p.nodes[i]) /\ q.nodes[i].op = p.nodes[i].op
        /\ \A id \in Ids(p) : /\ NodeOf(q, id).op = NodeOf(p, id).op
                              /\ NodeOf(q, id).dependsOn = NodeOf(p, id).dependsOn
    BY GraphKept
  <1> HIDE DEF q, budget
  <1>4. ASSUME NEW i \in DOMAIN p.nodes PROVE q.nodes[i].op \in researchOps
    BY <1>3 DEF Authorized
  <1>5. ASSUME NEW i \in DOMAIN p.nodes, q.nodes[i].op = "search"
        PROVE  /\ q.nodes[i].request.query = Query /\ q.nodes[i].request.filters = request.filters
               /\ q.nodes[i].request.limit = SearchLimit
               /\ q.nodes[i].request.limit_per_source \in 1 .. SearchLimit
               /\ request.sources # {} =>
                     /\ q.nodes[i].request.sources # {}
                     /\ q.nodes[i].request.sources \cup DOMAIN q.nodes[i].request.source_queries
                           \subseteq request.sources \cup {Blank}
    <2> DEFINE n == p.nodes[i]
               sources == IF request.sources # {} /\ Named(n) = {} THEN request.sources ELSE Named(n)
               queries == Field(n, "source_queries", <<>>)
    <2>1. n.op = "search" /\ SearchAuthorized(n)
      BY <1>3, <1>5 DEF Authorized
    <2>2. q.nodes[i] = ConstrainSearch(n)
      BY <1>1, <2>1
    <2>3. IsNode(n)
      BY DEF Confinable, IsPlan, IsNode
    <2> HIDE DEF n
    <2>4. ConstrainSearch(n).request = Pinned(n)
      BY <1>2, <2>3, ConstrainedNode
    <2>5. request.sources # {} => sources # {}
      OBVIOUS
    <2>8. SearchLimit \in Nat \ {0} /\ LimitPerSource \in 1 .. SearchLimit
      BY ResearchAssumption DEF SearchLimit, LimitPerSource
    <2> HIDE DEF sources, queries
    <2>6. /\ Pinned(n).query = Query /\ Pinned(n).sources = sources
          /\ Pinned(n).source_queries = queries /\ Pinned(n).filters = request.filters
          /\ Pinned(n).limit = SearchLimit /\ Pinned(n).limit_per_source = LimitPerSource
      BY DEF Pinned, sources, queries
    <2>7. request.sources # {} => DOMAIN queries \subseteq request.sources
                                  /\ sources \subseteq request.sources \cup {Blank}
      BY <2>1, <2>6 DEF SearchAuthorized, Allowed, queries
    <2> QED
      BY <2>2, <2>4, <2>5, <2>6, <2>7, <2>8
  <1>6. ASSUME NEW i \in DOMAIN p.nodes, q.nodes[i].op = "map_fetch"
        PROVE  /\ request.deep /\ q.nodes[i].request.default_projection = "content"
               /\ {q.nodes[i].request.top_k, q.nodes[i].request.max_items, q.nodes[i].maxItems}
                     \subseteq 1 .. FetchTopK(budget)
               /\ BelowSearch(p, p.nodes[i].id)
    <2> DEFINE n == p.nodes[i]
               limit == FetchTopK(budget)
    <2>1. n.op = "map_fetch" /\ FetchAuthorized(n, p)
      BY <1>3, <1>6 DEF Authorized
    <2>2. q.nodes[i] = ConstrainFetch(n, budget)
      BY <1>1, <2>1
    <2>3. IsNode(n) /\ Field(n, "top_k", 0) \in Int /\ Field(n, "max_items", 0) \in Int
      BY <2>1 DEF Confinable, IsPlan, IsNode
    <2>4. BelowSearch(p, n.id)
      BY <2>1, AncestorSound DEF FetchAuthorized, Confinable
    <2> HIDE DEF n
    <2>5. /\ ConstrainFetch(n, budget).maxItems = Clamp(n.maxItems, limit)
          /\ ConstrainFetch(n, budget).request = PinnedFetch(n, limit)
      BY <1>2, <2>3, ConstrainedNode
    <2>6. /\ Clamp(n.maxItems, limit) \in 1 .. limit /\ Clamp(Field(n, "top_k", 0), limit) \in 1 .. limit
          /\ Clamp(Field(n, "max_items", 0), limit) \in 1 .. limit
      BY <1>2, <2>3, ClampRange DEF IsNode
    <2>7. /\ ConstrainFetch(n, budget).request.top_k = Clamp(Field(n, "top_k", 0), limit)
          /\ ConstrainFetch(n, budget).request.max_items = Clamp(Field(n, "max_items", 0), limit)
          /\ ConstrainFetch(n, budget).request.default_projection = "content"
      BY <2>5 DEF PinnedFetch
    <2> QED
      BY <2>1, <2>2, <2>4, <2>5, <2>6, <2>7 DEF FetchAuthorized, n
  <1>7. ASSUME NEW id \in Ids(p), BelowSearch(p, id) PROVE BelowSearch(q, id)
    <2>1. PICK up \in SUBSET Ids(p) :
             /\ \A x \in up \cup {id} : ToSet(NodeOf(p, x).dependsOn) \subseteq up
             /\ \A low \in SUBSET up :
                   (\A x \in low \cup {id} : ToSet(NodeOf(p, x).dependsOn) \subseteq low) => low = up
             /\ \E x \in up : NodeOf(p, x).op = "search"
      BY <1>7 DEF BelowSearch
    <2>2. \A x \in up \cup {id} : ToSet(NodeOf(q, x).dependsOn) \subseteq up
      BY <1>3, <2>1
    <2>3. ASSUME NEW low \in SUBSET up, \A x \in low \cup {id} : ToSet(NodeOf(q, x).dependsOn) \subseteq low
          PROVE  low = up
      <3>1. \A x \in low \cup {id} : ToSet(NodeOf(p, x).dependsOn) \subseteq low
        BY <1>3, <2>1, <2>3
      <3> QED
        BY <2>1, <3>1
    <2>4. \E x \in up : NodeOf(q, x).op = "search"
      BY <1>3, <2>1
    <2> QED
      BY <1>3, <2>1, <2>2, <2>3, <2>4 DEF BelowSearch
  <1>8. WithinRequest(q)
    BY <1>1, <1>2, <1>4, <1>5, <1>6 DEF WithinRequest
  <1>9. ReadsBelowSearch(q)
    <2> SUFFICES ASSUME NEW i \in DOMAIN p.nodes, q.nodes[i].op = "map_fetch"
                 PROVE  BelowSearch(q, q.nodes[i].id)
      BY <1>1 DEF ReadsBelowSearch
    <2>1. q.nodes[i].id = p.nodes[i].id /\ p.nodes[i].id \in Ids(p)
      BY <1>3 DEF SameGraph, Ids
    <2> QED
      BY <1>6, <1>7, <2>1
  <1> QED
    BY <1>8, <1>9 DEF q

\* The inductive invariant behind PlanWithinAuthority.
Confined ==
    /\ pc = "constrain" => Confinable(plan)
    /\ pc = "execute" => WithinRequest(plan) /\ ReadsBelowSearch(plan)
    /\ PlanWithinAuthority

\* The rules write a plan that may be confined.
LEMMA RulesPlanConfinable == request \in Requests => Confinable(RulesPlan)
  <1> SUFFICES ASSUME request \in Requests PROVE Confinable(RulesPlan)
    OBVIOUS
  <1> DEFINE sources == IF request.sources # {} THEN request.sources ELSE selectSources
             top == IF request.fetchTopK <= 0 THEN DefaultTopK ELSE request.fetchTopK
             search == [id |-> "search", op |-> "search", dependsOn |-> <<>>, maxItems |-> 0,
                        request |-> [query |-> Compact, sources |-> sources,
                                     source_queries |-> sourceQueries(sources),
                                     filters |-> request.filters, limit |-> SearchLimit,
                                     limit_per_source |-> PerSource]]
             fetch == [id |-> "fetch_top", op |-> "map_fetch", dependsOn |-> <<"search">>,
                       maxItems |-> top, request |-> [top_k |-> top, max_items |-> top]]
  <1>1. RulesPlan.nodes = IF request.deep THEN <<search, fetch>> ELSE <<search>>
    BY DEF RulesPlan
  <1>2. top \in Int
    BY ResearchAssumption
  <1>3. /\ search.id = "search" /\ search.op = "search" /\ ToSet(search.dependsOn) = {}
        /\ fetch.id = "fetch_top" /\ fetch.op = "map_fetch" /\ ToSet(fetch.dependsOn) = {"search"}
    BY DEF ToSet
  <1>4. Field(fetch, "top_k", 0) \in Int /\ Field(fetch, "max_items", 0) \in Int
    <2>1. fetch.request = [top_k |-> top, max_items |-> top]
      OBVIOUS
    <2> HIDE DEF fetch, top
    <2> QED
      BY <1>2, <2>1 DEF Field
  <1> HIDE DEF search, fetch
  <1>5. CASE request.deep
    <2>1. RulesPlan.nodes = <<search, fetch>> /\ DOMAIN RulesPlan.nodes = {1, 2}
          /\ RulesPlan.nodes[1] = search /\ RulesPlan.nodes[2] = fetch
      BY <1>1, <1>5
    <2>2. IsInjective(IdOrder(RulesPlan)) /\ Ids(RulesPlan) = {"search", "fetch_top"}
      BY <1>3, <2>1 DEF IsInjective, IdOrder, Ids
    <2>3. KnownDependencies(RulesPlan)
      BY <1>3, <2>1, <2>2 DEF KnownDependencies
    <2> QED
      BY <1>3, <1>4, <2>1, <2>2, <2>3, RulesPlanShape DEF Confinable
  <1>6. CASE ~request.deep
    <2>1. RulesPlan.nodes = <<search>> /\ DOMAIN RulesPlan.nodes = {1} /\ RulesPlan.nodes[1] = search
      BY <1>1, <1>6
    <2>2. IsInjective(IdOrder(RulesPlan)) /\ KnownDependencies(RulesPlan)
      BY <1>3, <2>1 DEF IsInjective, IdOrder, KnownDependencies
    <2> QED
      BY <1>3, <2>1, <2>2, RulesPlanShape DEF Confinable
  <1> QED
    BY <1>5, <1>6

\* So is every draft that passes validation.
LEMMA ValidConfinable == ASSUME NEW p, IsPlan(p), Validate(p) PROVE Confinable(p)
  <1>1. IsInjective(IdOrder(p)) /\ KnownDependencies(p)
    BY DEF Validate, validateSemantics, GraphValid
  <1>2. ASSUME NEW i \in DOMAIN p.nodes, p.nodes[i].op = "map_fetch"
        PROVE  Field(p.nodes[i], "top_k", 0) \in Int /\ Field(p.nodes[i], "max_items", 0) \in Int
    <2> DEFINE n == p.nodes[i]
    <2>1. validateNodeRequest(n)
      BY DEF Validate, validateSemantics
    <2> HIDE DEF n
    <2>2. n.op = "map_fetch" => \A f \in {"top_k", "max_items"} : Field(n, f, 0) \in 0 .. ItemCap
      BY <2>1 DEF validateNodeRequest
    <2> QED
      BY <1>2, <2>2, CapAssumption DEF n
  <1> QED
    BY <1>1, <1>2 DEF Confinable

\* The workflow starts without a plan.
LEMMA ConfinedInit == Init => Confined
  BY DEF Init, Confined, PlanWithinAuthority

\* A plan that is kept or handed on stays within the same request.
LEMMA HandedOn ==
    ASSUME request' = request, NEW p, WithinRequest(p), ReadsBelowSearch(p)
    PROVE  /\ executed' = p => PlanWithinAuthority'
           /\ plan' = p => WithinRequest(plan)' /\ ReadsBelowSearch(plan)'
  <1>1. ASSUME executed' = p PROVE PlanWithinAuthority'
    BY <1>1 DEF PlanWithinAuthority, WithinRequest, FetchTopK, SearchLimit
  <1>2. ASSUME plan' = p PROVE WithinRequest(plan)' /\ ReadsBelowSearch(plan)'
    BY <1>2 DEF WithinRequest, FetchTopK, SearchLimit
  <1> QED
    BY <1>1, <1>2

\* What was handed to the executor is not exchanged.
LEMMA AuthorityKept ==
    ASSUME request' = request, executed' = executed, PlanWithinAuthority
    PROVE  PlanWithinAuthority'
  <1>1. CASE executed = None
    BY <1>1 DEF PlanWithinAuthority
  <1>2. CASE executed # None
    BY <1>2, HandedOn DEF PlanWithinAuthority
  <1> QED
    BY <1>1, <1>2

\* Every step keeps the plan confined.
LEMMA ConfinedStep == ResearchInv /\ Confined /\ [Next]_vars => Confined'
  <1> SUFFICES ASSUME ResearchInv, Confined, [Next]_vars PROVE Confined'
    OBVIOUS
  <1>0. request \in Requests /\ PlanWithinAuthority /\ (pc = "constrain" => Confinable(plan))
    BY DEF ResearchInv, Confined
  <1>1. ASSUME request' = request, executed' = executed, pc' \notin {"constrain", "execute"}
        PROVE  Confined'
    BY <1>0, <1>1, AuthorityKept DEF Confined
  <1>2. CASE \/ CapabilitiesFail \/ AIPlanFails \/ CommandFails \/ RejectPlan
             \/ ExecuteFails \/ ReadSession \/ RerankSkipped \/ RerankFails \/ Supplement
             \/ ExtractEvidence \/ Answer \/ AnswerFails
    BY <1>1, <1>2 DEF CapabilitiesFail, AIPlanFails, CommandFails, RejectPlan, ExecuteFails,
         ReadSession, RerankSkipped, RerankFails, Supplement, ExtractEvidence, Answer,
         AnswerFails, Fail, PlanIs, RerankRefused, AnswerIs
  <1>3. CASE RerankAnswers
    <2>1. RerankRefused \/ \E order : RerankDone(order)
      BY <1>3 DEF RerankAnswers
    <2> QED
      BY <1>1, <2>1 DEF RerankRefused, RerankDone
  <1>4. CASE ReadCapabilities
    <2>1. planner \in {"rules", "ai", "command"}
      BY DEF ResearchInv, Traced
    <2> QED
      BY <1>1, <1>4, <2>1 DEF ReadCapabilities
  <1>5. ASSUME NEW p, PlanIs(p, "constrain"), Confinable(p) PROVE Confined'
    BY <1>0, <1>5, AuthorityKept DEF PlanIs, Confined
  <1>6. CASE PlanByRules
    BY <1>0, <1>5, <1>6, RulesPlanConfinable DEF PlanByRules
  <1>7. CASE AIPlan
    <2>1. PICK draft \in Drafts :
             PlanIs(draft, IF Validate(draft) THEN "constrain"
                           ELSE IF pc = "ai" THEN "repair" ELSE "fallback")
      BY <1>7 DEF AIPlan
    <2>2. CASE Validate(draft)
      <3>1. PlanIs(draft, "constrain") /\ Confinable(draft)
        BY <2>1, <2>2, ValidConfinable, ResearchAssumption
      <3> QED
        BY <1>5, <3>1
    <2>3. CASE ~Validate(draft)
      BY <1>1, <2>1, <2>3 DEF PlanIs
    <2> QED
      BY <2>2, <2>3
  <1>8. CASE CommandPlan
    <2>1. PICK draft \in Drafts : PlanIs(draft, IF Validate(draft) THEN "constrain" ELSE "failed")
      BY <1>8 DEF CommandPlan
    <2>2. CASE Validate(draft)
      <3>1. PlanIs(draft, "constrain") /\ Confinable(draft)
        BY <2>1, <2>2, ValidConfinable, ResearchAssumption
      <3> QED
        BY <1>5, <3>1
    <2>3. CASE ~Validate(draft)
      BY <1>1, <2>1, <2>3 DEF PlanIs
    <2> QED
      BY <2>2, <2>3
  <1>9. CASE Constrain
    <2>1. Confinable(plan) /\ Authorized(plan) /\ PlanIs(Constrained(plan), "execute")
      BY <1>0, <1>9 DEF Constrain
    <2>2. WithinRequest(Constrained(plan)) /\ ReadsBelowSearch(Constrained(plan))
      BY <1>0, <2>1, ConstrainSound
    <2>3. /\ plan' = Constrained(plan) /\ pc' = "execute"
          /\ request' = request /\ executed' = executed
      BY <2>1 DEF PlanIs
    <2>4. WithinRequest(plan)' /\ ReadsBelowSearch(plan)'
      BY <2>2, <2>3, HandedOn
    <2>5. PlanWithinAuthority'
      BY <1>0, <2>3, AuthorityKept
    <2> QED
      BY <2>3, <2>4, <2>5 DEF Confined
  <1>10. CASE Execute
    <2>1. /\ WithinRequest(plan) /\ ReadsBelowSearch(plan)
          /\ executed' = plan /\ request' = request /\ pc' = "session"
      BY <1>10 DEF Execute, Confined
    <2>2. PlanWithinAuthority'
      BY <2>1, HandedOn
    <2> QED
      BY <2>1, <2>2 DEF Confined
  <1>11. CASE UNCHANGED vars
    <2>1. request' = request /\ executed' = executed /\ plan' = plan /\ pc' = pc
      BY <1>11 DEF vars
    <2>2. PlanWithinAuthority'
      BY <1>0, <2>1, AuthorityKept
    <2>3. pc = "execute" => WithinRequest(plan)' /\ ReadsBelowSearch(plan)'
      BY <2>1, HandedOn DEF Confined
    <2> QED
      BY <1>0, <2>1, <2>2, <2>3 DEF Confined
  <1> QED
    BY <1>2, <1>3, <1>4, <1>6, <1>7, <1>8, <1>9, <1>10, <1>11 DEF Next

\* Whoever wrote the plan, what reaches the executor keeps the caller's
\* identity, query and filters, stays within the caller's sources, budget and
\* limits, and reads only below a search.  The texts a search sends to single
\* sources are not confined.
THEOREM PlanAlwaysWithinAuthority == Spec => []PlanWithinAuthority
  <1>1. Confined => PlanWithinAuthority
    BY DEF Confined
  <1>2. Spec => []ResearchInv
    BY ResearchInvInit, ResearchInvStep, PTL DEF Spec
  <1>3. Spec => []Confined
    BY <1>2, ConfinedInit, ConfinedStep, PTL DEF Spec
  <1> QED
    BY <1>1, <1>3, PTL

----------------------------------------------------------------------------
(* The depth-first searches for cycles. *)

\* A visit that answers TRUE stays among the states, gets its id done and
\* undoes none.
Keeps(u, ids, states, done) ==
    \A d \in ToSet(ids), s \in states :
       u[<<d, s>>][1] => /\ u[<<d, s>>][2] \in states /\ u[<<d, s>>][2] \in done[d]
                         /\ \A e \in ToSet(ids) : s \in done[e] => u[<<d, s>>][2] \in done[e]

\* Where a loop of visits leads while they all answer TRUE: each id that was
\* visited stays so.
LEMMA VisitEachKeeps ==
    ASSUME NEW u, NEW ids, NEW states, NEW marked \in states, NEW done, IsSequence(ids),
           Keeps(u, ids, states, done)
    PROVE  VisitEach(u, ids, marked)[1] =>
              /\ VisitEach(u, ids, marked)[2] \in states
              /\ \A e \in ToSet(ids) : VisitEach(u, ids, marked)[2] \in done[e]
  <1>0. Len(ids) \in Nat /\ DOMAIN ids = 1 .. Len(ids)
    BY DEF IsSequence
  <1>1. PICK f : Loop(u, ids, marked, f) /\ VisitEach(u, ids, marked) = f[Len(ids)]
    BY <1>0, LoopExists
  <1> DEFINE Good(n) == f[n][1] => f[n][2] \in states /\ \A j \in 1 .. n : f[n][2] \in done[ids[j]]
             T == {n \in Nat : n <= Len(ids) => Good(n)}
  <1>2. 0 \in T
    <2>1. f[0] = <<TRUE, marked>>
      BY <1>1 DEF Loop
    <2>2. Good(0)
      BY <2>1
    <2> HIDE DEF Good
    <2> QED
      BY <2>2
  <1>3. ASSUME NEW n \in T PROVE n + 1 \in T
    <2> HIDE DEF Good
    <2> SUFFICES ASSUME n + 1 <= Len(ids) PROVE Good(n + 1)
      OBVIOUS
    <2>1. Good(n) /\ n \in Nat /\ n + 1 \in 1 .. Len(ids) /\ (n + 1) - 1 = n
      BY <1>0
    <2> DEFINE d == ids[n + 1]
               s == f[n][2]
    <2>2. d \in ToSet(ids) /\ \A j \in 1 .. n : ids[j] \in ToSet(ids)
      BY <1>0, <2>1 DEF ToSet
    <2>3. f[n + 1] = IF f[n][1] THEN u[<<d, s>>] ELSE f[n]
      BY <1>1, <2>1 DEF Loop
    <2> HIDE DEF d
    <2>4. CASE ~f[n][1]
      BY <2>3, <2>4 DEF Good
    <2>5. CASE f[n][1]
      <3>1. f[n + 1] = u[<<d, s>>]
        BY <2>3, <2>5
      <3>2. s \in states /\ \A j \in 1 .. n : s \in done[ids[j]]
        BY <2>1, <2>5 DEF Good
      <3> HIDE DEF s
      <3>3. ASSUME u[<<d, s>>][1]
            PROVE  /\ u[<<d, s>>][2] \in states /\ u[<<d, s>>][2] \in done[d]
                   /\ \A j \in 1 .. n : u[<<d, s>>][2] \in done[ids[j]]
        BY <2>2, <3>2, <3>3 DEF Keeps
      <3>4. \A j \in 1 .. n + 1 : j \in 1 .. n \/ j = n + 1
        BY <2>1
      <3> QED
        BY <3>1, <3>3, <3>4 DEF Good, d
    <2> QED
      BY <2>4, <2>5
  <1>4. Good(Len(ids))
    <2> HIDE DEF Good
    <2>1. T \subseteq Nat
      OBVIOUS
    <2> HIDE DEF T
    <2>2. T = Nat
      BY <1>2, <1>3, <2>1, Induction
    <2>3. Len(ids) \in T
      BY <1>0, <2>2
    <2> QED
      BY <1>0, <2>3 DEF T
  <1>5. \A e \in ToSet(ids) : \E j \in 1 .. Len(ids) : e = ids[j]
    BY <1>0 DEF ToSet
  <1> QED
    BY <1>1, <1>4, <1>5

\* Colours of the nodes, those not entered, on the path, and done.
Colouring(p) == [Ids(p) -> Colour]
Fresh(p, c) == {x \in Ids(p) : c[x] = "unvisited"}
Path(p, c) == {x \in Ids(p) : c[x] = "visiting"}
Done(p, c) == {x \in Ids(p) : c[x] = "visited"}
Enter(c, id) == [c EXCEPT ![id] = "visiting"]
Leave(c, id) == [c EXCEPT ![id] = "visited"]
Searching(p) == Ids(p) \X Colouring(p)

\* The colourings in which no node is fresh that was not.
Later(p, c) == {t \in Colouring(p) : Fresh(p, t) \subseteq Fresh(p, c)}

\* How entering and leaving a node change the colours.
LEMMA ColourSteps ==
    ASSUME NEW p, NEW c \in Colouring(p), NEW id \in Ids(p)
    PROVE  /\ Enter(c, id) \in Colouring(p) /\ Leave(c, id) \in Colouring(p)
           /\ Fresh(p, Enter(c, id)) = Fresh(p, c) \ {id} /\ Fresh(p, Leave(c, id)) = Fresh(p, c) \ {id}
           /\ Path(p, Enter(c, id)) = Path(p, c) \cup {id} /\ Path(p, Leave(c, id)) = Path(p, c) \ {id}
           /\ Done(p, Enter(c, id)) = Done(p, c) \ {id} /\ Done(p, Leave(c, id)) = Done(p, c) \cup {id}
  BY DEF Colouring, Colour, Enter, Leave, Fresh, Path, Done

\* Every node has one of three colours.
LEMMA ColourCases ==
    ASSUME NEW p, NEW c \in Colouring(p)
    PROVE  /\ Fresh(p, c) \cap Path(p, c) = {} /\ Fresh(p, c) \cap Done(p, c) = {}
           /\ Path(p, c) \cap Done(p, c) = {} /\ Ids(p) = Fresh(p, c) \cup Path(p, c) \cup Done(p, c)
  BY DEF Colouring, Colour, Fresh, Path, Done

\* Entering a fresh node puts it on the path and changes nothing else.
LEMMA EnterFresh ==
    ASSUME NEW p, NEW c \in Colouring(p), NEW id \in Fresh(p, c)
    PROVE  /\ Enter(c, id) \in Colouring(p) /\ Path(p, Enter(c, id)) = Path(p, c) \cup {id}
           /\ Done(p, Enter(c, id)) = Done(p, c) /\ Fresh(p, Enter(c, id)) = Fresh(p, c) \ {id}
           /\ id \in Ids(p) /\ id \notin Path(p, c)
  BY DEF Colouring, Colour, Enter, Fresh, Path, Done

\* Leaving a node takes it from the path.
LEMMA LeaveStep ==
    ASSUME NEW p, NEW c \in Colouring(p), NEW id \in Ids(p)
    PROVE  /\ Leave(c, id) \in Colouring(p) /\ Path(p, Leave(c, id)) = Path(p, c) \ {id}
           /\ Done(p, Leave(c, id)) = Done(p, c) \cup {id}
  BY DEF Colouring, Colour, Leave, Path, Done

\* How many nodes are fresh.
LEMMA FreshCount ==
    ASSUME NEW p, IsPlan(p), NEW c \in Colouring(p)
    PROVE  /\ Cardinality(Fresh(p, c)) \in Nat
           /\ Cardinality(Fresh(p, c)) <= Cardinality(Ids(p))
           /\ \A id \in Fresh(p, c) : \A t \in Later(p, Enter(c, id)) :
                 Cardinality(Fresh(p, t)) < Cardinality(Fresh(p, c))
  <1>1. IsFiniteSet(Fresh(p, c)) /\ Cardinality(Fresh(p, c)) <= Cardinality(Ids(p))
    BY IdsFinite, FS_Subset DEF Fresh
  <1>2. ASSUME NEW id \in Fresh(p, c), NEW t \in Later(p, Enter(c, id))
        PROVE  Cardinality(Fresh(p, t)) < Cardinality(Fresh(p, c))
    <2>1. Fresh(p, t) \subseteq Fresh(p, c) /\ Fresh(p, t) # Fresh(p, c)
      BY ColourSteps DEF Later, Fresh
    <2>2. IsFiniteSet(Fresh(p, t)) /\ Cardinality(Fresh(p, t)) <= Cardinality(Fresh(p, c))
      BY <1>1, <2>1, FS_Subset
    <2>3. Cardinality(Fresh(p, t)) # Cardinality(Fresh(p, c))
      BY <1>1, <2>1, FS_Subset
    <2> QED
      BY <1>1, <2>2, <2>3, FS_CardinalityType
  <1> QED
    BY <1>1, <1>2, FS_CardinalityType

\* Once a node is entered, two searches answer alike, and enter more.
DeeperPath(u, v, p, id, c) ==
    id \in Fresh(p, c) =>
       \A d \in Ids(p), t \in Later(p, Enter(c, id)) :
          u[<<d, t>>] = v[<<d, t>>] /\ u[<<d, t>>][2] \in Later(p, t)

\* What a visit of one node answers depends on visits with fewer fresh nodes.
LEMMA VisitNodeSound ==
    ASSUME NEW p, IsPlan(p), KnownDependencies(p), NEW id \in Ids(p), NEW c \in Colouring(p),
           NEW u, NEW v, DeeperPath(u, v, p, id, c)
    PROVE  /\ VisitNode(u, p, id, c) = VisitNode(v, p, id, c)
           /\ VisitNode(u, p, id, c)[2] \in Later(p, c)
  <1>1. c[id] \in Colour
    BY DEF Colouring
  <1>2. CASE c[id] = "visiting"
    <2>1. VisitNode(u, p, id, c) = <<FALSE, c>> /\ VisitNode(v, p, id, c) = <<FALSE, c>>
      BY <1>2 DEF VisitNode
    <2> QED
      BY <2>1 DEF Later
  <1>3. CASE c[id] = "visited"
    <2>1. VisitNode(u, p, id, c) = <<TRUE, c>> /\ VisitNode(v, p, id, c) = <<TRUE, c>>
      BY <1>3 DEF VisitNode
    <2> QED
      BY <2>1 DEF Later
  <1>4. CASE c[id] = "unvisited"
    <2> DEFINE deps == NodeOf(p, id).dependsOn
               left(w) == VisitEach(w, deps, Enter(c, id))
    <2>1. /\ VisitNode(u, p, id, c) = <<left(u)[1], Leave(left(u)[2], id)>>
          /\ VisitNode(v, p, id, c) = <<left(v)[1], Leave(left(v)[2], id)>>
      BY <1>4 DEF VisitNode, Enter, Leave
    <2>2. IsSequence(deps) /\ ToSet(deps) \subseteq Ids(p) /\ id \in Fresh(p, c)
      BY <1>4, NodeOfSound DEF Fresh
    <2>3. Enter(c, id) \in Later(p, Enter(c, id))
      BY ColourSteps DEF Later
    <2>4. /\ Stays(u, deps, Later(p, Enter(c, id))) /\ Agree(u, v, deps, Later(p, Enter(c, id)))
      BY <2>2 DEF DeeperPath, Stays, Agree, Later
    <2> HIDE DEF deps
    <2>5. left(u) = left(v) /\ left(u)[2] \in Later(p, Enter(c, id))
      BY <2>2, <2>3, <2>4, VisitEachSound
    <2>6. Leave(left(u)[2], id) \in Later(p, c)
      <3> HIDE DEF left
      <3> QED
        BY <2>5, ColourSteps DEF Later
    <2> HIDE DEF left
    <2> QED
      BY <2>1, <2>5, <2>6
  <1> QED
    BY <1>1, <1>2, <1>3, <1>4 DEF Colour

\* The recursion of the search is well founded: it has a solution.
LEMMA SearchExists ==
    ASSUME NEW p, IsPlan(p), KnownDependencies(p)
    PROVE  \E visit : visit = [x \in Searching(p) |-> VisitNode(visit, p, x[1], x[2])]
  <1> DEFINE Count(x) == Cardinality(Fresh(p, x[2]))
             Good(u, n) == \A x \in Searching(p) : Count(x) < n =>
                              u[x] = VisitNode(u, p, x[1], x[2]) /\ u[x][2] \in Later(p, x[2])
             T == {n \in Nat : \E u : Good(u, n)}
  <1>0. \A x \in Searching(p) : /\ x[1] \in Ids(p) /\ x[2] \in Colouring(p)
                                /\ Count(x) \in Nat /\ Count(x) <= Cardinality(Ids(p))
    BY FreshCount DEF Searching
  <1>1. 0 \in T
    <2>1. Good(<<>>, 0)
      BY <1>0
    <2> HIDE DEF Good
    <2> QED
      BY <2>1
  <1>2. ASSUME NEW n \in T PROVE n + 1 \in T
    <2>1. PICK u : Good(u, n)
      OBVIOUS
    <2>2. n \in Nat
      OBVIOUS
    <2> DEFINE v == [x \in Searching(p) |-> IF Count(x) < n THEN u[x]
                                            ELSE VisitNode(u, p, x[1], x[2])]
    <2>3. ASSUME NEW x \in Searching(p), Count(x) < n + 1
          PROVE  v[x] = VisitNode(v, p, x[1], x[2]) /\ v[x][2] \in Later(p, x[2])
      <3> DEFINE id == x[1]
                 c == x[2]
      <3>1. id \in Ids(p) /\ c \in Colouring(p) /\ Cardinality(Fresh(p, c)) \in Nat
            /\ Cardinality(Fresh(p, c)) < n + 1
        BY <1>0, <2>3
      <3>2. v[x] = VisitNode(u, p, id, c)
        BY <2>1, <2>2
      <3>3. ASSUME id \in Fresh(p, c), NEW d \in Ids(p), NEW t \in Later(p, Enter(c, id))
            PROVE  u[<<d, t>>] = v[<<d, t>>] /\ u[<<d, t>>][2] \in Later(p, t)
        <4>1. t \in Colouring(p) /\ <<d, t>> \in Searching(p) /\ <<d, t>>[2] = t
          BY DEF Later, Searching
        <4>2. Cardinality(Fresh(p, t)) < Cardinality(Fresh(p, c)) /\ Cardinality(Fresh(p, t)) \in Nat
          BY <3>1, <3>3, <4>1, FreshCount
        <4>3. Count(<<d, t>>) < n
          BY <2>2, <3>1, <4>1, <4>2
        <4> QED
          BY <2>1, <4>1, <4>3
      <3> HIDE DEF v, id, c
      <3>5. DeeperPath(u, v, p, id, c)
        BY <3>3 DEF DeeperPath
      <3>4. /\ VisitNode(u, p, id, c) = VisitNode(v, p, id, c)
            /\ VisitNode(u, p, id, c)[2] \in Later(p, c)
        BY <3>1, <3>5, VisitNodeSound
      <3> QED
        BY <3>2, <3>4 DEF id, c
    <2>4. Good(v, n + 1)
      BY <2>3
    <2> HIDE DEF Good, v
    <2> QED
      BY <2>2, <2>4
  <1> DEFINE most == Cardinality(Ids(p)) + 1
  <1>3. most \in T
    <2>1. T \subseteq Nat
      BY DEF T
    <2>2. most \in Nat
      BY IdsFinite
    <2> HIDE DEF T, most
    <2>3. T = Nat
      BY <1>1, <1>2, <2>1, Induction
    <2> QED
      BY <2>2, <2>3
  <1>4. PICK u : Good(u, most)
    BY <1>3
  <1> DEFINE visit == [x \in Searching(p) |-> VisitNode(u, p, x[1], x[2])]
  <1>5. ASSUME NEW x \in Searching(p)
        PROVE  u[x] = VisitNode(u, p, x[1], x[2]) /\ u[x][2] \in Later(p, x[2])
    <2>1. Count(x) < most
      BY <1>0, IdsFinite
    <2> QED
      BY <1>4, <2>1
  <1>6. \A x \in Searching(p) : visit[x] = u[x]
    BY <1>5
  <1>7. ASSUME NEW x \in Searching(p)
        PROVE  VisitNode(u, p, x[1], x[2]) = VisitNode(visit, p, x[1], x[2])
    <2>1. ASSUME NEW d \in Ids(p), NEW t \in Colouring(p)
          PROVE  u[<<d, t>>] = visit[<<d, t>>] /\ u[<<d, t>>][2] \in Later(p, t)
      <3>1. <<d, t>> \in Searching(p) /\ <<d, t>>[2] = t
        BY DEF Searching
      <3> QED
        BY <1>5, <1>6, <3>1
    <2> HIDE DEF visit
    <2>2. DeeperPath(u, visit, p, x[1], x[2])
      BY <2>1 DEF DeeperPath, Later
    <2> QED
      BY <1>0, <2>2, VisitNodeSound
  <1>8. visit = [x \in Searching(p) |-> VisitNode(visit, p, x[1], x[2])]
    BY <1>7
  <1> HIDE DEF visit
  <1> QED
    BY <1>8

\* The nodes that are done can be ranked above what they depend on.
RankedDone(p, c) ==
    \E r \in [Done(p, c) -> 1 .. Cardinality(Done(p, c))] :
       \A x \in Done(p, c) : \A d \in ToSet(NodeOf(p, x).dependsOn) : d \in Done(p, c) /\ r[d] < r[x]

\* The colourings a search without a cycle may lead to.
Onward(p, c) ==
    {t \in Colouring(p) : Path(p, t) = Path(p, c) /\ Done(p, c) \subseteq Done(p, t) /\ RankedDone(p, t)}

\* Leaving a node whose dependencies are done ranks it above them.
LEMMA RankedLeave ==
    ASSUME NEW p, IsPlan(p), KnownDependencies(p), NEW c \in Colouring(p), NEW id \in Path(p, c),
           RankedDone(p, c), ToSet(NodeOf(p, id).dependsOn) \subseteq Done(p, c)
    PROVE  RankedDone(p, Leave(c, id))
  <1> DEFINE old == Done(p, c)
             new == Done(p, Leave(c, id))
             n == Cardinality(old)
  <1>1. id \in Ids(p) /\ id \notin old /\ new = old \cup {id}
    BY ColourSteps, ColourCases DEF Path
  <1>2. IsFiniteSet(old)
    BY IdsFinite, FS_Subset DEF Done
  <1>3. n \in Nat /\ Cardinality(new) = n + 1
    BY <1>1, <1>2, FS_AddElement, FS_CardinalityType
  <1>4. PICK r \in [old -> 1 .. n] :
           \A x \in old : \A d \in ToSet(NodeOf(p, x).dependsOn) : d \in old /\ r[d] < r[x]
    BY DEF RankedDone
  <1> DEFINE q == [x \in new |-> IF x = id THEN n + 1 ELSE r[x]]
  <1> HIDE DEF old, new, n
  <1>5. q \in [new -> 1 .. Cardinality(new)]
    BY <1>1, <1>3, <1>4
  <1>6. ASSUME NEW x \in new, NEW d \in ToSet(NodeOf(p, x).dependsOn)
        PROVE  d \in new /\ q[d] < q[x]
    <2>1. CASE x = id
      <3>1. d \in old /\ d # id /\ d \in new
        BY <1>1, <2>1 DEF old
      <3>2. q[d] = r[d] /\ q[x] = n + 1 /\ r[d] \in 1 .. n
        BY <1>4, <2>1, <3>1
      <3> QED
        BY <1>3, <3>1, <3>2
    <2>2. CASE x # id
      <3>1. x \in old /\ d \in old /\ r[d] < r[x] /\ d # id
        BY <1>1, <1>4, <2>2
      <3> QED
        BY <1>1, <2>2, <3>1
    <2> QED
      BY <2>1, <2>2
  <1> HIDE DEF q
  <1> QED
    BY <1>5, <1>6 DEF RankedDone, new

\* The solution of the recursion of the search.
IsSearch(visit, p) == visit = [x \in Searching(p) |-> VisitNode(visit, p, x[1], x[2])]

\* A visit of a fresh node is a loop over its dependencies.
LEMMA FreshVisit ==
    ASSUME NEW p, NEW visit, NEW id \in Ids(p), NEW c \in Colouring(p), id \in Fresh(p, c)
    PROVE  LET left == VisitEach(visit, NodeOf(p, id).dependsOn, Enter(c, id))
           IN VisitNode(visit, p, id, c) = <<left[1], Leave(left[2], id)>>
  BY DEF VisitNode, Enter, Leave, Fresh

\* A visit that meets no cycle leaves its node done and all that is done
\* ranked.
LEMMA SearchRanks ==
    ASSUME NEW p, IsPlan(p), KnownDependencies(p), NEW visit, IsSearch(visit, p)
    PROVE  \A x \in Searching(p) :
              RankedDone(p, x[2]) /\ visit[x][1] =>
                 visit[x][2] \in Onward(p, x[2]) /\ x[1] \in Done(p, visit[x][2])
  <1> DEFINE Count(x) == Cardinality(Fresh(p, x[2]))
             Good(x) == RankedDone(p, x[2]) /\ visit[x][1] =>
                           visit[x][2] \in Onward(p, x[2]) /\ x[1] \in Done(p, visit[x][2])
             T == {n \in Nat : \A x \in Searching(p) : Count(x) < n => Good(x)}
  <1>0. \A x \in Searching(p) : /\ x[1] \in Ids(p) /\ x[2] \in Colouring(p)
                                /\ Count(x) \in Nat /\ Count(x) <= Cardinality(Ids(p))
    BY FreshCount DEF Searching
  <1> HIDE DEF Good
  <1>1. 0 \in T
    BY <1>0
  <1>2. ASSUME NEW n \in T PROVE n + 1 \in T
    <2>1. n \in Nat /\ \A x \in Searching(p) : Count(x) < n => Good(x)
      OBVIOUS
    <2>2. ASSUME NEW x \in Searching(p), Count(x) < n + 1, RankedDone(p, x[2]), visit[x][1]
          PROVE  visit[x][2] \in Onward(p, x[2]) /\ x[1] \in Done(p, visit[x][2])
      <3> DEFINE id == x[1]
                 c == x[2]
                 deps == NodeOf(p, id).dependsOn
                 first == Enter(c, id)
                 left == VisitEach(visit, deps, first)
      <3>1. id \in Ids(p) /\ c \in Colouring(p) /\ Cardinality(Fresh(p, c)) \in Nat
            /\ Cardinality(Fresh(p, c)) < n + 1
        BY <1>0, <2>2
      <3>2. visit[x] = VisitNode(visit, p, id, c) /\ RankedDone(p, c)
        BY <2>2 DEF IsSearch
      <3> HIDE DEF id, c
      <3>3. CASE id \in Path(p, c)
        <4>1. visit[x] = <<FALSE, c>>
          BY <3>2, <3>3 DEF VisitNode, Path
        <4> QED
          BY <2>2, <4>1
      <3>4. CASE id \in Done(p, c)
        <4>1. visit[x] = <<TRUE, c>>
          BY <3>2, <3>4 DEF VisitNode, Done
        <4> QED
          BY <3>1, <3>2, <3>4, <4>1 DEF Onward, id, c
      <3>5. CASE id \in Fresh(p, c)
        <4>1. visit[x] = <<left[1], Leave(left[2], id)>>
          BY <3>1, <3>2, <3>5, FreshVisit
        <4>2. IsSequence(deps) /\ ToSet(deps) \subseteq Ids(p)
          BY <3>1, NodeOfSound
        <4>3. /\ first \in Colouring(p) /\ Path(p, first) = Path(p, c) \cup {id}
              /\ Done(p, first) = Done(p, c) /\ Fresh(p, first) = Fresh(p, c) \ {id}
          BY <3>1, <3>5, EnterFresh
        <4>4. RankedDone(p, first)
          BY <3>2, <4>3 DEF RankedDone
        <4> DEFINE states == Onward(p, first)
                   done == [d \in Ids(p) |-> {t \in Colouring(p) : d \in Done(p, t)}]
        <4>5. first \in states
          BY <4>3, <4>4 DEF Onward
        <4>6. ASSUME NEW d \in ToSet(deps), NEW t \in states, visit[<<d, t>>][1]
              PROVE  /\ visit[<<d, t>>][2] \in states /\ d \in Done(p, visit[<<d, t>>][2])
                     /\ Done(p, t) \subseteq Done(p, visit[<<d, t>>][2])
          <5>1. t \in Colouring(p) /\ RankedDone(p, t) /\ d \in Ids(p)
            BY <4>2 DEF Onward
          <5>2. <<d, t>> \in Searching(p) /\ <<d, t>>[2] = t /\ <<d, t>>[1] = d
            BY <5>1 DEF Searching
          <5>3. Fresh(p, t) \subseteq Fresh(p, first)
            <6>1. Path(p, t) = Path(p, first) /\ Done(p, first) \subseteq Done(p, t)
              BY DEF Onward
            <6> QED
              BY <4>3, <5>1, <6>1, ColourCases
          <5>4. t \in Later(p, first)
            BY <5>1, <5>3 DEF Later
          <5>5. Cardinality(Fresh(p, t)) < Cardinality(Fresh(p, c)) /\ Cardinality(Fresh(p, t)) \in Nat
            BY <3>1, <3>5, <5>1, <5>4, FreshCount
          <5>6. Good(<<d, t>>)
            BY <2>1, <3>1, <5>2, <5>5
          <5>7. visit[<<d, t>>][2] \in Onward(p, t) /\ d \in Done(p, visit[<<d, t>>][2])
            BY <4>6, <5>1, <5>2, <5>6 DEF Good
          <5> QED
            BY <5>7 DEF Onward
        <4>7. \A d \in ToSet(deps), t \in states :
                 visit[<<d, t>>][1] =>
                    /\ visit[<<d, t>>][2] \in states /\ visit[<<d, t>>][2] \in done[d]
                    /\ \A e \in ToSet(deps) : t \in done[e] => visit[<<d, t>>][2] \in done[e]
          BY <4>2, <4>6 DEF Onward
        <4>8. left[1]
          BY <2>2, <4>1
        <4> HIDE DEF states, done, deps, first
        <4>14. Keeps(visit, deps, states, done)
          BY <4>7 DEF Keeps
        <4>9. left[2] \in states /\ \A e \in ToSet(deps) : left[2] \in done[e]
          BY <4>2, <4>5, <4>8, <4>14, VisitEachKeeps
        <4> HIDE DEF left
        <4>10. /\ left[2] \in Colouring(p) /\ Path(p, left[2]) = Path(p, c) \cup {id}
               /\ Done(p, c) \subseteq Done(p, left[2]) /\ RankedDone(p, left[2])
               /\ ToSet(deps) \subseteq Done(p, left[2])
          BY <4>2, <4>3, <4>9 DEF Onward, states, done
        <4>11. RankedDone(p, Leave(left[2], id))
          BY <4>10, RankedLeave DEF deps
        <4>12. /\ Leave(left[2], id) \in Colouring(p)
               /\ Path(p, Leave(left[2], id)) = Path(p, c)
               /\ Done(p, Leave(left[2], id)) = Done(p, left[2]) \cup {id}
          <5>1. id \notin Path(p, c)
            BY <3>1, <3>5, EnterFresh
          <5>2. left[2] \in Colouring(p) /\ id \in Ids(p)
            BY <3>1, <4>10
          <5>3. /\ Leave(left[2], id) \in Colouring(p)
                /\ Path(p, Leave(left[2], id)) = Path(p, left[2]) \ {id}
                /\ Done(p, Leave(left[2], id)) = Done(p, left[2]) \cup {id}
            BY <5>2, LeaveStep
          <5>4. Path(p, left[2]) \ {id} = Path(p, c)
            BY <5>1, <4>10
          <5> QED
            BY <5>3, <5>4
        <4>13. visit[x][2] = Leave(left[2], id)
          BY <4>1
        <4> QED
          BY <4>10, <4>11, <4>12, <4>13 DEF Onward, id, c
      <3> QED
        BY <3>1, <3>3, <3>4, <3>5, ColourCases
    <2> QED
      BY <2>1, <2>2 DEF Good
  <1> DEFINE most == Cardinality(Ids(p)) + 1
  <1>3. most \in T
    <2>1. T \subseteq Nat
      BY DEF T
    <2>2. most \in Nat
      BY IdsFinite
    <2> HIDE DEF T, most
    <2>3. T = Nat
      BY <1>1, <1>2, <2>1, Induction
    <2> QED
      BY <2>2, <2>3
  <1>4. ASSUME NEW x \in Searching(p) PROVE Good(x)
    <2>1. Count(x) < most
      BY <1>0, IdsFinite
    <2> QED
      BY <1>3, <2>1
  <1> QED
    BY <1>4 DEF Good

\* Every dependency ranks below its dependent.
IsRank(r, p) ==
    /\ r \in [Ids(p) -> Nat]
    /\ \A x \in Ids(p) : \A d \in ToSet(NodeOf(p, x).dependsOn) : r[d] < r[x]

\* In a graph that can be ranked no search meets a cycle.
LEMMA SearchCompletes ==
    ASSUME NEW p, IsPlan(p), KnownDependencies(p), NEW visit, IsSearch(visit, p),
           NEW r, IsRank(r, p)
    PROVE  \A x \in Searching(p) :
              (\A y \in Path(p, x[2]) : r[x[1]] < r[y]) =>
                 /\ visit[x][1] /\ visit[x][2] \in Colouring(p)
                 /\ Path(p, visit[x][2]) = Path(p, x[2])
  <1> DEFINE Good(x) == (\A y \in Path(p, x[2]) : r[x[1]] < r[y]) =>
                           /\ visit[x][1] /\ visit[x][2] \in Colouring(p)
                           /\ Path(p, visit[x][2]) = Path(p, x[2])
             T == {n \in Nat : \A x \in Searching(p) : r[x[1]] < n => Good(x)}
  <1>0. \A x \in Searching(p) : x[1] \in Ids(p) /\ x[2] \in Colouring(p) /\ r[x[1]] \in Nat
    BY DEF Searching, IsRank
  <1> HIDE DEF Good
  <1>1. 0 \in T
    BY <1>0
  <1>2. ASSUME NEW n \in T PROVE n + 1 \in T
    <2>1. n \in Nat /\ \A x \in Searching(p) : r[x[1]] < n => Good(x)
      OBVIOUS
    <2>2. ASSUME NEW x \in Searching(p), r[x[1]] < n + 1, \A y \in Path(p, x[2]) : r[x[1]] < r[y]
          PROVE  /\ visit[x][1] /\ visit[x][2] \in Colouring(p)
                 /\ Path(p, visit[x][2]) = Path(p, x[2])
      <3> DEFINE id == x[1]
                 c == x[2]
                 deps == NodeOf(p, id).dependsOn
                 first == Enter(c, id)
                 left == VisitEach(visit, deps, first)
      <3>1. id \in Ids(p) /\ c \in Colouring(p) /\ r[id] \in Nat /\ r[id] < n + 1
            /\ \A y \in Path(p, c) : r[id] < r[y]
        BY <1>0, <2>2
      <3>2. visit[x] = VisitNode(visit, p, id, c)
        BY DEF IsSearch
      <3> HIDE DEF id, c
      <3>3. CASE id \in Path(p, c)
        BY <3>1, <3>3
      <3>4. CASE id \in Done(p, c)
        <4>1. visit[x] = <<TRUE, c>>
          BY <3>2, <3>4 DEF VisitNode, Done
        <4> QED
          BY <3>1, <4>1 DEF c
      <3>5. CASE id \in Fresh(p, c)
        <4>1. visit[x] = <<left[1], Leave(left[2], id)>>
          BY <3>1, <3>2, <3>5, FreshVisit
        <4>2. IsSequence(deps) /\ ToSet(deps) \subseteq Ids(p)
          BY <3>1, NodeOfSound
        <4>3. first \in Colouring(p) /\ Path(p, first) = Path(p, c) \cup {id}
          BY <3>1, ColourSteps
        <4> DEFINE states == {t \in Colouring(p) : Path(p, t) = Path(p, first)}
        <4>4. ASSUME NEW d \in ToSet(deps), NEW t \in states
              PROVE  visit[<<d, t>>][1] /\ visit[<<d, t>>][2] \in states
          <5>1. <<d, t>> \in Searching(p) /\ <<d, t>>[2] = t /\ <<d, t>>[1] = d
            BY <4>2 DEF Searching
          <5>2. r[d] < r[id] /\ r[d] \in Nat
            BY <3>1, <4>2 DEF IsRank
          <5>3. \A y \in Path(p, t) : r[d] < r[y]
            <6> SUFFICES ASSUME NEW y \in Path(p, c) \cup {id} PROVE r[d] < r[y]
              BY <4>3
            <6>1. r[y] \in Nat /\ r[id] <= r[y]
              BY <3>1 DEF IsRank, Path
            <6> QED
              BY <3>1, <5>2, <6>1
          <5>4. Good(<<d, t>>)
            BY <2>1, <3>1, <5>1, <5>2
          <5> QED
            BY <5>1, <5>3, <5>4 DEF Good
        <4> HIDE DEF deps
        <4>5. Stays(visit, deps, states) /\ Agree(visit, visit, deps, states)
          BY <4>4 DEF Stays, Agree
        <4>6. ~Stops(visit, deps, states)
          BY <4>4 DEF Stops
        <4>7. first \in states
          BY <4>3
        <4> HIDE DEF states, first
        <4>8. left[1] /\ left[2] \in states
          BY <4>2, <4>5, <4>6, <4>7, VisitEachSound
        <4> HIDE DEF left
        <4>9. left[2] \in Colouring(p) /\ Path(p, left[2]) = Path(p, c) \cup {id}
          BY <4>3, <4>8 DEF states
        <4>10. Leave(left[2], id) \in Colouring(p) /\ Path(p, Leave(left[2], id)) = Path(p, c)
          <5>1. id \notin Path(p, c)
            BY <3>1, <3>5, EnterFresh
          <5>2. left[2] \in Colouring(p) /\ id \in Ids(p)
            BY <3>1, <4>9
          <5>3. /\ Leave(left[2], id) \in Colouring(p)
                /\ Path(p, Leave(left[2], id)) = Path(p, left[2]) \ {id}
                /\ Done(p, Leave(left[2], id)) = Done(p, left[2]) \cup {id}
            BY <5>2, LeaveStep
          <5>4. Path(p, left[2]) \ {id} = Path(p, c)
            BY <5>1, <4>9
          <5> QED
            BY <5>3, <5>4
        <4>11. visit[x][1] = left[1] /\ visit[x][2] = Leave(left[2], id)
          BY <4>1
        <4> QED
          BY <4>8, <4>10, <4>11 DEF c
      <3> QED
        BY <3>1, <3>3, <3>4, <3>5, ColourCases
    <2>3. ASSUME NEW x \in Searching(p), r[x[1]] < n + 1 PROVE Good(x)
      BY <2>2, <2>3 DEF Good
    <2> QED
      BY <2>1, <2>3
  <1>3. ASSUME NEW x \in Searching(p) PROVE Good(x)
    <2> DEFINE most == r[x[1]] + 1
    <2>1. most \in Nat /\ r[x[1]] < most
      BY <1>0
    <2>2. T \subseteq Nat
      BY DEF T
    <2> HIDE DEF T, most
    <2>3. T = Nat
      BY <1>1, <1>2, <2>2, Induction
    <2>4. most \in T
      BY <2>1, <2>3
    <2> QED
      BY <2>1, <2>4 DEF T
  <1> QED
    BY <1>3 DEF Good
\* A search that meets no cycle from any node ranks them all.
LEMMA SearchedRanked ==
    ASSUME NEW p, IsPlan(p), KnownDependencies(p), NEW order, IsSequence(order),
           ToSet(order) = Ids(p), NoCycle(p, order)
    PROVE  \E r \in [Ids(p) -> 1 .. Cardinality(Ids(p))] :
              \A x \in Ids(p) : \A d \in ToSet(NodeOf(p, x).dependsOn) : r[d] < r[x]
  <1> DEFINE visit == CHOOSE f : f = [x \in Ids(p) \X [Ids(p) -> Colour] |-> VisitNode(f, p, x[1], x[2])]
             start == [id \in Ids(p) |-> "unvisited"]
             left == VisitEach(visit, order, start)
             states == Onward(p, start)
             done == [d \in Ids(p) |-> {t \in Colouring(p) : d \in Done(p, t)}]
  <1>1. left[1]
    BY DEF NoCycle
  <1>2. IsSearch(visit, p)
    <2>1. \E f : f = [x \in Ids(p) \X [Ids(p) -> Colour] |-> VisitNode(f, p, x[1], x[2])]
      BY SearchExists DEF Searching, Colouring
    <2>2. visit = [x \in Ids(p) \X [Ids(p) -> Colour] |-> VisitNode(visit, p, x[1], x[2])]
      BY <2>1
    <2> HIDE DEF visit
    <2> QED
      BY <2>2 DEF IsSearch, Searching, Colouring
  <1> HIDE DEF visit
  <1>3. start \in Colouring(p) /\ Path(p, start) = {} /\ Done(p, start) = {}
    BY DEF Colouring, Colour, Path, Done
  <1>4. RankedDone(p, start)
    <2>1. [x \in {} |-> 1] \in [Done(p, start) -> 1 .. Cardinality(Done(p, start))]
      BY <1>3
    <2> QED
      BY <1>3, <2>1 DEF RankedDone
  <1>5. start \in states
    BY <1>3, <1>4 DEF Onward
  <1> HIDE DEF start
  <1>6. ASSUME NEW d \in ToSet(order), NEW t \in states, visit[<<d, t>>][1]
        PROVE  /\ visit[<<d, t>>][2] \in states /\ d \in Done(p, visit[<<d, t>>][2])
               /\ Done(p, t) \subseteq Done(p, visit[<<d, t>>][2])
    <2>1. t \in Colouring(p) /\ RankedDone(p, t) /\ d \in Ids(p)
      BY DEF Onward
    <2>2. <<d, t>> \in Searching(p) /\ <<d, t>>[2] = t /\ <<d, t>>[1] = d
      BY <2>1 DEF Searching
    <2>3. visit[<<d, t>>][2] \in Onward(p, t) /\ d \in Done(p, visit[<<d, t>>][2])
      BY <1>2, <1>6, <2>1, <2>2, SearchRanks
    <2> QED
      BY <2>3 DEF Onward
  <1>7. Keeps(visit, order, states, done)
    <2>1. \A t \in states : t \in Colouring(p)
      BY DEF Onward
    <2> QED
      BY <1>6, <2>1 DEF Keeps
  <1> HIDE DEF states, done
  <1>8. left[2] \in states /\ \A e \in ToSet(order) : left[2] \in done[e]
    BY <1>1, <1>5, <1>7, VisitEachKeeps
  <1> HIDE DEF left
  <1>9. RankedDone(p, left[2]) /\ Done(p, left[2]) = Ids(p)
    BY <1>8 DEF states, done, Onward, Done
  <1> QED
    BY <1>9 DEF RankedDone

\* In a graph that can be ranked every order of the roots is accepted.
LEMMA RankedAccepted ==
    ASSUME NEW p, IsPlan(p), KnownDependencies(p), NEW r, IsRank(r, p), NEW order,
           IsSequence(order), ToSet(order) \subseteq Ids(p)
    PROVE  NoCycle(p, order)
  <1> DEFINE visit == CHOOSE f : f = [x \in Ids(p) \X [Ids(p) -> Colour] |-> VisitNode(f, p, x[1], x[2])]
             start == [id \in Ids(p) |-> "unvisited"]
             left == VisitEach(visit, order, start)
             states == {t \in Colouring(p) : Path(p, t) = {}}
  <1>2. IsSearch(visit, p)
    <2>1. \E f : f = [x \in Ids(p) \X [Ids(p) -> Colour] |-> VisitNode(f, p, x[1], x[2])]
      BY SearchExists DEF Searching, Colouring
    <2>2. visit = [x \in Ids(p) \X [Ids(p) -> Colour] |-> VisitNode(visit, p, x[1], x[2])]
      BY <2>1
    <2> HIDE DEF visit
    <2> QED
      BY <2>2 DEF IsSearch, Searching, Colouring
  <1>1. NoCycle(p, order) = left[1]
    BY DEF NoCycle
  <1> HIDE DEF visit
  <1>3. start \in states
    BY DEF Colouring, Colour, Path
  <1> HIDE DEF start
  <1>4. ASSUME NEW d \in ToSet(order), NEW t \in states
        PROVE  visit[<<d, t>>][1] /\ visit[<<d, t>>][2] \in states
    <2>1. <<d, t>> \in Searching(p) /\ <<d, t>>[2] = t /\ Path(p, t) = {}
      BY DEF Searching
    <2> QED
      BY <1>2, <2>1, SearchCompletes
  <1>5. Stays(visit, order, states) /\ Agree(visit, visit, order, states)
    BY <1>4 DEF Stays, Agree
  <1>6. ~Stops(visit, order, states)
    BY <1>4 DEF Stops
  <1> HIDE DEF states
  <1>7. left[1]
    <2>1. ~left[1] => Stops(visit, order, states)
      BY <1>3, <1>5, VisitEachSound
    <2> QED
      BY <1>6, <2>1
  <1> QED
    BY <1>1, <1>7

\* Ids are distinct exactly when there are as many as nodes.
LEMMA DistinctIds ==
    ASSUME NEW p, IsPlan(p)
    PROVE  IsInjective(IdOrder(p)) <=> Cardinality(Ids(p)) = Len(p.nodes)
  <1>1. Len(p.nodes) \in Nat /\ DOMAIN p.nodes = 1 .. Len(p.nodes)
    BY DEF IsPlan, IsSequence
  <1>2. IsFiniteSet(1 .. Len(p.nodes)) /\ Cardinality(1 .. Len(p.nodes)) = Len(p.nodes)
    BY <1>1, 1 \in Int, Len(p.nodes) \in Int, FS_Interval
  <1>3. IdOrder(p) \in Surjection(DOMAIN p.nodes, Ids(p))
    BY DEF Surjection, Ids, IdOrder
  <1>4. IdOrder(p) \in Injection(DOMAIN p.nodes, Ids(p)) <=> IsInjective(IdOrder(p))
    BY DEF Injection, Ids, IdOrder
  <1> QED
    BY <1>1, <1>2, <1>3, <1>4, FS_Surjection

\* The order of the plan and the orders of a map take every node.
LEMMA OrdersTakeAll ==
    ASSUME NEW p, IsPlan(p)
    PROVE  /\ IsSequence(IdOrder(p)) /\ ToSet(IdOrder(p)) = Ids(p)
           /\ \A order \in SetToSeqs(Ids(p)) : IsSequence(order) /\ ToSet(order) \subseteq Ids(p)
  <1>1. Len(p.nodes) \in Nat /\ DOMAIN p.nodes = 1 .. Len(p.nodes)
    BY DEF IsPlan, IsSequence
  <1>2. IsSequence(IdOrder(p)) /\ ToSet(IdOrder(p)) = Ids(p)
    <2>1. IdOrder(p) = [i \in 1 .. Len(p.nodes) |-> p.nodes[i].id]
      BY <1>1 DEF IdOrder
    <2>2. Len(IdOrder(p)) = Len(p.nodes) /\ DOMAIN IdOrder(p) = DOMAIN p.nodes
      BY <1>1, <2>1
    <2>3. ToSet(IdOrder(p)) = Ids(p)
      BY <2>2 DEF ToSet, Ids, IdOrder
    <2> QED
      BY <2>1, <2>2, <2>3 DEF IsSequence
  <1>3. ASSUME NEW order \in SetToSeqs(Ids(p))
        PROVE  IsSequence(order) /\ ToSet(order) \subseteq Ids(p)
    <2> DEFINE n == Cardinality(Ids(p))
    <2>1. order \in [1 .. n -> Ids(p)] /\ n \in Nat
      BY IdsFinite DEF SetToSeqs
    <2> HIDE DEF n
    <2>2. Len(order) = n
      BY <2>1
    <2> QED
      BY <2>1, <2>2 DEF IsSequence, ToSet
  <1> QED
    BY <1>2, <1>3

\* The validator's search accepts exactly the graphs that can be ranked.
LEMMA GraphValidSound ==
    ASSUME NEW p, IsPlan(p)
    PROVE  GraphValid(p) <=> WellFounded(p)
  <1>1. Len(p.nodes) \in Nat /\ DOMAIN p.nodes = 1 .. Len(p.nodes)
    BY DEF IsPlan, IsSequence
  <1>2. ASSUME GraphValid(p) PROVE WellFounded(p)
    <2>1. /\ IsInjective(IdOrder(p)) /\ KnownDependencies(p) /\ ToSet(p.output) \subseteq Ids(p)
          /\ NoCycle(p, IdOrder(p)) /\ Blank \notin Ids(p)
      BY <1>2 DEF GraphValid, Ids
    <2>2. Cardinality(Ids(p)) = Len(p.nodes)
      BY <2>1, DistinctIds
    <2>3. PICK r \in [Ids(p) -> 1 .. Len(p.nodes)] :
             \A x \in Ids(p) : \A d \in ToSet(NodeOf(p, x).dependsOn) : r[d] < r[x]
      BY <2>1, <2>2, OrdersTakeAll, SearchedRanked
    <2>4. ASSUME NEW i \in DOMAIN p.nodes, NEW d \in ToSet(p.nodes[i].dependsOn)
          PROVE  r[d] < r[p.nodes[i].id]
      <3>1. p.nodes[i].id \in Ids(p)
        BY DEF Ids
      <3>2. PICK j \in DOMAIN p.nodes :
               NodeOf(p, p.nodes[i].id) = p.nodes[j] /\ p.nodes[j].id = p.nodes[i].id
        BY <2>1, <3>1, NodeOfSound
      <3>3. i = j
        BY <2>1, <3>2 DEF IsInjective, IdOrder
      <3> QED
        BY <2>3, <3>1, <3>2, <3>3
    <2> QED
      BY <2>1, <2>2, <2>4 DEF WellFounded
  <1>3. ASSUME WellFounded(p) PROVE GraphValid(p)
    <2>1. /\ Blank \notin Ids(p) /\ IsInjective(IdOrder(p)) /\ KnownDependencies(p)
          /\ ToSet(p.output) \subseteq Ids(p)
      BY <1>3, DistinctIds DEF WellFounded
    <2>2. PICK r \in [Ids(p) -> 1 .. Len(p.nodes)] :
             \A i \in DOMAIN p.nodes : \A d \in ToSet(p.nodes[i].dependsOn) : r[d] < r[p.nodes[i].id]
      BY <1>3 DEF WellFounded
    <2>3. IsRank(r, p)
      <3>1. r \in [Ids(p) -> Nat]
        BY <1>1
      <3>2. ASSUME NEW x \in Ids(p), NEW d \in ToSet(NodeOf(p, x).dependsOn) PROVE r[d] < r[x]
        BY <2>1, <2>2, NodeOfSound
      <3> QED
        BY <3>1, <3>2 DEF IsRank
    <2>4. NoCycle(p, IdOrder(p))
      BY <2>1, <2>3, OrdersTakeAll, RankedAccepted
    <2>5. ASSUME NEW i \in DOMAIN p.nodes
          PROVE  /\ p.nodes[i].id \notin ToSet(p.nodes[i].dependsOn) \cup {Blank}
                 /\ Blank \notin ToSet(p.nodes[i].dependsOn)
      <3>1. p.nodes[i].id \in Ids(p) /\ ToSet(p.nodes[i].dependsOn) \subseteq Ids(p)
        BY <2>1 DEF Ids, KnownDependencies
      <3>2. ~(r[p.nodes[i].id] < r[p.nodes[i].id])
        BY <1>1, <2>2, <3>1
      <3> QED
        BY <2>1, <2>2, <3>1, <3>2
    <2> QED
      BY <2>1, <2>4, <2>5 DEF GraphValid
  <1> QED
    BY <1>2, <1>3

\* What the validator accepts the executor accepts, in any order of its map.
LEMMA ExecutorAgrees ==
    ASSUME NEW p, IsPlan(p), validateSchema(p), GraphValid(p), NEW order \in SetToSeqs(Ids(p))
    PROVE  validatePlan(p, order)
  <1>1. /\ KnownDependencies(p) /\ IsInjective(IdOrder(p)) /\ Len(p.nodes) \in 1 .. NodeCap
        /\ Blank \notin Ids(p) /\ NoCycle(p, IdOrder(p))
    BY DEF validateSchema, GraphValid, Ids
  <1>2. PICK r \in [Ids(p) -> 1 .. Cardinality(Ids(p))] :
           \A x \in Ids(p) : \A d \in ToSet(NodeOf(p, x).dependsOn) : r[d] < r[x]
    BY <1>1, OrdersTakeAll, SearchedRanked
  <1>3. IsRank(r, p)
    BY <1>2, IdsFinite DEF IsRank
  <1>4. NoCycle(p, order)
    BY <1>1, <1>3, OrdersTakeAll, RankedAccepted
  <1> QED
    BY <1>1, <1>4 DEF validatePlan

\* Whatever plan is in hand has the shape of one.
Shaped == plan # None => IsPlan(plan)

\* A step puts a plan of that shape in hand, or none.
LEMMA ShapedStep == ResearchInv /\ Shaped /\ [Next]_vars => Shaped'
  <1> SUFFICES ASSUME ResearchInv, Shaped, [Next]_vars PROVE Shaped'
    OBVIOUS
  <1>1. CASE plan' = plan
    BY <1>1 DEF Shaped
  <1>2. CASE PlanByRules
    BY <1>2, RulesPlanShape DEF PlanByRules, PlanIs, Shaped, ResearchInv
  <1>3. CASE AIPlan \/ AIPlanFails \/ CommandPlan
    BY <1>3, ResearchAssumption DEF AIPlan, AIPlanFails, CommandPlan, PlanIs, Shaped
  <1>4. CASE Constrain
    BY <1>4, ConstrainedShape DEF Constrain, PlanIs, Shaped, ResearchInv, Planned
  <1>5. PlanByRules \/ AIPlan \/ AIPlanFails \/ CommandPlan \/ Constrain \/ plan' = plan
    BY DEF Next, vars, Fail, ReadCapabilities, CapabilitiesFail, CommandFails, RejectPlan, Execute,
           ExecuteFails, ReadSession, RerankSkipped, RerankAnswers, RerankDone, RerankRefused,
           RerankFails, Supplement, ExtractEvidence, Answer, AnswerFails, AnswerIs
  <1> QED
    BY <1>1, <1>2, <1>3, <1>4, <1>5

\* The validator and the executor search for cycles apart, with their roots
\* in different orders: both accept exactly the graphs without one.
THEOREM ValidatorsAlwaysAgree == Spec => []ValidatorsAgree
  <1>1. Shaped => ValidatorsAgree
    BY GraphValidSound, ExecutorAgrees DEF Shaped, ValidatorsAgree
  <1>2. Init => Shaped
    BY DEF Init, Shaped
  <1>3. Spec => []ResearchInv
    BY ResearchInvInit, ResearchInvStep, PTL DEF Spec
  <1>4. Spec => []Shaped
    BY <1>2, <1>3, ShapedStep, PTL DEF Spec
  <1> QED
    BY <1>1, <1>4, PTL

----------------------------------------------------------------------------
(* The streams that answer a workflow or a plan. *)


\* Switches.
Flags ==
    /\ eventsClosed \in BOOLEAN /\ outcomesClosed \in BOOLEAN
    /\ eventCh \in BOOLEAN /\ outcomeCh \in BOOLEAN
    /\ expired \in BOOLEAN /\ lost \in BOOLEAN

\* The stream's state is of the expected type.
TypeOK ==
    /\ Flags
    /\ mode \in {"workflow", "plan", "json"}
    /\ handler \in {"decode", "select", "terminal", "returned"}
    /\ worker \in {"none", "running", "sending", "outcome", "closing", "ended"}
    /\ emitted \in Nat /\ skipped \subseteq Nat
    /\ queue \in Seq(Nat) /\ delivered \in Seq(Nat)
    /\ outcome \in {"none", "result", "error"} /\ final \in {"none", "result", "error"}
    /\ terminal \in {"none", "result", "error"}

\* The worker has made its last event.
Finished == worker \in {"outcome", "closing", "ended"}

(* How far worker and handler are: the outcome is sent after the last event, *)
(* both channels are closed after that, and the handler forgets a channel    *)
(* only when it is closed and empty.  The outcome is on its channel until    *)
(* the handler has written it (a workflow's) or put it aside (a plan's).     *)
Progress ==
    /\ outcome # "none" => Finished
    /\ outcomesClosed => worker \in {"closing", "ended"}
    /\ eventsClosed => worker = "ended"
    /\ ~eventCh => eventsClosed /\ queue = <<>>
    /\ ~outcomeCh => outcomesClosed /\ outcome = "none"
    /\ mode = "workflow" => queue = <<>>
    /\ handler = "decode" => worker = "none" /\ terminal = "none"
    /\ handler = "select" => worker # "none"
    /\ handler = "select" /\ terminal # "none" => mode = "workflow" /\ outcome = "none" /\ Finished
    /\ handler = "select" /\ outcome = "none" /\ Finished =>
          IF mode = "workflow" THEN terminal # "none" ELSE final # "none"
    /\ handler = "terminal" => terminal # "none"
    /\ handler = "returned" => lost \/ terminal # "none"

(* An event that has left the worker's hands and was not given up. *)
Past(n) == n \in 1 .. emitted /\ n \notin skipped /\ (worker = "sending" => n < emitted)

(* Events travel in order: those delivered, then those in the channel, then  *)
(* the one in the worker's hands.                                            *)
InOrder ==
    /\ \A i \in DOMAIN delivered : Past(delivered[i])
    /\ \A i \in DOMAIN queue : Past(queue[i])
    /\ \A i, j \in DOMAIN delivered : i < j => delivered[i] < delivered[j]
    /\ \A i, j \in DOMAIN queue : i < j => queue[i] < queue[j]
    /\ \A i \in DOMAIN delivered, j \in DOMAIN queue : delivered[i] < queue[j]
    /\ skipped \subseteq 1 .. emitted
    /\ worker = "sending" => emitted \in (1 .. emitted) \ skipped

(* While the client is there, no event is anywhere else. *)
NoneMissing ==
    ~lost => \A n \in 1 .. emitted :
        \/ n \in skipped
        \/ n = emitted /\ worker = "sending"
        \/ \E i \in DOMAIN delivered : delivered[i] = n
        \/ \E i \in DOMAIN queue : queue[i] = n

(* The terminal message is written after everything else. *)
TerminalLast ==
    terminal # "none" /\ ~lost /\ worker # "none" => queue = <<>> /\ Finished

(* Only a plan past its deadline gives up an event of a client that is there. *)
OnlyLateSkips == ~lost /\ skipped # {} => expired

\* The inductive invariant.
StreamInv == TypeOK /\ Progress /\ InOrder /\ NoneMissing /\ TerminalLast /\ OnlyLateSkips

----------------------------------------------------------------------------
(* Sequences of events. *)

(* An event is appended behind the others. *)
LEMMA Appended ==
    ASSUME NEW q \in Seq(Nat), NEW e \in Nat
    PROVE  /\ Append(q, e) \in Seq(Nat)
           /\ Len(Append(q, e)) = Len(q) + 1 /\ Len(q) \in Nat
           /\ DOMAIN q = 1 .. Len(q) /\ DOMAIN Append(q, e) = 1 .. Len(q) + 1
           /\ \A i \in DOMAIN q : Append(q, e)[i] = q[i] /\ q[i] \in Nat
           /\ Append(q, e)[Len(q) + 1] = e
           /\ SubSeq(Append(q, e), 1, Len(q)) = q
  OBVIOUS

(* The first event is taken. *)
LEMMA Taken ==
    ASSUME NEW q \in Seq(Nat), q # <<>>
    PROVE  /\ Head(q) = q[1] /\ 1 \in DOMAIN q /\ q[1] \in Nat
           /\ Tail(q) \in Seq(Nat)
           /\ DOMAIN q = 1 .. Len(q) /\ Len(q) \in Nat \ {0}
           /\ DOMAIN Tail(q) = 1 .. Len(q) - 1
           /\ \A i \in DOMAIN Tail(q) : Tail(q)[i] = q[i + 1]
  OBVIOUS

----------------------------------------------------------------------------
(* The invariant holds initially. *)
LEMMA StreamInvInit == StreamInit => StreamInv
  <1> SUFFICES ASSUME StreamInit PROVE StreamInv
    OBVIOUS
  <1>4. Flags
    BY Zenon DEF StreamInit, Flags
  <1>1. TypeOK
    BY <1>4 DEF StreamInit, TypeOK
  <1>2. Progress /\ TerminalLast /\ OnlyLateSkips
    BY DEF StreamInit, Progress, TerminalLast, OnlyLateSkips, Finished
  <1>3. InOrder /\ NoneMissing
    BY DEF StreamInit, InOrder, NoneMissing, Past
  <1> QED
    BY <1>1, <1>2, <1>3 DEF StreamInv

(* A flag is changed to a truth value. *)
LEMMA FlagsNext == Flags /\ [StreamNext]_streamVars => Flags'
  <1> SUFFICES ASSUME Flags, [StreamNext]_streamVars PROVE Flags'
    OBVIOUS
  <1> USE DEF Flags, workerVars, loopVars, clientVars
  <1>1. CASE RefuseRequest \/ StartWork \/ Disconnect \/ Deadline
    BY <1>1, Zenon DEF RefuseRequest, StartWork, Disconnect, Deadline
  <1>2. CASE Worker
    BY <1>2, Zenon DEF Worker, Produce, Buffer, GiveUp, Finish, CloseOutcomes, CloseEvents, WorkerStep
  <1>3. CASE Handler
    BY <1>3, Zenon DEF Handler, TakeEvent, EventsEnd, TakeOutcome, OutcomesEnd, Abandon, WriteFinal, HandlerReturns
  <1>4. CASE UNCHANGED streamVars
    BY <1>4, Zenon DEF streamVars
  <1> QED
    BY <1>1, <1>2, <1>3, <1>4 DEF StreamNext

(* Every step keeps the types. *)
LEMMA TypeNext == TypeOK /\ [StreamNext]_streamVars => TypeOK'
  <1> SUFFICES ASSUME TypeOK, [StreamNext]_streamVars, Flags' PROVE TypeOK'
    BY FlagsNext DEF TypeOK
  <1> USE DEF TypeOK, workerVars, loopVars, clientVars
  <1>1. CASE RefuseRequest \/ StartWork \/ Disconnect \/ Deadline
    BY <1>1 DEF RefuseRequest, StartWork, Disconnect, Deadline
  <1>2. CASE Produce
    BY <1>2 DEF Produce, WorkerStep
  <1>9. CASE GiveUp
    BY <1>9 DEF GiveUp, WorkerStep
  <1>10. CASE CloseOutcomes \/ CloseEvents
    BY <1>10 DEF CloseOutcomes, CloseEvents, WorkerStep
  <1>8. CASE Finish
    BY <1>8 DEF Finish, WorkerStep
  <1>3. CASE Buffer
    BY <1>3, Appended DEF Buffer, WorkerStep
  <1>4. CASE TakeEvent
    <2>1. queue # <<>> => Head(queue) \in Nat /\ Tail(queue) \in Seq(Nat)
      BY Taken
    <2>2. queue' \in Seq(Nat) /\ worker' \in {worker, "running"}
      BY <1>4, <2>1 DEF TakeEvent
    <2>3. delivered' \in Seq(Nat) /\ handler' \in {handler, "returned"} /\ terminal' = terminal
      BY <1>4, <2>1, Appended DEF TakeEvent, WriteEvent
    <2> QED
      BY <1>4, <2>2, <2>3 DEF TakeEvent
  <1>5. CASE EventsEnd \/ OutcomesEnd \/ Abandon \/ WriteFinal \/ HandlerReturns
    BY <1>5 DEF EventsEnd, OutcomesEnd, Abandon, WriteFinal, HandlerReturns
  <1>6. CASE TakeOutcome
    BY <1>6 DEF TakeOutcome
  <1>7. CASE UNCHANGED streamVars
    BY <1>7 DEF streamVars
  <1> QED
    BY <1>1, <1>2, <1>3, <1>4, <1>5, <1>6, <1>7, <1>8, <1>9, <1>10 DEF StreamNext, Worker, Handler

(* Every step keeps worker and handler in step. *)
LEMMA ProgressNext ==
    TypeOK /\ Progress /\ TerminalLast /\ OnlyLateSkips /\ [StreamNext]_streamVars
        => Progress' /\ TerminalLast' /\ OnlyLateSkips'
  <1> SUFFICES ASSUME TypeOK, Progress, TerminalLast, OnlyLateSkips, [StreamNext]_streamVars
               PROVE  Progress' /\ TerminalLast' /\ OnlyLateSkips'
    OBVIOUS
  <1> USE DEF TypeOK, Progress, TerminalLast, OnlyLateSkips, Finished, workerVars, loopVars, clientVars
  <1>1. CASE RefuseRequest
    BY <1>1 DEF RefuseRequest
  <1>2. CASE StartWork
    BY <1>2 DEF StartWork
  <1>3. CASE Disconnect
    BY <1>3 DEF Disconnect
  <1>4. CASE Deadline
    BY <1>4 DEF Deadline
  <1>5. CASE Produce
    BY <1>5 DEF Produce, WorkerStep
  <1>6. CASE Buffer
    BY <1>6 DEF Buffer, WorkerStep
  <1>7. CASE GiveUp
    BY <1>7 DEF GiveUp, WorkerStep, CtxDone
  <1>8. CASE Finish
    BY <1>8 DEF Finish, WorkerStep
  <1>9. CASE CloseOutcomes
    BY <1>9 DEF CloseOutcomes, WorkerStep
  <1>10. CASE CloseEvents
    BY <1>10 DEF CloseEvents, WorkerStep
  <1>11. CASE TakeEvent
    BY <1>11 DEF TakeEvent, WriteEvent, Selecting
  <1>12. CASE EventsEnd
    BY <1>12 DEF EventsEnd, Selecting
  <1>13. CASE TakeOutcome
    BY <1>13 DEF TakeOutcome, Selecting
  <1>14. CASE OutcomesEnd
    BY <1>14 DEF OutcomesEnd, Selecting
  <1>15. CASE Abandon
    BY <1>15 DEF Abandon, Selecting
  <1>16. CASE WriteFinal
    BY <1>16 DEF WriteFinal
  <1>17. CASE HandlerReturns
    BY <1>17 DEF HandlerReturns
  <1>18. CASE UNCHANGED streamVars
    BY <1>18 DEF streamVars
  <1> QED
    BY <1>1, <1>2, <1>3, <1>4, <1>5, <1>6, <1>7, <1>8, <1>9, <1>10, <1>11, <1>12, <1>13,
       <1>14, <1>15, <1>16, <1>17, <1>18 DEF StreamNext, Worker, Handler
(* The handler takes the first event of the channel, and writes it or loses  *)
(* it together with the client.                                              *)
LEMMA TakeFromQueue ==
    ASSUME TypeOK, InOrder, NoneMissing, queue # <<>>, queue' = Tail(queue),
           UNCHANGED <<worker, emitted, skipped, lost>>,
           \/ delivered' = Append(delivered, Head(queue))
           \/ delivered' = delivered /\ lost
    PROVE  InOrder' /\ NoneMissing'
  <1> DEFINE h == queue[1]
  <1>1. /\ h \in Nat /\ 1 \in DOMAIN queue /\ Head(queue) = h
        /\ DOMAIN queue = 1 .. Len(queue) /\ Len(queue) \in Nat \ {0}
        /\ DOMAIN queue' = 1 .. Len(queue) - 1 /\ \A i \in DOMAIN queue' : queue'[i] = queue[i + 1]
    BY Taken DEF TypeOK
  <1>2. \A i \in DOMAIN queue' : i + 1 \in DOMAIN queue /\ 1 < i + 1 /\ queue'[i] = queue[i + 1]
    BY <1>1
  <1>3. \A n : Past(n)' <=> Past(n)
    BY DEF Past
  <1>4. \A n : (\E i \in DOMAIN queue : queue[i] = n) => n = h \/ \E i \in DOMAIN queue' : queue'[i] = n
    <2> SUFFICES ASSUME NEW i \in DOMAIN queue, i # 1 PROVE \E j \in DOMAIN queue' : queue'[j] = queue[i]
      BY <1>1
    <2>1. i - 1 \in DOMAIN queue' /\ queue'[i - 1] = queue[i]
      BY <1>1
    <2> QED
      BY <2>1
  <1>5. CASE delivered' = Append(delivered, Head(queue))
    <2>1. /\ Len(delivered) \in Nat /\ DOMAIN delivered = 1 .. Len(delivered)
          /\ DOMAIN delivered' = 1 .. Len(delivered) + 1
          /\ \A i \in DOMAIN delivered : delivered'[i] = delivered[i] /\ delivered[i] \in Nat
          /\ delivered'[Len(delivered) + 1] = h
      BY <1>1, <1>5, Appended DEF TypeOK
    <2>2. /\ Past(h) /\ \A i \in DOMAIN delivered : delivered[i] < h
          /\ \A i \in DOMAIN queue' : h < queue'[i]
      BY <1>1, <1>2 DEF InOrder
    <2>3. /\ \A i \in DOMAIN delivered' : Past(delivered'[i])
          /\ \A i, j \in DOMAIN delivered' : i < j => delivered'[i] < delivered'[j]
          /\ \A i \in DOMAIN delivered', j \in DOMAIN queue' : delivered'[i] < queue'[j]
      BY <1>2, <2>1, <2>2 DEF InOrder
    <2>4. InOrder'
      BY <1>2, <1>3, <2>3 DEF InOrder
    <2>5. \A n : (n = h \/ \E i \in DOMAIN delivered : delivered[i] = n)
                  => \E i \in DOMAIN delivered' : delivered'[i] = n
      <3>1. \A i \in DOMAIN delivered : i \in DOMAIN delivered' /\ delivered'[i] = delivered[i]
        BY <2>1
      <3>2. Len(delivered) + 1 \in DOMAIN delivered'
        BY <2>1
      <3> QED
        BY <2>1, <3>1, <3>2
    <2>6. NoneMissing'
      BY <1>4, <2>5 DEF NoneMissing
    <2> QED
      BY <2>4, <2>6
  <1>6. CASE delivered' = delivered /\ lost
    <2>1. InOrder'
      BY <1>2, <1>3, <1>6 DEF InOrder
    <2> QED
      BY <1>6, <2>1 DEF NoneMissing
  <1> QED
    BY <1>5, <1>6

(* The handler takes an event from the hands of the worker. *)
LEMMA TakeFromWorker ==
    ASSUME TypeOK, InOrder, NoneMissing, queue = <<>>, worker = "sending", worker' = "running",
           UNCHANGED <<queue, emitted, skipped, lost>>,
           \/ delivered' = Append(delivered, emitted)
           \/ delivered' = delivered /\ lost
    PROVE  InOrder' /\ NoneMissing'
  <1> DEFINE After(n) == n \in 1 .. emitted' /\ n \notin skipped' /\ (worker' = "sending" => n < emitted')
  <1>1. \A n : Past(n) => After(n)
    BY DEF Past
  <1> HIDE DEF After
  <1>2. DOMAIN queue = {} /\ queue' = queue
    OBVIOUS
  <1>3. CASE delivered' = Append(delivered, emitted)
    <2>1. /\ Len(delivered) \in Nat /\ DOMAIN delivered = 1 .. Len(delivered)
          /\ DOMAIN delivered' = 1 .. Len(delivered) + 1
          /\ \A i \in DOMAIN delivered : delivered'[i] = delivered[i] /\ delivered[i] \in Nat
          /\ delivered'[Len(delivered) + 1] = emitted
      BY <1>3, Appended DEF TypeOK
    <2>2. After(emitted) /\ \A i \in DOMAIN delivered : delivered[i] < emitted
      BY DEF InOrder, Past, TypeOK, After
    <2>3. /\ \A i \in DOMAIN delivered' : After(delivered'[i])
          /\ \A i, j \in DOMAIN delivered' : i < j => delivered'[i] < delivered'[j]
      BY <1>1, <2>1, <2>2 DEF InOrder
    <2>4. InOrder'
      BY <1>2, <2>3 DEF InOrder, Past, After
    <2>5. \A n : (n = emitted \/ \E i \in DOMAIN delivered : delivered[i] = n)
                  => \E i \in DOMAIN delivered' : delivered'[i] = n
      <3>1. \A i \in DOMAIN delivered : i \in DOMAIN delivered' /\ delivered'[i] = delivered[i]
        BY <2>1
      <3>2. Len(delivered) + 1 \in DOMAIN delivered'
        BY <2>1
      <3> QED
        BY <2>1, <3>1, <3>2
    <2>6. NoneMissing'
      BY <1>2, <2>5 DEF NoneMissing
    <2> QED
      BY <2>4, <2>6
  <1>4. CASE delivered' = delivered /\ lost
    <2>1. InOrder'
      BY <1>1, <1>2, <1>4 DEF InOrder, Past, After
    <2> QED
      BY <1>4, <2>1 DEF NoneMissing
  <1> QED
    BY <1>3, <1>4

(* The worker puts its event behind those in the channel. *)
LEMMA BufferEvent ==
    ASSUME TypeOK, InOrder, NoneMissing, worker = "sending", worker' = "running",
           queue' = Append(queue, emitted), UNCHANGED <<delivered, emitted, skipped, lost>>
    PROVE  InOrder' /\ NoneMissing'
  <1> DEFINE After(n) == n \in 1 .. emitted' /\ n \notin skipped' /\ (worker' = "sending" => n < emitted')
  <1>1. \A n : Past(n) => After(n)
    BY DEF Past
  <1> HIDE DEF After
  <1>2. /\ Len(queue) \in Nat /\ DOMAIN queue = 1 .. Len(queue)
        /\ DOMAIN queue' = 1 .. Len(queue) + 1
        /\ \A i \in DOMAIN queue : queue'[i] = queue[i] /\ queue[i] \in Nat
        /\ queue'[Len(queue) + 1] = emitted
    BY Appended DEF TypeOK
  <1>3. /\ After(emitted) /\ \A i \in DOMAIN queue : queue[i] < emitted
        /\ \A i \in DOMAIN delivered : delivered[i] < emitted
    BY DEF InOrder, Past, TypeOK, After
  <1>4. /\ \A i \in DOMAIN queue' : After(queue'[i])
        /\ \A i, j \in DOMAIN queue' : i < j => queue'[i] < queue'[j]
        /\ \A i \in DOMAIN delivered, j \in DOMAIN queue' : delivered[i] < queue'[j]
    BY <1>1, <1>2, <1>3 DEF InOrder
  <1>5. InOrder'
    BY <1>1, <1>4 DEF InOrder, Past, After
  <1>6. \A n : (n = emitted \/ \E i \in DOMAIN queue : queue[i] = n)
                => \E i \in DOMAIN queue' : queue'[i] = n
    <2>1. \A i \in DOMAIN queue : i \in DOMAIN queue' /\ queue'[i] = queue[i]
      BY <1>2
    <2>2. Len(queue) + 1 \in DOMAIN queue'
      BY <1>2
    <2> QED
      BY <1>2, <2>1, <2>2
  <1> QED
    BY <1>5, <1>6 DEF NoneMissing

(* Every step keeps the events in order and in sight. *)
LEMMA OrderNext ==
    ASSUME TypeOK, Progress, InOrder, NoneMissing, [StreamNext]_streamVars
    PROVE  InOrder' /\ NoneMissing'
  <1> USE DEF workerVars, loopVars, clientVars
  <1>1. ASSUME UNCHANGED <<queue, delivered, emitted, skipped>>, lost => lost',
               worker' = "sending" <=> worker = "sending"
        PROVE  InOrder' /\ NoneMissing'
    BY <1>1 DEF InOrder, NoneMissing, Past
  <1>2. CASE Produce
    <2>1. emitted' = emitted + 1 /\ emitted \in Nat /\ worker = "running" /\ worker' = "sending"
          /\ UNCHANGED <<queue, delivered, skipped, lost>>
      BY <1>2 DEF Produce, WorkerStep, TypeOK
    <2>2. \A n : Past(n) => Past(n)'
      BY <2>1 DEF Past
    <2>3. InOrder'
      BY <2>1, <2>2 DEF InOrder
    <2> QED
      BY <2>1, <2>3 DEF NoneMissing
  <1>3. CASE Buffer
    BY <1>3, BufferEvent DEF Buffer, WorkerStep
  <1>4. CASE GiveUp
    <2>1. /\ skipped' = skipped \cup {emitted} /\ worker = "sending" /\ worker' = "running"
          /\ UNCHANGED <<queue, delivered, emitted, lost>>
      BY <1>4 DEF GiveUp, WorkerStep
    <2>2. \A n : Past(n) => Past(n)'
      BY <2>1 DEF Past
    <2>3. InOrder'
      BY <2>1, <2>2 DEF InOrder
    <2> QED
      BY <2>1, <2>3 DEF NoneMissing
  <1>5. CASE TakeEvent
    <2>1. CASE queue # <<>> /\ WriteEvent(Head(queue)) /\ queue' = Tail(queue) /\ UNCHANGED worker
      BY <1>5, <2>1, TakeFromQueue DEF TakeEvent, WriteEvent
    <2>2. CASE queue = <<>> /\ worker = "sending" /\ WriteEvent(emitted) /\ worker' = "running"
               /\ UNCHANGED queue
      BY <1>5, <2>2, TakeFromWorker DEF TakeEvent, WriteEvent
    <2> QED
      BY <1>5, <2>1, <2>2 DEF TakeEvent
  <1>6. CASE RefuseRequest \/ StartWork \/ Deadline
    <2>1. worker' = "sending" <=> worker = "sending"
      BY <1>6 DEF RefuseRequest, StartWork, Deadline, Progress
    <2> QED
      BY <1>1, <1>6, <2>1 DEF RefuseRequest, StartWork, Deadline
  <1>10. CASE Disconnect
    BY <1>1, <1>10 DEF Disconnect
  <1>7. CASE Finish \/ CloseOutcomes \/ CloseEvents
    BY <1>1, <1>7 DEF Finish, CloseOutcomes, CloseEvents, WorkerStep
  <1>8. CASE EventsEnd \/ TakeOutcome \/ OutcomesEnd \/ Abandon \/ WriteFinal \/ HandlerReturns
    BY <1>1, <1>8 DEF EventsEnd, TakeOutcome, OutcomesEnd, Abandon, WriteFinal, HandlerReturns
  <1>9. CASE UNCHANGED streamVars
    BY <1>1, <1>9 DEF streamVars
  <1> QED
    BY <1>2, <1>3, <1>4, <1>5, <1>6, <1>7, <1>8, <1>9, <1>10 DEF StreamNext, Worker, Handler
(* The invariant holds in every reachable state. *)
LEMMA StreamHolds == StreamSpec => []StreamInv
  <1>1. StreamInv /\ [StreamNext]_streamVars => StreamInv'
    BY TypeNext, ProgressNext, OrderNext DEF StreamInv
  <1> QED
    BY <1>1, StreamInvInit, PTL DEF StreamSpec

(* Whatever the two channels and their capacities do to the order of sends   *)
(* and receives, a client that stays has seen every event, once and in       *)
(* order, when it sees the terminal message.                                 *)
THEOREM TerminalNeverOvertakes == StreamSpec => []NothingOvertaken
  <1>1. StreamInv => NothingOvertaken
    <2> SUFFICES ASSUME StreamInv, terminal # "none", ~lost, worker # "none"
                 PROVE  /\ {delivered[i] : i \in DOMAIN delivered} = (1 .. emitted) \ skipped
                        /\ \A i, j \in DOMAIN delivered : i < j => delivered[i] < delivered[j]
                        /\ skipped # {} => expired
      BY DEF NothingOvertaken
    <2>1. queue = <<>> /\ worker # "sending"
      BY DEF StreamInv, TerminalLast, Finished
    <2>2. DOMAIN queue = {}
      BY <2>1
    <2>3. \A n \in (1 .. emitted) \ skipped : \E i \in DOMAIN delivered : delivered[i] = n
      BY <2>1, <2>2 DEF StreamInv, NoneMissing
    <2>4. \A i \in DOMAIN delivered : delivered[i] \in (1 .. emitted) \ skipped
      BY DEF StreamInv, InOrder, Past
    <2>5. {delivered[i] : i \in DOMAIN delivered} = (1 .. emitted) \ skipped
      BY <2>3, <2>4
    <2> QED
      BY <2>5 DEF StreamInv, InOrder, OnlyLateSkips
  <1> QED
    BY <1>1, StreamHolds, PTL

----------------------------------------------------------------------------
(* The contract. *)

(* A write of the next event is an event of the contract. *)
LEMMA WriteIsEvent ==
    ASSUME TypeOK, NEW e \in Nat, \A i \in DOMAIN delivered : delivered[i] < e,
           handler = "select", handler' = handler, terminal = "none",
           delivered' = Append(delivered, e), UNCHANGED <<terminal, lost>>
    PROVE  Contract!Event
  <1>1. /\ Len(delivered') = Len(delivered) + 1
        /\ SubSeq(delivered', 1, Len(delivered)) = delivered
        /\ delivered'[Len(delivered')] = e
    BY Appended DEF TypeOK
  <1> QED
    BY <1>1 DEF Contract!Event

(* Every step of worker, handler and client is allowed by the contract. *)
LEMMA ContractStep ==
    ASSUME StreamInv, [StreamNext]_streamVars
    PROVE  [Contract!Next]_(Contract!contractVars)
  <1> USE DEF workerVars, loopVars, clientVars
  <1>1. ASSUME UNCHANGED <<delivered, terminal, lost>>,
               handler' = "returned" <=> handler = "returned"
        PROVE  UNCHANGED Contract!contractVars
    BY <1>1 DEF Contract!contractVars
  <1>2. ASSUME UNCHANGED <<delivered, lost>>, terminal = "none", terminal' \in {"result", "error"},
               handler # "returned", handler' # "returned"
        PROVE  Contract!Next
    BY <1>2 DEF Contract!Next, Contract!Terminate
  <1>3. ASSUME UNCHANGED <<delivered, terminal, lost>>, lost \/ terminal # "none",
               handler # "returned", handler' = "returned"
        PROVE  Contract!Next
    BY <1>3 DEF Contract!Next, Contract!Close
  <1>4. CASE RefuseRequest
    BY <1>2, <1>4 DEF RefuseRequest, StreamInv, Progress
  <1>5. CASE StartWork \/ Deadline
    BY <1>1, <1>5 DEF StartWork, Deadline
  <1>6. CASE Disconnect
    BY <1>6 DEF Disconnect, Contract!Next, Contract!Disconnect
  <1>7. CASE Worker
    BY <1>1, <1>7 DEF Worker, Produce, Buffer, GiveUp, Finish, CloseOutcomes, CloseEvents, WorkerStep
  <1>8. CASE TakeEvent
    <2>1. handler = "select" /\ lost' = lost
      BY <1>8 DEF TakeEvent, Selecting
    <2>2. terminal = "none"
      BY <1>8, <2>1 DEF TakeEvent, StreamInv, Progress, Finished
    <2>3. PICK e \in Nat : /\ WriteEvent(e)
                           /\ \A i \in DOMAIN delivered : delivered[i] < e
      <3>1. CASE queue # <<>> /\ WriteEvent(Head(queue))
        <4>1. Head(queue) = queue[1] /\ 1 \in DOMAIN queue /\ queue[1] \in Nat
          BY <3>1, Taken DEF StreamInv, TypeOK
        <4> QED
          BY <3>1, <4>1 DEF StreamInv, InOrder
      <3>2. CASE worker = "sending" /\ WriteEvent(emitted)
        BY <3>2 DEF StreamInv, InOrder, Past, TypeOK
      <3> QED
        BY <1>8, <3>1, <3>2 DEF TakeEvent
    <2>4. CASE delivered' = Append(delivered, e) /\ UNCHANGED <<handler, terminal>>
      BY <2>1, <2>2, <2>3, <2>4, WriteIsEvent DEF StreamInv, Contract!Next
    <2>5. CASE lost /\ handler' = "returned" /\ UNCHANGED clientVars
      BY <1>3, <2>1, <2>5
    <2> QED
      BY <2>3, <2>4, <2>5 DEF WriteEvent
  <1>9. CASE EventsEnd \/ OutcomesEnd
    BY <1>1, <1>9 DEF EventsEnd, OutcomesEnd
  <1>10. CASE TakeOutcome
    <2>1. handler = "select" /\ outcome \in {"result", "error"} /\ UNCHANGED <<delivered, lost>>
      BY <1>10 DEF TakeOutcome, Selecting, StreamInv, TypeOK
    <2>2. terminal = "none"
      BY <2>1 DEF StreamInv, Progress
    <2>3. \/ terminal' = outcome /\ UNCHANGED handler
          \/ lost /\ handler' = "returned" /\ UNCHANGED terminal
          \/ UNCHANGED <<terminal, handler>>
      BY <1>10 DEF TakeOutcome
    <2> QED
      BY <1>1, <1>2, <1>3, <2>1, <2>2, <2>3
  <1>11. CASE Abandon
    <2>1. handler = "select" /\ lost /\ UNCHANGED <<delivered, lost>>
      BY <1>11 DEF Abandon, Selecting
    <2>2. mode = "json" => terminal = "none"
      BY <2>1 DEF StreamInv, Progress
    <2> QED
      BY <1>2, <1>3, <1>11, <2>1, <2>2 DEF Abandon
  <1>12. CASE WriteFinal
    <2>1. handler = "select" /\ handler' = "terminal" /\ UNCHANGED <<delivered, lost>>
      BY <1>12 DEF WriteFinal
    <2>2. mode # "workflow" => terminal = "none" /\ terminal' \in {"result", "error"}
      BY <1>12, <2>1 DEF WriteFinal, StreamInv, Progress
    <2>3. mode = "workflow" => terminal' = terminal
      BY <1>12 DEF WriteFinal
    <2> QED
      BY <1>1, <1>2, <2>1, <2>2, <2>3
  <1>13. CASE HandlerReturns
    BY <1>3, <1>13 DEF HandlerReturns, StreamInv, Progress
  <1>14. CASE UNCHANGED streamVars
    BY <1>1, <1>14 DEF streamVars
  <1> QED
    BY <1>4, <1>5, <1>6, <1>7, <1>8, <1>9, <1>10, <1>11, <1>12, <1>13, <1>14 DEF StreamNext, Handler

(* The three handlers give their clients what docs/HTTP_API.md promises:     *)
(* events in order, one terminal message, and no end without one unless the  *)
(* connection was lost.                                                      *)
THEOREM StreamImplementsContract == StreamSpec => StreamKept
  <1>1. StreamInit => Contract!Init
    BY DEF StreamInit, Contract!Init
  <1> QED
    BY <1>1, ContractStep, StreamHolds, PTL DEF StreamSpec, StreamKept, Contract!Spec
=============================================================================

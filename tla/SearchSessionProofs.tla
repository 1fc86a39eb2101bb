------------------------ MODULE SearchSessionProofs ------------------------
(***************************************************************************)
(* Theorems about SearchSession for every set of sources, calls, pages and *)
(* budgets: calls are paid, cursors leave no page out, Continue resumes    *)
(* where the session stopped, and a search reports what it did not get.    *)
(***************************************************************************)
EXTENDS SearchSession, FiniteSetTheorems, TLAPS

(* Ledgers count the provider calls and stay within their limits, and so      *)
(* does the budget a session stores for a later Continue.                    *)
Paid ==
    /\ \A a \in Ledgers : made[a] = ledger[a].used["calls"] /\ WithinBudget(ledger[a])
    /\ WithinBudget(stored.budget)

(* Of the pages of s, those before page n are among the candidates C. *)
Before(C, s, n) == \A p \in PageNo : p >= 1 => (<<s, p>> \in C <=> p < n)

(* A cursor of the search in a record leads to the first page it has not. *)
SoundRecord(R) ==
    \A s \in Source : LET f == R.frontiers[s] IN
        f.more => /\ f.cursor >= 2
                  /\ f.by # "query" => Before(R.candidates, s, f.cursor)

(* What a call of kind op knows about source s in its present wave. *)
SoundOne(op, s, o) ==
    /\ o.hits \subseteq {<<s, IF op = "query" THEN 0 ELSE PageOf(o)>>}
    /\ o.more => o.phase = "answered" /\ PageOf(o) < MaxPage
    /\ op # "query" /\ o.more => <<s, PageOf(o)>> \in o.hits
    /\ op = "query" => o.cursor = 0
    /\ op = "continue" /\ o.phase # "off" => o.cursor # 0

(* A wave asks for pages the call has not, and is over when it is merged. *)
SoundWave(c) ==
    /\ pc[c] = "idle" => one[c] = [s \in Source |-> Off]
    /\ pc[c] = "choose" => Op[c] # "query"
    /\ pc[c] # "wave" /\ Op[c] # "query" => \A s \in Source : one[c][s].phase \in {"off", "answered"}
    /\ pc[c] = "wave" /\ Op[c] # "query" => \A s \in Source :
          one[c][s].phase # "off" /\ one[c][s].by # "query" =>
              Before(work[c].candidates, s, PageOf(one[c][s]))

\* Records and goroutines of a call are sound.
SoundCall(c) ==
    /\ SoundRecord(mine[c]) /\ SoundRecord(work[c]) /\ SoundWave(c)
    /\ \A s \in Source : SoundOne(Op[c], s, one[c][s])

\* The inductive invariant behind NoHoles and ContinueResumes.
Resuming == SoundRecord(stored) /\ \A c \in Call : SoundCall(c)

(* The answers of a search: one that is no failure gives the page and says    *)
(* whether it was the last.                                                  *)
SoundAnswer(s, o) ==
    /\ o.by # "query"
    /\ o.phase = "answered" =>
          /\ o.status \in {"ok", "empty", "failed", "unavailable", "budget"}
          /\ o.status \in {"ok", "empty"} =>
                o.more \/ \A p \in 1..LastPage[s] : p < PageOf(o) \/ <<s, p>> \in o.hits

\* What a search knows of its sources.
Answering(c) ==
    \A s \in Source : SoundAnswer(s, one[c][s]) /\ work[c].frontiers[s].by # "query"

(* Source s is being asked, has a status that shows, is covered, or was        *)
(* refused behind a page it gave.                                            *)
Accounted(c, s) ==
    \/ pc[c] = "wave" /\ one[c][s].phase # "off"
    \/ work[c].runs[s] \in {"failed", "unavailable", "budget"}
    \/ Covered(c, s)
    \/ s \in cut[c] /\ work[c].runs[s] = "ok"

\* A search accounts for all its sources.
Accounting(c) == \A s \in sources[c] : Accounted(c, s)

(* The answer is marked partial when a source's status says so. *)
Marking(c) ==
    pc[c] = "done" => (partial[c] <=>
        \E s \in Source : work[c].runs[s] \in {"failed", "unavailable", "budget"})

\* What a search has been answered, has accounted for and will report.
Reporting(c) == Answering(c) /\ Accounting(c) /\ Marking(c)

\* The inductive invariant behind FailuresReported.
Reported == \A c \in Call : Op[c] = "search" => Reporting(c)
----------------------------------------------------------------------------
(* Operators. *)

(* A wave member in another phase. *)
Phased(o, ph) == [o EXCEPT !.phase = ph]

\* Phases of searchOne.
PhaseName == {"off", "queued", "calling", "backoff", "recalling", "answered"}

(* The fields of a wave member, of a frontier and of a record. *)
LEMMA OneFields ==
    ASSUME NEW o \in One
    PROVE  /\ o.phase \in PhaseName /\ o.cursor \in PageNo
           /\ o.by \in {"none", "search", "query"} /\ o.status \in Status
           /\ o.hits \in SUBSET Candidate /\ o.more \in BOOLEAN
  BY DEF One, PhaseName

\* The fields of a frontier.
LEMMA FrontierFields ==
    ASSUME NEW f \in Frontier
    PROVE  f.more \in BOOLEAN /\ f.cursor \in PageNo /\ f.by \in {"none", "search", "query"}
  BY DEF Frontier

\* The fields of a record.
LEMMA RecordFields ==
    ASSUME NEW R \in Record
    PROVE  /\ R.candidates \in SUBSET Candidate /\ R.frontiers \in [Source -> Frontier]
           /\ R.runs \in [Source -> Status] /\ R.budget \in Ledger /\ R.request \in BOOLEAN
  BY DEF Record

(* A wave member moves to another phase. *)
LEMMA PhasedFields ==
    ASSUME NEW o \in One, NEW ph \in PhaseName
    PROVE  /\ Phased(o, ph) \in One /\ Phased(o, ph).phase = ph
           /\ Phased(o, ph).cursor = o.cursor /\ Phased(o, ph).by = o.by
           /\ Phased(o, ph).status = o.status /\ Phased(o, ph).hits = o.hits
           /\ Phased(o, ph).more = o.more
  BY DEF Phased, One, PhaseName

(* A source is asked, and answers. *)
LEMMA QueuedFields ==
    ASSUME NEW f \in Frontier
    PROVE  /\ Queued(f) \in One /\ Queued(f).phase = "queued" /\ Queued(f).cursor = f.cursor
           /\ Queued(f).by = f.by /\ Queued(f).status = "none" /\ Queued(f).hits = {}
           /\ Queued(f).more = FALSE
  BY FrontierFields DEF Queued, One, Status

\* An answer keeps the cursor it answers.
LEMMA AnswerFields ==
    ASSUME NEW o \in One, NEW st \in Status, NEW h \in SUBSET Candidate, NEW m \in BOOLEAN
    PROVE  /\ Answer(o, st, h, m) \in One /\ Answer(o, st, h, m).phase = "answered"
           /\ Answer(o, st, h, m).cursor = o.cursor /\ Answer(o, st, h, m).by = o.by
           /\ Answer(o, st, h, m).status = st /\ Answer(o, st, h, m).hits = h
           /\ Answer(o, st, h, m).more = m
  BY OneFields DEF Answer, One

\* A source that is not asked.
LEMMA OffFields ==
    /\ Off \in One /\ Off.phase = "off" /\ Off.cursor = 0 /\ Off.by = "none"
    /\ Off.status = "none" /\ Off.hits = {} /\ Off.more = FALSE
  BY SearchAssumption DEF SearchAssumption, Off, One, PageNo, Status

\* No continuation.
LEMMA NoFrontierFields ==
    /\ NoFrontier \in Frontier /\ NoFrontier.cursor = 0 /\ NoFrontier.by = "none"
    /\ NoFrontier.more = FALSE
  BY SearchAssumption DEF SearchAssumption, NoFrontier, Frontier, PageNo

(* A new session record. *)
LEMMA NewRecordFields ==
    /\ NewRecord \in Record /\ NewRecord.candidates = {}
    /\ NewRecord.frontiers = [s \in Source |-> NoFrontier]
    /\ NewRecord.runs = [s \in Source |-> "none"]
    /\ NewRecord.budget = NewLedger([d \in Dimension |-> 0])
    /\ WithinBudget(NewRecord.budget)
  <1>1. NewLedger([d \in Dimension |-> 0]) \in Ledger
    BY DEF NewLedger, Ledger
  <1>2. WithinBudget(NewLedger([d \in Dimension |-> 0]))
    BY DEF NewLedger, WithinBudget
  <1> QED
    BY <1>1, <1>2, NoFrontierFields DEF NewRecord, Record, Status

(* The wave over S asks for the pages behind the frontiers. *)
LEMMA WaveFields ==
    ASSUME NEW S \in SUBSET Source, NEW fr \in [Source -> Frontier]
    PROVE  /\ Wave(S, fr) \in [Source -> One]
           /\ \A s \in Source : /\ s \in S => Wave(S, fr)[s] = Queued(fr[s])
                                /\ s \notin S => Wave(S, fr)[s] = Off
  BY QueuedFields, OffFields DEF Wave

(* Page numbers. *)
LEMMA Pages ==
    ASSUME NEW o \in One
    PROVE  PageOf(o) \in PageNo /\ PageOf(o) >= 1 /\ (o.cursor # 0 => PageOf(o) = o.cursor)
  BY OneFields, SearchAssumption DEF SearchAssumption, PageOf, PageNo

(* The cursor after an answer. *)
LEMMA NextCursorFields ==
    ASSUME NEW o \in One, NEW op \in {"search", "query"}, o.more => PageOf(o) < MaxPage
    PROVE  /\ NextCursor(o, op) \in Frontier /\ NextCursor(o, op).more = o.more
           /\ NextCursor(o, op).by = op
           /\ o.more => NextCursor(o, op).cursor = PageOf(o) + 1
  <1>1. o.more \in BOOLEAN /\ PageOf(o) \in Nat
    BY OneFields, Pages DEF PageNo
  <1>2. (IF o.more THEN PageOf(o) + 1 ELSE 0) \in PageNo
    BY <1>1, SearchAssumption DEF SearchAssumption, PageNo
  <1> QED
    BY <1>1, <1>2 DEF NextCursor, Frontier

----------------------------------------------------------------------------
(* Ledgers. *)

(* A charge that fits keeps a ledger a ledger within its limits. *)
LEMMA ChargeFits ==
    ASSUME NEW l \in Ledger, NEW cost \in [Dimension -> Int], CanReserve(l, cost)
    PROVE  /\ Charge(l, cost) \in Ledger /\ WithinBudget(Charge(l, cost))
           /\ \A d \in Dimension : /\ Charge(l, cost).used[d] = l.used[d] + cost[d]
                                   /\ Charge(l, cost).max[d] = l.max[d]
  <1> DEFINE u == [d \in Dimension |-> l.used[d] + cost[d]]
  <1>1. /\ l.max \in [Dimension -> Nat] /\ l.used \in [Dimension -> Nat]
        /\ l = [max |-> l.max, used |-> l.used]
    BY DEF Ledger
  <1>2. \A d \in Dimension : cost[d] >= 0 /\ l.used[d] + cost[d] <= l.max[d]
    BY DEF CanReserve
  <1>3. u \in [Dimension -> Nat] /\ \A d \in Dimension : u[d] = l.used[d] + cost[d]
    BY <1>1, <1>2
  <1>4. Charge(l, cost) = [max |-> l.max, used |-> u]
    BY <1>1 DEF Charge
  <1>5. Charge(l, cost).max = l.max /\ Charge(l, cost).used = u
    BY <1>4
  <1> HIDE DEF u
  <1>6. Charge(l, cost) \in Ledger
    BY <1>1, <1>3, <1>4 DEF Ledger
  <1> QED
    BY <1>1, <1>2, <1>3, <1>5, <1>6 DEF WithinBudget

(* The costs of a call and of a page. *)
LEMMA Costs ==
    /\ OneCall \in [Dimension -> Int] /\ ByteCost(1) \in [Dimension -> Int]
    /\ "calls" \in Dimension /\ OneCall["calls"] = 1 /\ ByteCost(1)["calls"] = 0
    /\ \A d \in Dimension : OneCall[d] >= 0 /\ ByteCost(1)[d] >= 0
  BY DEF OneCall, ByteCost, Dimension

(* What a charge a call was granted does. *)
LEMMA GrantedCharge ==
    ASSUME TypeOK, NEW c \in Call, NEW cost \in {OneCall, ByteCost(1)}, Granted(c, cost),
           ledger' = [ledger EXCEPT ![Account[c]] = Charge(ledger[Account[c]], cost)]
    PROVE  /\ Account[c] \in Ledgers /\ ledger' \in [Ledgers -> Ledger]
           /\ \A a \in Ledgers \ {Account[c]} : ledger'[a] = ledger[a]
           /\ WithinBudget(ledger'[Account[c]])
           /\ \A d \in Dimension :
                 /\ ledger'[Account[c]].used[d] = ledger[Account[c]].used[d] + cost[d]
                 /\ ledger'[Account[c]].max[d] = ledger[Account[c]].max[d]
  <1> DEFINE a == Account[c]
  <1>1. a \in Ledgers /\ ledger \in [Ledgers -> Ledger] /\ ledger[a] \in Ledger
    BY DEF Ledgers, TypeOK
  <1>2. CanReserve(ledger[a], cost) /\ cost \in [Dimension -> Int]
    BY Costs DEF Granted
  <1>3. ledger' = [ledger EXCEPT ![a] = Charge(ledger[a], cost)]
    OBVIOUS
  <1> HIDE DEF a
  <1>4. /\ Charge(ledger[a], cost) \in Ledger /\ WithinBudget(Charge(ledger[a], cost))
        /\ \A d \in Dimension : /\ Charge(ledger[a], cost).used[d] = ledger[a].used[d] + cost[d]
                                /\ Charge(ledger[a], cost).max[d] = ledger[a].max[d]
    BY <1>1, <1>2, ChargeFits
  <1>5. ledger'[a] = Charge(ledger[a], cost)
    BY <1>1, <1>3
  <1>6. ledger' \in [Ledgers -> Ledger] /\ \A b \in Ledgers \ {a} : ledger'[b] = ledger[b]
    BY <1>1, <1>3, <1>4
  <1> QED
    BY <1>1, <1>4, <1>5, <1>6 DEF a

(* The budget Continue works with: what the session stored, and its own pages. *)
LEMMA Extended ==
    ASSUME NEW l \in Ledger, NEW extra \in [Dimension -> Nat], NEW x,
           x = [l EXCEPT !.max = [d \in Dimension |-> l.max[d] + extra[d]]]
    PROVE  x \in Ledger /\ x.used = l.used /\ (WithinBudget(l) => WithinBudget(x))
  <1> DEFINE m == [d \in Dimension |-> l.max[d] + extra[d]]
  <1>1. /\ l.max \in [Dimension -> Nat] /\ l.used \in [Dimension -> Nat]
        /\ l = [max |-> l.max, used |-> l.used]
    BY DEF Ledger
  <1>2. m \in [Dimension -> Nat] /\ \A d \in Dimension : m[d] = l.max[d] + extra[d]
    BY <1>1
  <1>3. x = [max |-> m, used |-> l.used]
    BY <1>1
  <1>4. x.max = m /\ x.used = l.used
    BY <1>3
  <1> HIDE DEF m
  <1>5. x \in Ledger
    BY <1>1, <1>2, <1>3 DEF Ledger
  <1> QED
    BY <1>1, <1>2, <1>4, <1>5 DEF WithinBudget

----------------------------------------------------------------------------
(* searchOne. *)

(* SetOne changes one source of one call. *)
LEMMA SetOneFrame ==
    ASSUME TypeOK, NEW c \in Call, NEW s \in Source, NEW o \in One, SetOne(c, s, o)
    PROVE  /\ one'[c][s] = o /\ one' \in [Call -> [Source -> One]]
           /\ \A d \in Call, t \in Source : (d # c \/ t # s) => one'[d][t] = one[d][t]
  BY DEF TypeOK, SetOne

(* What upstream may answer. *)
LEMMA HitsFields ==
    ASSUME TypeOK, NEW c \in Call, NEW s \in Source
    PROVE  /\ Hits(c, s) \in SUBSET Candidate /\ HasMore(c, s) \in BOOLEAN
           /\ Hits(c, s) \subseteq {<<s, IF Op[c] = "query" THEN 0 ELSE PageOf(one[c][s])>>}
           /\ Op[c] # "query" => /\ HasMore(c, s) <=> PageOf(one[c][s]) < LastPage[s]
                                 /\ PageOf(one[c][s]) <= LastPage[s] => <<s, PageOf(one[c][s])>> \in Hits(c, s)
           /\ LastPage[s] \in 0..MaxPage
  <1> DEFINE n == PageOf(one[c][s])
  <1>1. n \in PageNo /\ n >= 1
    BY Pages DEF TypeOK
  <1>2. LastPage[s] \in 0..MaxPage /\ MaxPage \in Nat /\ 0 \in PageNo /\ QueryMore \in BOOLEAN
    BY SearchAssumption DEF SearchAssumption, PageNo
  <1> HIDE DEF n
  <1>3. CASE Op[c] = "query"
    BY <1>2, <1>3 DEF Hits, HasMore, Candidate
  <1>4. CASE Op[c] # "query"
    <2>1. Hits(c, s) = {<<s, p>> : p \in {n} \cap 1..LastPage[s]}
      BY <1>4 DEF Hits, n
    <2>2. Hits(c, s) \subseteq {<<s, n>>} /\ Hits(c, s) \in SUBSET Candidate
      BY <1>1, <2>1 DEF Candidate
    <2>3. n <= LastPage[s] => <<s, n>> \in Hits(c, s)
      BY <1>1, <1>2, <2>1 DEF PageNo
    <2>4. HasMore(c, s) <=> n < LastPage[s]
      BY <1>4 DEF HasMore, n
    <2>6. HasMore(c, s) \in BOOLEAN
      BY <1>4 DEF HasMore
    <2>5. (IF Op[c] = "query" THEN 0 ELSE PageOf(one[c][s])) = n
      BY <1>4 DEF n
    <2> QED
      BY <1>2, <1>4, <2>2, <2>3, <2>4, <2>5, <2>6 DEF n
  <1> QED
    BY <1>3, <1>4

(* What a step of searchOne on a source leaves as it is. *)
OneFrame(c, s) ==
    /\ UNCHANGED <<stored, mine, pc, round, sources, work, partial, expired, cut>>
    /\ one' \in [Call -> [Source -> One]]
    /\ \A d \in Call, t \in Source : (d # c \/ t # s) => one'[d][t] = one[d][t]
    /\ one'[c][s].cursor = one[c][s].cursor /\ one'[c][s].by = one[c][s].by
    /\ one[c][s].phase \in {"queued", "calling", "backoff", "recalling"}

(* The provider is called, or waited for. *)
OneCalls(c, s) ==
    LET o == one'[c][s] IN
    /\ o.phase \in {"calling", "backoff", "recalling"}
    /\ o.status = one[c][s].status /\ o.hits = one[c][s].hits /\ o.more = one[c][s].more

(* No page comes. *)
OneMisses(c, s) ==
    LET o == one'[c][s] IN
    /\ o.phase = "answered" /\ o.hits = {} /\ o.more = FALSE
    /\ o.status \in {"failed", "unavailable", "budget"}

(* A page comes, in budget or not. *)
OneGets(c, s) ==
    LET o == one'[c][s] IN
    /\ o.phase = "answered" /\ o.hits = Hits(c, s)
    /\ \/ o.status \in {"ok", "empty"} /\ o.more = HasMore(c, s)
       \/ o.status = "budget" /\ o.more = FALSE

(* What is charged. *)
OneCharge(c) ==
    \/ UNCHANGED <<ledger, made>>
    \/ /\ Granted(c, OneCall) /\ made' = [made EXCEPT ![Account[c]] = made[Account[c]] + 1]
       /\ ledger' = [ledger EXCEPT ![Account[c]] = Charge(ledger[Account[c]], OneCall)]
    \/ /\ Granted(c, ByteCost(1)) /\ made' = made
       /\ ledger' = [ledger EXCEPT ![Account[c]] = Charge(ledger[Account[c]], ByteCost(1))]

(* A step of searchOne calls the provider, misses or gets a page. *)
LEMMA OneMoves ==
    ASSUME TypeOK, NEW c \in Call, NEW s \in Source, SearchOne(c, s)
    PROVE  /\ OneFrame(c, s) /\ OneCharge(c)
           /\ OneCalls(c, s) \/ OneMisses(c, s) \/ OneGets(c, s)
  <1>1. one[c][s] \in One
    BY DEF TypeOK
  <1>2. ASSUME NEW ph \in {"calling", "backoff", "recalling"}, SetOne(c, s, [one[c][s] EXCEPT !.phase = ph]),
               one[c][s].phase \in {"queued", "calling", "backoff", "recalling"},
               UNCHANGED <<stored, mine, pc, round, sources, work, partial, expired, cut>>
        PROVE  OneFrame(c, s) /\ OneCalls(c, s)
    <2>1. SetOne(c, s, Phased(one[c][s], ph)) /\ ph \in PhaseName
      BY <1>2 DEF Phased, PhaseName
    <2> QED
      BY <1>1, <1>2, <2>1, PhasedFields, SetOneFrame DEF OneFrame, OneCalls
  <1>3. ASSUME NEW st \in Status, NEW h \in SUBSET Candidate, NEW m \in BOOLEAN,
               SetOne(c, s, Answer(one[c][s], st, h, m)),
               one[c][s].phase \in {"queued", "calling", "backoff", "recalling"},
               UNCHANGED <<stored, mine, pc, round, sources, work, partial, expired, cut>>
        PROVE  /\ OneFrame(c, s) /\ one'[c][s].phase = "answered" /\ one'[c][s].status = st
               /\ one'[c][s].hits = h /\ one'[c][s].more = m
    BY <1>1, <1>3, AnswerFields, SetOneFrame DEF OneFrame
  <1>4. {} \in SUBSET Candidate /\ FALSE \in BOOLEAN
        /\ "unavailable" \in Status /\ "budget" \in Status /\ "failed" \in Status
        /\ "ok" \in Status /\ "empty" \in Status
    BY DEF Status
  <1>5. CASE NoProvider(c, s)
    <2>1. PICK st \in {"unavailable", "failed"} : SetOne(c, s, Answer(one[c][s], st, {}, FALSE))
      BY <1>5 DEF NoProvider
    <2>3. OneFrame(c, s) /\ OneMisses(c, s)
      BY <1>3, <1>4, <1>5, <2>1 DEF NoProvider, OneMisses
    <2> QED
      BY <1>5, <2>3 DEF NoProvider, OneCharge
  <1>6. CASE AskProvider(c, s)
    <2>1. OneFrame(c, s) /\ OneCalls(c, s)
      BY <1>2, <1>6 DEF AskProvider
    <2> QED
      BY <1>6, <2>1 DEF AskProvider, OneCharge, Called
  <1>7. CASE BudgetRefuses(c, s)
    <2>1. OneFrame(c, s) /\ OneMisses(c, s)
      BY <1>3, <1>4, <1>7 DEF BudgetRefuses, OneMisses
    <2> QED
      BY <1>7, <2>1 DEF BudgetRefuses, OneCharge
  <1>8. CASE PageArrives(c, s)
    <2>1. Hits(c, s) \in SUBSET Candidate /\ HasMore(c, s) \in BOOLEAN
      BY HitsFields
    <2>2. CASE Granted(c, ByteCost(1))
      <3> DEFINE st == IF Hits(c, s) = {} THEN "empty" ELSE "ok"
      <3>1. /\ SetOne(c, s, Answer(one[c][s], st, Hits(c, s), HasMore(c, s)))
            /\ ledger' = [ledger EXCEPT ![Account[c]] = Charge(ledger[Account[c]], ByteCost(1))]
            /\ one[c][s].phase \in {"calling", "recalling"}
            /\ UNCHANGED <<stored, mine, pc, round, sources, work, partial, made, expired, cut>>
        BY <1>8, <2>2 DEF PageArrives
      <3>2. st \in {"ok", "empty"} /\ st \in Status
        BY <1>4
      <3> HIDE DEF st
      <3>3. /\ OneFrame(c, s) /\ one'[c][s].phase = "answered" /\ one'[c][s].status = st
            /\ one'[c][s].hits = Hits(c, s) /\ one'[c][s].more = HasMore(c, s)
        BY <1>3, <2>1, <3>1, <3>2
      <3> QED
        BY <2>2, <3>1, <3>2, <3>3 DEF OneGets, OneCharge
    <2>3. CASE ~Granted(c, ByteCost(1))
      <3>1. /\ SetOne(c, s, Answer(one[c][s], "budget", Hits(c, s), FALSE))
            /\ ledger' = ledger
            /\ one[c][s].phase \in {"calling", "recalling"}
            /\ UNCHANGED <<stored, mine, pc, round, sources, work, partial, made, expired, cut>>
        BY <1>8, <2>3 DEF PageArrives
      <3>2. /\ OneFrame(c, s) /\ one'[c][s].phase = "answered" /\ one'[c][s].status = "budget"
            /\ one'[c][s].hits = Hits(c, s) /\ one'[c][s].more = FALSE
        BY <1>3, <1>4, <2>1, <3>1
      <3> QED
        BY <2>3, <3>1, <3>2 DEF OneGets, OneCharge
    <2> QED
      BY <2>2, <2>3
  <1>9. CASE Backoff(c, s)
    <2>1. OneFrame(c, s) /\ OneCalls(c, s)
      BY <1>2, <1>9 DEF Backoff
    <2> QED
      BY <1>9, <2>1 DEF Backoff, OneCharge
  <1>10. CASE AskAgain(c, s)
    <2>1. OneFrame(c, s) /\ OneCalls(c, s)
      BY <1>2, <1>10 DEF AskAgain
    <2> QED
      BY <1>10, <2>1 DEF AskAgain, PayAgain, OneCharge, Called
  <1>11. CASE SourceFails(c, s)
    <2>1. PICK st \in {"failed", "unavailable", "budget"} : SetOne(c, s, Answer(one[c][s], st, {}, FALSE))
      BY <1>11 DEF SourceFails
    <2>2. OneFrame(c, s) /\ OneMisses(c, s)
      BY <1>3, <1>4, <1>11, <2>1 DEF SourceFails, OneMisses
    <2> QED
      BY <1>11, <2>2 DEF SourceFails, OneCharge
  <1> QED
    BY <1>5, <1>6, <1>7, <1>8, <1>9, <1>10, <1>11 DEF SearchOne

(* A Query that is refused has no source in its wave. *)
LEMMA RefusedFrame ==
    ASSUME TypeOK, NEW c \in Call, NEW s \in Source, QueryRefused(c, s)
    PROVE  /\ one' \in [Call -> [Source -> One]] /\ one'[c][s] = Off
           /\ \A d \in Call, t \in Source : (d # c \/ t # s) => one'[d][t] = one[d][t]
           /\ \A d \in Call : d # c => one'[d] = one[d]
  <1>1. SetOne(c, s, Off) /\ Off \in One
    BY OffFields DEF QueryRefused
  <1>2. one' = [one EXCEPT ![c][s] = Off]
    BY <1>1 DEF SetOne
  <1>3. \A d \in Call : d # c => one'[d] = one[d]
    BY <1>2 DEF TypeOK
  <1> QED
    BY <1>1, <1>3, SetOneFrame DEF TypeOK

----------------------------------------------------------------------------
(* Records and waves. *)

(* The record a call has at the end of a wave. *)
LEMMA Merged ==
    ASSUME TypeOK, Resuming, NEW c \in Call, EndWave(c)
    PROVE  /\ work' \in [Call -> Record]
           /\ \A d \in Call : d # c => work'[d] = work[d]
           /\ work'[c].candidates = Gathered(c)
           /\ \A s \in Source :
                /\ work'[c].frontiers[s] = IF s \in Answered(c)
                       THEN NextCursor(one[c][s], Chain(one[c][s])) ELSE work[c].frontiers[s]
                /\ work'[c].runs[s] = IF s \in Answered(c)
                       THEN MergedStatus(work[c].runs[s], one[c][s].status) ELSE work[c].runs[s]
           /\ work'[c].budget = work[c].budget
  <1> DEFINE fr == [s \in Source |-> IF s \in Answered(c) THEN NextCursor(one[c][s], Chain(one[c][s]))
                                    ELSE work[c].frontiers[s]]
             ru == [s \in Source |-> IF s \in Answered(c)
                                    THEN MergedStatus(work[c].runs[s], one[c][s].status)
                                    ELSE work[c].runs[s]]
             R == [request |-> TRUE, candidates |-> Gathered(c), frontiers |-> fr, runs |-> ru,
                   budget |-> work[c].budget]
  <1>1. /\ work[c] \in Record /\ work \in [Call -> Record]
        /\ \A s \in Source : one[c][s] \in One
    BY DEF TypeOK
  <1>2. /\ work[c].candidates \in SUBSET Candidate /\ work[c].frontiers \in [Source -> Frontier]
        /\ work[c].runs \in [Source -> Status] /\ work[c].budget \in Ledger
    BY <1>1, RecordFields
  <1>3. Gathered(c) \in SUBSET Candidate
    <2>1. \A s \in Source : one[c][s].hits \in SUBSET Candidate
      BY <1>1, OneFields
    <2> QED
      BY <1>2, <2>1 DEF Gathered, Answered
  <1>4. fr \in [Source -> Frontier]
    <2>1. ASSUME NEW s \in Source PROVE NextCursor(one[c][s], Chain(one[c][s])) \in Frontier
      <3>1. Chain(one[c][s]) \in {"search", "query"}
        BY DEF Chain
      <3>2. one[c][s].more => PageOf(one[c][s]) < MaxPage
        BY DEF Resuming, SoundCall, SoundOne
      <3> QED
        BY <1>1, <3>1, <3>2, NextCursorFields
    <2> QED
      BY <1>2, <2>1
  <1>5. ru \in [Source -> Status]
    <2>1. ASSUME NEW s \in Source PROVE MergedStatus(work[c].runs[s], one[c][s].status) \in Status
      <3>1. one[c][s].status \in Status /\ work[c].runs[s] \in Status
        BY <1>1, <1>2, OneFields
      <3> QED
        BY <3>1 DEF MergedStatus
    <2> QED
      BY <1>2, <2>1
  <1>6. work' = [work EXCEPT ![c] = R]
    BY DEF EndWave, MergedFrontier
  <1> HIDE DEF fr, ru
  <1>7. R \in Record
    BY <1>2, <1>3, <1>4, <1>5 DEF Record
  <1>8. /\ R.candidates = Gathered(c) /\ R.frontiers = fr /\ R.runs = ru
        /\ R.budget = work[c].budget
    OBVIOUS
  <1> HIDE DEF R
  <1>9. /\ work' \in [Call -> Record] /\ work'[c] = R
        /\ \A d \in Call : d # c => work'[d] = work[d]
    BY <1>1, <1>6, <1>7
  <1> QED
    BY <1>8, <1>9 DEF fr, ru

(* The record a Query stores. *)
LEMMA QueryStored ==
    ASSUME TypeOK, Resuming, NEW c \in Call, NEW s \in Source, QueryWriteBack(c, s)
    PROVE  \E base \in {stored, mine[c]} :
                /\ stored' \in Record /\ stored'.budget = ledger[Account[c]]
                /\ stored'.candidates = base.candidates \cup one[c][s].hits
                /\ \/ stored'.frontiers = base.frontiers
                   \/ /\ one[c][s].more
                      /\ stored'.frontiers = [base.frontiers EXCEPT ![s] = NextCursor(one[c][s], "query")]
                      /\ NextCursor(one[c][s], "query") \in Frontier
  <1> DEFINE o == one[c][s]
             base == IF SharedRecord THEN stored ELSE mine[c]
             fr == IF o.more THEN [base.frontiers EXCEPT ![s] = NextCursor(o, "query")]
                   ELSE base.frontiers
             ru == [base.runs EXCEPT ![s] = o.status]
             C == base.candidates \cup o.hits
             b == ledger[Account[c]]
             rq == base.request
             R == [request |-> rq, candidates |-> C, frontiers |-> fr, runs |-> ru, budget |-> b]
  <1>1. stored' = R
    BY DEF QueryWriteBack
  <1>2. o \in One /\ base \in Record /\ base \in {stored, mine[c]}
    BY DEF TypeOK
  <1>3. /\ base.candidates \in SUBSET Candidate /\ base.frontiers \in [Source -> Frontier]
        /\ base.runs \in [Source -> Status] /\ rq \in BOOLEAN
    <2> HIDE DEF base
    <2> QED
      BY <1>2, RecordFields
  <1>4. b \in Ledger
    BY DEF TypeOK, Ledgers
  <1>5. o.more => PageOf(o) < MaxPage
    BY DEF Resuming, SoundCall, SoundOne
  <1> HIDE DEF o, base
  <1>6. NextCursor(o, "query") \in Frontier
    BY <1>2, <1>5, NextCursorFields
  <1>7. fr \in [Source -> Frontier]
    BY <1>3, <1>6
  <1>8. ru \in [Source -> Status]
    BY <1>2, <1>3, OneFields
  <1>9. C \in SUBSET Candidate
    BY <1>2, <1>3, OneFields
  <1>10. /\ fr = base.frontiers \/ (o.more /\ fr = [base.frontiers EXCEPT ![s] = NextCursor(o, "query")])
         /\ C = base.candidates \cup o.hits
    OBVIOUS
  <1> HIDE DEF fr, ru, C, b, rq
  <1>11. R \in Record /\ R.candidates = C /\ R.frontiers = fr /\ R.budget = b
    BY <1>3, <1>4, <1>7, <1>8, <1>9 DEF Record
  <1> HIDE DEF R
  <1> QED
    BY <1>1, <1>2, <1>6, <1>10, <1>11 DEF o, b

(* The record Search and Continue store. *)
LEMMA Stored ==
    ASSUME TypeOK, NEW c \in Call, WriteBack(c)
    PROVE  /\ stored' \in Record /\ stored'.budget = ledger[Account[c]]
           /\ stored'.candidates = work[c].candidates /\ stored'.frontiers = work[c].frontiers
  <1> DEFINE R == work[c]
             b == ledger[Account[c]]
  <1>1. R \in Record /\ b \in Ledger
    BY DEF TypeOK, Ledgers
  <1>2. stored' = [R EXCEPT !.budget = b]
    BY DEF WriteBack
  <1> HIDE DEF R, b
  <1>3. stored' \in Record /\ stored'.budget = b /\ stored'.candidates = R.candidates
        /\ stored'.frontiers = R.frontiers
    BY <1>1, <1>2 DEF Record
  <1> QED
    BY <1>3 DEF R, b

(* Search marks the record with its request, at most. *)
LEMMA Requested ==
    ASSUME TypeOK, NEW c \in Call, StartSearch(c)
    PROVE  /\ stored' \in Record /\ stored'.budget = stored.budget
           /\ stored'.candidates = stored.candidates /\ stored'.frontiers = stored.frontiers
  <1>1. stored \in Record /\ (stored' = stored \/ stored' = [stored EXCEPT !.request = TRUE])
    BY DEF TypeOK, StartSearch
  <1> QED
    BY <1>1 DEF Record

(* The wave a call starts with. *)
LEMMA FirstWave ==
    ASSUME TypeOK, NEW c \in Call, StartSearch(c) \/ StartQuery(c)
    PROVE  /\ one' \in [Call -> [Source -> One]]
           /\ \A d \in Call : d # c => one'[d] = one[d]
           /\ \A s \in Source : one'[c][s] = Queued(NoFrontier) \/ one'[c][s] = Off
           /\ \A s \in Asked[c] : one'[c][s] = Queued(NoFrontier)
           /\ Asked[c] \in SUBSET Source
  <1> DEFINE W == Wave(Asked[c], NewRecord.frontiers)
  <1>1. Asked[c] \in SUBSET Source
    BY SearchAssumption DEF SearchAssumption
  <1>2. NewRecord.frontiers \in [Source -> Frontier] /\ \A s \in Source : NewRecord.frontiers[s] = NoFrontier
    BY NewRecordFields, NoFrontierFields
  <1>3. one' = [one EXCEPT ![c] = W]
    BY DEF StartSearch, StartQuery
  <1>4. /\ W \in [Source -> One]
        /\ \A s \in Source : /\ s \in Asked[c] => W[s] = Queued(NoFrontier)
                             /\ s \notin Asked[c] => W[s] = Off
    BY <1>1, <1>2, WaveFields
  <1> HIDE DEF W
  <1>5. one' \in [Call -> [Source -> One]] /\ one'[c] = W
    BY <1>3, <1>4 DEF TypeOK
  <1>6. \A d \in Call : d # c => one'[d] = one[d]
    BY <1>3 DEF TypeOK
  <1>9. \A s \in Source : one'[c][s] = W[s]
    BY <1>5
  <1>7. \A s \in Source : one'[c][s] = Queued(NoFrontier) \/ one'[c][s] = Off
    BY <1>4, <1>9, Zenon
  <1>8. \A s \in Asked[c] : one'[c][s] = Queued(NoFrontier)
    BY <1>1, <1>4, <1>9, Zenon
  <1> QED
    BY <1>1, <1>5, <1>6, <1>7, <1>8

(* The later ones go to sources that have more. *)
LEMMA LaterWave ==
    ASSUME TypeOK, NEW c \in Call, NextWave(c)
    PROVE  /\ one' \in [Call -> [Source -> One]]
           /\ \A d \in Call : d # c => one'[d] = one[d]
           /\ \A s \in Source :
                \/ one'[c][s] = Off
                \/ /\ one'[c][s] = Queued(work[c].frontiers[s]) /\ work[c].frontiers[s] \in Frontier
                   /\ work[c].frontiers[s].more
                   /\ Op[c] = "search" \/ work[c].frontiers[s].cursor # 0
  <1>1. PICK S \in More(c) \ {{}} : one' = [one EXCEPT ![c] = Wave(S, work[c].frontiers)]
    BY DEF NextWave
  <1> DEFINE W == Wave(S, work[c].frontiers)
  <1>2. /\ S \in SUBSET Source /\ \A s \in S : work[c].frontiers[s].more
        /\ Op[c] = "search" \/ \A s \in S : work[c].frontiers[s].cursor # 0
    <2>1. CASE Op[c] = "search"
      <3>1. S \in SearchMore(c) /\ S # {}
        BY <1>1, <2>1 DEF More
      <3>2. \/ S = {s \in Source : work[c].frontiers[s].more}
            \/ S \in SUBSET {s \in Answered(c) : work[c].frontiers[s].more}
        BY <3>1 DEF SearchMore
      <3> QED
        BY <2>1, <3>2 DEF Answered
    <2>2. CASE Op[c] # "search"
      <3>1. S \in ContinueMore(c) /\ S # {} /\ sources[c] \in SUBSET Source
        BY <1>1, <2>2 DEF More, TypeOK
      <3>2. S = {s \in sources[c] : work[c].frontiers[s].more /\ work[c].frontiers[s].cursor # 0}
        BY <3>1 DEF ContinueMore
      <3> QED
        BY <3>1, <3>2
    <2> QED
      BY <2>1, <2>2
  <1>3. work[c].frontiers \in [Source -> Frontier]
    BY RecordFields DEF TypeOK
  <1>4. /\ W \in [Source -> One]
        /\ \A s \in Source : /\ s \in S => W[s] = Queued(work[c].frontiers[s])
                             /\ s \notin S => W[s] = Off
    BY <1>2, <1>3, WaveFields
  <1>8. one' = [one EXCEPT ![c] = W]
    BY <1>1
  <1> HIDE DEF W
  <1>5. one' \in [Call -> [Source -> One]] /\ one'[c] = W
    BY <1>4, <1>8 DEF TypeOK
  <1>6. \A d \in Call : d # c => one'[d] = one[d]
    BY <1>8 DEF TypeOK
  <1>7. ASSUME NEW s \in Source
        PROVE  \/ one'[c][s] = Off
               \/ /\ one'[c][s] = Queued(work[c].frontiers[s]) /\ work[c].frontiers[s] \in Frontier
                  /\ work[c].frontiers[s].more
                  /\ Op[c] = "search" \/ work[c].frontiers[s].cursor # 0
    <2>1. CASE s \in S
      <3>1. one'[c][s] = Queued(work[c].frontiers[s]) /\ work[c].frontiers[s] \in Frontier
        <4>1. one'[c][s] = W[s] /\ W[s] = Queued(work[c].frontiers[s])
          BY <1>4, <1>5, <2>1, Zenon
        <4> QED
          BY <1>3, <4>1
      <3> QED
        BY <1>2, <2>1, <3>1
    <2>2. CASE s \notin S
      BY <1>4, <1>5, <2>2
    <2> QED
      BY <2>1, <2>2
  <1> QED
    BY <1>5, <1>6, <1>7

(* Continue takes the record and its budget, extended. *)
LEMMA Continued ==
    ASSUME TypeOK, NEW c \in Call, StartContinue(c)
    PROVE  /\ Account[c] \in Ledgers /\ ledger' \in [Ledgers -> Ledger]
           /\ \A a \in Ledgers \ {Account[c]} : ledger'[a] = ledger[a] /\ made'[a] = made[a]
           /\ ledger'[Account[c]].used = stored.budget.used
           /\ WithinBudget(stored.budget) => WithinBudget(ledger'[Account[c]])
           /\ made' \in [Ledgers -> Nat] /\ made'[Account[c]] = stored.budget.used["calls"]
           /\ work' \in [Call -> Record] /\ work'[c] = stored
           /\ \A d \in Call : d # c => work'[d] = work[d]
           /\ ContinueSources(c) \in SUBSET Source
  <1> DEFINE l == stored.budget
             n == Cardinality(ContinueSources(c)) * MaxAdditional
             extra == [d \in Dimension |-> IF d = "calls" THEN n ELSE 0]
             x == [l EXCEPT !.max = [d \in Dimension |-> l.max[d] + extra[d]]]
  <1>1. l \in Ledger /\ Account[c] \in Ledgers /\ stored \in Record
    BY RecordFields DEF TypeOK, Ledgers
  <1>2. ContinueSources(c) \in SUBSET Source
    BY SearchAssumption DEF SearchAssumption, ContinueSources
  <1>3. n \in Nat
    <2>1. IsFiniteSet(ContinueSources(c))
      BY <1>2, SearchAssumption, FS_Subset DEF SearchAssumption
    <2>2. Cardinality(ContinueSources(c)) \in Nat /\ MaxAdditional \in Nat
      BY <2>1, SearchAssumption, FS_CardinalityType DEF SearchAssumption
    <2> QED
      BY <2>2
  <1>4. /\ ledger' = [ledger EXCEPT ![Account[c]] = x]
        /\ made' = [made EXCEPT ![Account[c]] = l.used["calls"]]
        /\ work' = [work EXCEPT ![c] = stored]
    BY DEF StartContinue
  <1> HIDE DEF n
  <1>5. extra \in [Dimension -> Nat]
    BY <1>3
  <1> HIDE DEF l, extra
  <1>6. x = [l EXCEPT !.max = [d \in Dimension |-> l.max[d] + extra[d]]]
    OBVIOUS
  <1> HIDE DEF x
  <1>7. x \in Ledger /\ x.used = l.used /\ (WithinBudget(l) => WithinBudget(x))
    BY <1>1, <1>5, <1>6, Extended
  <1>8. l.used["calls"] \in Nat
    BY <1>1 DEF Ledger, Dimension
  <1>9. /\ ledger' \in [Ledgers -> Ledger] /\ ledger'[Account[c]] = x
        /\ \A a \in Ledgers \ {Account[c]} : ledger'[a] = ledger[a] /\ made'[a] = made[a]
        /\ made' \in [Ledgers -> Nat] /\ made'[Account[c]] = l.used["calls"]
    BY <1>1, <1>4, <1>7, <1>8 DEF TypeOK
  <1>10. /\ work' \in [Call -> Record] /\ work'[c] = stored
         /\ \A d \in Call : d # c => work'[d] = work[d]
    BY <1>1, <1>4 DEF TypeOK
  <1> QED
    BY <1>1, <1>2, <1>7, <1>9, <1>10 DEF l

----------------------------------------------------------------------------
(* Types. *)

(* The initial state is well typed. *)
LEMMA TypeInit == Init => TypeOK
  <1> SUFFICES ASSUME Init PROVE TypeOK
    OBVIOUS
  <1>1. ledger \in [Ledgers -> Ledger]
    <2>1. \A a \in Ledgers : NewLedger(Limits[a]) \in Ledger
      BY SearchAssumption DEF SearchAssumption, NewLedger, Ledger
    <2> QED
      BY <2>1 DEF Init
  <1>2. stored \in Record /\ mine \in [Call -> Record] /\ work \in [Call -> Record]
    BY NewRecordFields DEF Init
  <1>3. one \in [Call -> [Source -> One]]
    BY OffFields DEF Init
  <1>4. partial \in [Call -> BOOLEAN] /\ cut \in [Call -> SUBSET Source]
    BY DEF Init
  <1> QED
    BY <1>1, <1>2, <1>3, <1>4 DEF Init, TypeOK

(* Every step keeps the state well typed. *)
LEMMA TypeNext == TypeOK /\ Resuming /\ [Next]_vars => TypeOK'
  <1> SUFFICES ASSUME TypeOK, Resuming, [Next]_vars PROVE TypeOK'
    OBVIOUS
  <1>1. ASSUME NEW c \in Call, StartSearch(c) PROVE TypeOK'
    <2>1. work' \in [Call -> Record]
      BY <1>1, NewRecordFields DEF TypeOK, StartSearch
    <2>2. sources' \in [Call -> SUBSET Source] /\ pc' \in [Call -> {"idle", "wave", "choose", "done"}]
      BY <1>1, FirstWave DEF TypeOK, StartSearch
    <2>3. stored' \in Record /\ one' \in [Call -> [Source -> One]]
      BY <1>1, Requested, FirstWave
    <2> QED
      BY <1>1, <2>1, <2>2, <2>3 DEF TypeOK, StartSearch
  <1>2. ASSUME NEW c \in Call, StartContinue(c) PROVE TypeOK'
    <2>1. /\ ledger' \in [Ledgers -> Ledger] /\ made' \in [Ledgers -> Nat]
          /\ work' \in [Call -> Record] /\ ContinueSources(c) \in SUBSET Source
      BY <1>2, Continued
    <2> QED
      BY <1>2, <2>1 DEF TypeOK, StartContinue
  <1>3. ASSUME NEW c \in Call, ContinueNothing(c) PROVE TypeOK'
    BY <1>3 DEF TypeOK, ContinueNothing
  <1>4. ASSUME NEW c \in Call, StartQuery(c) PROVE TypeOK'
    <2>1. one' \in [Call -> [Source -> One]]
      BY <1>4, FirstWave
    <2> QED
      BY <1>4, <2>1 DEF TypeOK, StartQuery
  <1>5. ASSUME NEW c \in Call, EndWave(c) PROVE TypeOK'
    <2>1. work' \in [Call -> Record]
      BY <1>5, Merged
    <2>2. cut' \in [Call -> SUBSET Source]
      <3>1. \A S \in SUBSET Source : [cut EXCEPT ![c] = cut[c] \cup S] \in [Call -> SUBSET Source]
        BY DEF TypeOK
      <3> QED
        BY <1>5, <3>1 DEF EndWave, Answered
    <2> QED
      BY <1>5, <2>1, <2>2 DEF TypeOK, EndWave
  <1>6. ASSUME NEW c \in Call, NextWave(c) PROVE TypeOK'
    <2>1. one' \in [Call -> [Source -> One]]
      BY <1>6, LaterWave
    <2> QED
      BY <1>6, <2>1 DEF TypeOK, NextWave
  <1>7. ASSUME NEW c \in Call, WriteBack(c) PROVE TypeOK'
    <2>1. stored' \in Record
      BY <1>7, Stored
    <2>2. partial' \in [Call -> BOOLEAN]
      BY <1>7 DEF TypeOK, WriteBack
    <2> QED
      BY <1>7, <2>1, <2>2 DEF TypeOK, WriteBack
  <1>8. ASSUME NEW c \in Call, NEW s \in Source, SearchOne(c, s) PROVE TypeOK'
    <2>1. OneFrame(c, s) /\ OneCharge(c)
      BY <1>8, OneMoves
    <2>2. CASE UNCHANGED <<ledger, made>>
      BY <2>1, <2>2 DEF OneFrame, TypeOK
    <2>3. CASE /\ Granted(c, OneCall) /\ made' = [made EXCEPT ![Account[c]] = made[Account[c]] + 1]
               /\ ledger' = [ledger EXCEPT ![Account[c]] = Charge(ledger[Account[c]], OneCall)]
      <3>1. ledger' \in [Ledgers -> Ledger]
        BY <2>3, GrantedCharge
      <3>2. made' \in [Ledgers -> Nat]
        <4>1. made \in [Ledgers -> Nat]
          BY DEF TypeOK
        <4>2. Account[c] \in Ledgers
          BY DEF Ledgers
        <4> QED
          BY <2>3, <4>1, <4>2
      <3> QED
        BY <2>1, <3>1, <3>2 DEF OneFrame, TypeOK
    <2>4. CASE /\ Granted(c, ByteCost(1)) /\ made' = made
               /\ ledger' = [ledger EXCEPT ![Account[c]] = Charge(ledger[Account[c]], ByteCost(1))]
      <3>1. ledger' \in [Ledgers -> Ledger]
        BY <2>4, GrantedCharge
      <3> QED
        BY <2>1, <2>4, <3>1 DEF OneFrame, TypeOK
    <2> QED
      BY <2>1, <2>2, <2>3, <2>4 DEF OneCharge
  <1>9. ASSUME NEW c \in Call, NEW s \in Source, QueryWriteBack(c, s) PROVE TypeOK'
    <2>1. stored' \in Record
      BY <1>9, QueryStored DEF TypeOK
    <2> QED
      BY <1>9, <2>1 DEF TypeOK, QueryWriteBack
  <1>10. ASSUME NEW a \in Ledgers, Expire(a) PROVE TypeOK'
    BY <1>10 DEF TypeOK, Expire
  <1>11. CASE UNCHANGED vars
    BY <1>11 DEF TypeOK, vars
  <1>12. ASSUME NEW c \in Call, NEW s \in Source, QueryRefused(c, s) PROVE TypeOK'
    <2>1. one' \in [Call -> [Source -> One]]
      BY <1>12, RefusedFrame
    <2> QED
      BY <1>12, <2>1 DEF TypeOK, QueryRefused
  <1> QED
    BY <1>1, <1>2, <1>3, <1>4, <1>5, <1>6, <1>7, <1>8, <1>9, <1>10, <1>11, <1>12 DEF Next, Step

----------------------------------------------------------------------------
(* Budgets. *)

(* Every step pays for what it asks. *)
LEMMA PaidNext == TypeOK /\ Resuming /\ Paid /\ [Next]_vars => Paid'
  <1> SUFFICES ASSUME TypeOK, Resuming, Paid, [Next]_vars PROVE Paid'
    OBVIOUS
  <1>1. CASE UNCHANGED <<stored, ledger, made>>
    BY <1>1 DEF Paid
  <1>2. ASSUME UNCHANGED <<ledger, made>>, WithinBudget(stored'.budget) PROVE Paid'
    BY <1>2 DEF Paid
  <1>3. ASSUME NEW c \in Call, StartSearch(c) PROVE Paid'
    <2>1. stored'.budget = stored.budget /\ UNCHANGED <<ledger, made>>
      BY <1>3, Requested DEF StartSearch
    <2> QED
      BY <1>2, <2>1 DEF Paid
  <1>4. ASSUME NEW c \in Call, StartContinue(c) PROVE Paid'
    <2>1. /\ \A a \in Ledgers \ {Account[c]} : ledger'[a] = ledger[a] /\ made'[a] = made[a]
          /\ ledger'[Account[c]].used = stored.budget.used
          /\ WithinBudget(ledger'[Account[c]])
          /\ made'[Account[c]] = stored.budget.used["calls"]
      BY <1>4, Continued DEF Paid
    <2>2. stored' = stored
      BY <1>4 DEF StartContinue
    <2> QED
      BY <2>1, <2>2 DEF Paid
  <1>5. ASSUME NEW c \in Call, WriteBack(c) \/ (\E s \in Source : QueryWriteBack(c, s)) PROVE Paid'
    <2>1. UNCHANGED <<ledger, made>>
      BY <1>5 DEF WriteBack, QueryWriteBack
    <2>2. stored'.budget = ledger[Account[c]]
      BY <1>5, Stored, QueryStored
    <2>3. WithinBudget(ledger[Account[c]])
      BY DEF Paid, Ledgers
    <2> QED
      BY <1>2, <2>1, <2>2, <2>3 DEF Paid
  <1>6. ASSUME NEW c \in Call, NEW s \in Source, SearchOne(c, s) PROVE Paid'
    <2>1. OneFrame(c, s) /\ OneCharge(c)
      BY <1>6, OneMoves
    <2>2. CASE UNCHANGED <<ledger, made>>
      BY <1>1, <2>1, <2>2 DEF OneFrame
    <2>3. ASSUME NEW n,
                 \A a \in Ledgers \ {Account[c]} : ledger'[a] = ledger[a] /\ made'[a] = made[a],
                 WithinBudget(ledger'[Account[c]]), made'[Account[c]] = made[Account[c]] + n,
                 ledger'[Account[c]].used["calls"] = ledger[Account[c]].used["calls"] + n
          PROVE  Paid'
      BY <2>1, <2>3 DEF Paid, OneFrame
    <2>4. CASE /\ Granted(c, OneCall) /\ made' = [made EXCEPT ![Account[c]] = made[Account[c]] + 1]
               /\ ledger' = [ledger EXCEPT ![Account[c]] = Charge(ledger[Account[c]], OneCall)]
      <3>1. /\ Account[c] \in Ledgers /\ WithinBudget(ledger'[Account[c]])
            /\ \A a \in Ledgers \ {Account[c]} : ledger'[a] = ledger[a]
            /\ \A d \in Dimension :
                  ledger'[Account[c]].used[d] = ledger[Account[c]].used[d] + OneCall[d]
        BY <2>4, GrantedCharge
      <3>2. ledger'[Account[c]].used["calls"] = ledger[Account[c]].used["calls"] + 1
        BY <3>1, Costs
      <3>3. /\ \A a \in Ledgers \ {Account[c]} : made'[a] = made[a]
            /\ made'[Account[c]] = made[Account[c]] + 1
        BY <2>4, <3>1 DEF TypeOK
      <3> QED
        BY <2>3, <3>1, <3>2, <3>3
    <2>5. CASE /\ Granted(c, ByteCost(1)) /\ made' = made
               /\ ledger' = [ledger EXCEPT ![Account[c]] = Charge(ledger[Account[c]], ByteCost(1))]
      <3>1. /\ Account[c] \in Ledgers /\ WithinBudget(ledger'[Account[c]])
            /\ \A a \in Ledgers \ {Account[c]} : ledger'[a] = ledger[a]
            /\ \A d \in Dimension :
                  ledger'[Account[c]].used[d] = ledger[Account[c]].used[d] + ByteCost(1)[d]
        BY <2>5, GrantedCharge
      <3>2. ledger'[Account[c]].used["calls"] = ledger[Account[c]].used["calls"] + 0
        BY <3>1, Costs
      <3>3. made'[Account[c]] = made[Account[c]] + 0
        BY <2>5, <3>1 DEF TypeOK
      <3> QED
        BY <2>3, <2>5, <3>1, <3>2, <3>3
    <2> QED
      BY <2>1, <2>2, <2>4, <2>5 DEF OneCharge
  <1>7. ASSUME NEW c \in Call,
               \/ ContinueNothing(c) \/ StartQuery(c) \/ EndWave(c) \/ NextWave(c)
               \/ \E s \in Source : QueryRefused(c, s)
        PROVE  UNCHANGED <<stored, ledger, made>>
    BY <1>7 DEF ContinueNothing, StartQuery, EndWave, NextWave, QueryRefused
  <1>8. ASSUME NEW a \in Ledgers, Expire(a) PROVE UNCHANGED <<stored, ledger, made>>
    BY <1>8 DEF Expire
  <1>9. CASE UNCHANGED vars
    BY <1>1, <1>9 DEF vars
  <1> QED
    BY <1>1, <1>3, <1>4, <1>5, <1>6, <1>7, <1>8, <1>9 DEF Next, Step

----------------------------------------------------------------------------
(* Cursors. *)

(* What makes a record sound is in its candidates and frontiers. *)
LEMMA SameRecord ==
    ASSUME NEW R, NEW Q, SoundRecord(R), Q.candidates = R.candidates, Q.frontiers = R.frontiers
    PROVE  SoundRecord(Q)
  BY DEF SoundRecord

\* An empty record is sound.
LEMMA NewRecordSound == SoundRecord(NewRecord)
  BY NewRecordFields, NoFrontierFields DEF SoundRecord

(* The record after a wave: a source that answered has the page before its    *)
(* new cursor, and no source gave a page of another.                         *)
LEMMA MergedSound ==
    ASSUME TypeOK, Resuming, NEW c \in Call, EndWave(c)
    PROVE  SoundRecord(work'[c])
  <1> DEFINE C == work[c].candidates
             D == work'[c].candidates
  <1>1. /\ D = C \cup UNION {one[c][t].hits : t \in Answered(c)}
        /\ Op[c] # "query" /\ pc[c] = "wave"
    BY Merged DEF Gathered, EndWave
  <1>2. ASSUME NEW t \in Source
        PROVE  one[c][t].hits \subseteq {<<t, PageOf(one[c][t])>>}
    BY <1>1 DEF Resuming, SoundCall, SoundOne
  <1>3. ASSUME NEW s \in Source, NEW p
        PROVE  <<s, p>> \in D <=> \/ <<s, p>> \in C
                                  \/ s \in Answered(c) /\ <<s, p>> \in one[c][s].hits
    <2>1. ASSUME NEW t \in Answered(c), <<s, p>> \in one[c][t].hits PROVE t = s
      BY <1>2, <2>1 DEF Answered
    <2> QED
      BY <1>1, <2>1
  <1> HIDE DEF C, D
  <1>4. ASSUME NEW s \in Source, work'[c].frontiers[s].more
        PROVE  /\ work'[c].frontiers[s].cursor >= 2
               /\ work'[c].frontiers[s].by # "query" => Before(D, s, work'[c].frontiers[s].cursor)
    <2>1. CASE s \in Answered(c)
      <3> DEFINE o == one[c][s]
                 n == PageOf(o)
      <3>1. o \in One /\ n \in PageNo /\ n >= 1 /\ Chain(o) \in {"search", "query"}
        BY Pages DEF TypeOK, Chain
      <3>2. /\ o.more => n < MaxPage /\ <<s, n>> \in o.hits
            /\ o.hits \subseteq {<<s, n>>}
            /\ o.by # "query" => Before(C, s, n)
        BY <1>1, <2>1 DEF Resuming, SoundCall, SoundOne, SoundWave, Answered, C
      <3>3. work'[c].frontiers[s] = NextCursor(o, Chain(o))
        BY <2>1, Merged
      <3> HIDE DEF o, n
      <3>4. o.more => PageOf(o) < MaxPage
        BY <3>2 DEF n
      <3>5. /\ o.more /\ work'[c].frontiers[s].cursor = n + 1
            /\ work'[c].frontiers[s].by = Chain(o)
        BY <1>4, <3>1, <3>3, <3>4, NextCursorFields DEF n
      <3>6. ASSUME work'[c].frontiers[s].by # "query" PROVE Before(D, s, n + 1)
        <4>1. Before(C, s, n)
          BY <3>2, <3>5, <3>6 DEF Chain
        <4>2. ASSUME NEW p \in PageNo, p >= 1 PROVE <<s, p>> \in D <=> p < n + 1
          <5>1. <<s, p>> \in o.hits <=> p = n
            BY <3>2, <3>5
          <5>2. <<s, p>> \in C <=> p < n
            BY <4>1, <4>2 DEF Before
          <5>3. <<s, p>> \in D <=> <<s, p>> \in C \/ <<s, p>> \in o.hits
            BY <1>3, <2>1 DEF o
          <5> QED
            BY <3>1, <5>1, <5>2, <5>3 DEF PageNo
        <4> QED
          BY <4>2 DEF Before
      <3> QED
        BY <3>1, <3>5, <3>6 DEF PageNo
    <2>2. CASE s \notin Answered(c)
      <3>1. work'[c].frontiers[s] = work[c].frontiers[s] /\ SoundRecord(work[c])
        BY <2>2, Merged DEF Resuming, SoundCall
      <3>2. \A p \in PageNo : <<s, p>> \in D <=> <<s, p>> \in C
        BY <1>3, <2>2
      <3> QED
        BY <1>4, <3>1, <3>2 DEF SoundRecord, Before, C
    <2> QED
      BY <2>1, <2>2
  <1> QED
    BY <1>4 DEF SoundRecord, D

(* A source is queued with a cursor that fits the call, or not asked. *)
LEMMA QueuedSound ==
    ASSUME NEW f \in Frontier, NEW s, NEW op, op = "query" => f.cursor = 0,
           op = "continue" => f.cursor # 0
    PROVE  SoundOne(op, s, Queued(f)) /\ SoundOne(op, s, Off)
  BY QueuedFields, OffFields DEF SoundOne

(* A step of call c leaves the others as they are. *)
LEMMA OtherCalls ==
    ASSUME Resuming, NEW c \in Call, SoundRecord(stored'), SoundCall(c)',
           \A d \in Call : d # c => /\ one'[d] = one[d] /\ work'[d] = work[d]
                                    /\ mine'[d] = mine[d] /\ pc'[d] = pc[d]
    PROVE  Resuming'
  <1>1. ASSUME NEW d \in Call, d # c PROVE SoundCall(d)'
    <2>1. SoundCall(d) /\ one'[d] = one[d] /\ work'[d] = work[d] /\ mine'[d] = mine[d] /\ pc'[d] = pc[d]
      BY <1>1 DEF Resuming
    <2> QED
      BY <2>1 DEF SoundCall, SoundWave
  <1> QED
    BY <1>1 DEF Resuming

(* Starting a call. *)
LEMMA StartSound ==
    ASSUME TypeOK, Resuming, NEW c \in Call,
           StartSearch(c) \/ StartContinue(c) \/ ContinueNothing(c) \/ StartQuery(c)
    PROVE  Resuming'
  <1>1. pc[c] = "idle" /\ SoundCall(c) /\ SoundRecord(stored)
    BY DEF StartSearch, StartContinue, ContinueNothing, StartQuery, Resuming
  <1>2. one[c] = [s \in Source |-> Off]
    BY <1>1 DEF SoundCall, SoundWave
  <1>3. ASSUME StartSearch(c) \/ StartQuery(c), NEW s \in Source
        PROVE  /\ Op[c] # "continue" /\ SoundOne(Op[c], s, one'[c][s])
               /\ one'[c][s].phase # "off" => PageOf(one'[c][s]) = 1
    <2>1. one'[c][s] = Queued(NoFrontier) \/ one'[c][s] = Off
      BY <1>3, FirstWave
    <2>2. Op[c] # "continue"
      BY <1>3 DEF StartSearch, StartQuery
    <2>3. SoundOne(Op[c], s, Queued(NoFrontier)) /\ SoundOne(Op[c], s, Off)
      BY <2>2, QueuedSound, NoFrontierFields
    <2> QED
      BY <2>1, <2>2, <2>3, NoFrontierFields, QueuedFields, OffFields DEF PageOf
  <1>4. CASE StartSearch(c)
    <2>1. /\ work'[c] = NewRecord /\ pc'[c] = "wave" /\ mine' = mine /\ Op[c] = "search"
          /\ \A d \in Call : d # c => work'[d] = work[d] /\ pc'[d] = pc[d]
      BY <1>4 DEF TypeOK, StartSearch
    <2>2. SoundRecord(stored')
      BY <1>1, <1>4, Requested, SameRecord
    <2>3. \A s \in Source : Before(work'[c].candidates, s, 1)
      BY <2>1, NewRecordFields DEF Before, PageNo
    <2>4. SoundWave(c)'
      BY <1>3, <1>4, <2>1, <2>3 DEF SoundWave
    <2>5. SoundCall(c)'
      BY <1>1, <1>3, <1>4, <2>1, <2>4, NewRecordSound DEF SoundCall
    <2> QED
      BY <1>4, <2>1, <2>2, <2>5, FirstWave, OtherCalls
  <1>5. CASE StartQuery(c)
    <2>1. /\ mine'[c] = stored /\ pc'[c] = "wave" /\ work' = work /\ stored' = stored /\ Op[c] = "query"
          /\ \A d \in Call : d # c => mine'[d] = mine[d] /\ pc'[d] = pc[d]
      BY <1>5 DEF TypeOK, StartQuery
    <2>2. SoundWave(c)'
      BY <2>1 DEF SoundWave
    <2>3. SoundCall(c)'
      BY <1>1, <1>3, <1>5, <2>1, <2>2 DEF SoundCall
    <2> QED
      BY <1>1, <1>5, <2>1, <2>3, FirstWave, OtherCalls
  <1>6. CASE StartContinue(c)
    <2>1. /\ pc'[c] = "choose" /\ mine' = mine /\ stored' = stored /\ one' = one /\ Op[c] = "continue"
          /\ \A d \in Call : d # c => pc'[d] = pc[d]
      BY <1>6 DEF TypeOK, StartContinue
    <2>2. work'[c] = stored /\ \A d \in Call : d # c => work'[d] = work[d]
      BY <1>6, Continued
    <2>3. SoundWave(c)'
      BY <1>2, <2>1, OffFields DEF SoundWave
    <2>4. SoundCall(c)'
      BY <1>1, <2>1, <2>2, <2>3 DEF SoundCall
    <2> QED
      BY <1>1, <2>1, <2>2, <2>4, OtherCalls
  <1>7. CASE ContinueNothing(c)
    <2>1. /\ pc'[c] = "done" /\ UNCHANGED <<mine, stored, one, work>>
          /\ \A d \in Call : d # c => pc'[d] = pc[d]
      BY <1>7 DEF TypeOK, ContinueNothing
    <2>2. SoundWave(c)'
      BY <1>2, <2>1, OffFields DEF SoundWave
    <2>3. SoundCall(c)'
      BY <1>1, <2>1, <2>2 DEF SoundCall
    <2> QED
      BY <1>1, <2>1, <2>3, OtherCalls
  <1> QED
    BY <1>4, <1>5, <1>6, <1>7

(* A step of searchOne. *)
LEMMA SearchOneSound ==
    ASSUME TypeOK, Resuming, NEW c \in Call, NEW s \in Source, SearchOne(c, s)
    PROVE  Resuming'
  <1> DEFINE o == one[c][s]
             x == one'[c][s]
             n == PageOf(o)
  <1>1. OneFrame(c, s) /\ (OneCalls(c, s) \/ OneMisses(c, s) \/ OneGets(c, s))
    BY OneMoves
  <1>2. /\ SoundCall(c) /\ SoundOne(Op[c], s, o) /\ SoundRecord(stored) /\ SoundWave(c)
        /\ o \in One /\ o.more \in BOOLEAN
    BY OneFields DEF Resuming, SoundCall, TypeOK
  <1>3. /\ UNCHANGED <<stored, mine, pc, work>>
        /\ \A d \in Call, t \in Source : (d # c \/ t # s) => one'[d][t] = one[d][t]
        /\ \A d \in Call : d # c => one'[d] = one[d]
        /\ x.cursor = o.cursor /\ x.by = o.by
        /\ o.phase \notin {"off", "answered"}
    BY <1>1 DEF OneFrame, TypeOK
  <1>4. PageOf(x) = n /\ n \in PageNo
    BY <1>2, <1>3, Pages DEF PageOf
  <1>5. SoundOne(Op[c], s, x)
    <2>1. ~o.more /\ o.hits \subseteq {<<s, IF Op[c] = "query" THEN 0 ELSE n>>}
      BY <1>2, <1>3 DEF SoundOne
    <2>2. /\ Op[c] = "query" => x.cursor = 0
          /\ Op[c] = "continue" /\ x.phase # "off" => x.cursor # 0
      BY <1>2, <1>3 DEF SoundOne
    <2>3. CASE OneCalls(c, s)
      BY <1>4, <2>1, <2>2, <2>3 DEF OneCalls, SoundOne
    <2>4. CASE OneMisses(c, s)
      BY <1>4, <2>1, <2>2, <2>4 DEF OneMisses, SoundOne
    <2>5. CASE OneGets(c, s)
      <3>1. /\ x.phase = "answered" /\ x.hits = Hits(c, s)
            /\ x.more => HasMore(c, s)
        BY <2>5 DEF OneGets
      <3>2. x.hits \subseteq {<<s, IF Op[c] = "query" THEN 0 ELSE n>>}
        BY <3>1, HitsFields
      <3>5. LastPage[s] \in Nat /\ LastPage[s] <= MaxPage /\ n \in Nat /\ MaxPage \in Nat
        BY <1>4, HitsFields, SearchAssumption DEF SearchAssumption, PageNo
      <3>6. ASSUME Op[c] # "query", HasMore(c, s) PROVE n < LastPage[s] /\ <<s, n>> \in Hits(c, s)
        <4>1. n < LastPage[s]
          BY <3>6 DEF HasMore
        <4>2. n <= LastPage[s] => <<s, n>> \in Hits(c, s)
          BY <3>6, HitsFields, Zenon
        <4> QED
          BY <3>5, <4>1, <4>2
      <3>3. ASSUME x.more PROVE n < MaxPage
        <4>1. CASE Op[c] = "query"
          BY <1>2, <1>3, <4>1, SearchAssumption DEF SearchAssumption, SoundOne, PageOf
        <4>2. CASE Op[c] # "query"
          BY <3>1, <3>3, <3>5, <3>6, <4>2
        <4> QED
          BY <4>1, <4>2
      <3>4. ASSUME Op[c] # "query", x.more PROVE <<s, n>> \in x.hits
        BY <3>1, <3>4, <3>6
      <3> HIDE DEF x, n
      <3> QED
        BY <1>4, <2>2, <3>1, <3>2, <3>3, <3>4 DEF SoundOne
    <2> QED
      BY <1>1, <2>3, <2>4, <2>5
  <1>6. SoundWave(c)'
    <2>1. pc[c] # "idle" /\ (Op[c] # "query" => pc[c] = "wave")
      <3>1. pc[c] # "idle"
        BY <1>2, <1>3, OffFields DEF SoundWave
      <3> QED
        BY <1>2, <1>3, <3>1 DEF SoundWave
    <2>2. ASSUME Op[c] # "query", NEW t \in Source, one'[c][t].phase # "off", one'[c][t].by # "query"
          PROVE  Before(work[c].candidates, t, PageOf(one'[c][t]))
      <3>1. CASE t = s
        BY <1>2, <1>3, <1>4, <2>1, <2>2, <3>1 DEF SoundWave
      <3>2. CASE t # s
        BY <1>2, <1>3, <2>1, <2>2, <3>2 DEF SoundWave
      <3> QED
        BY <3>1, <3>2
    <2>3. pc[c] = "choose" => Op[c] # "query"
      BY <1>2 DEF SoundWave
    <2> QED
      BY <1>3, <2>1, <2>2, <2>3 DEF SoundWave
  <1>7. SoundCall(c)'
    <2>1. ASSUME NEW t \in Source PROVE SoundOne(Op[c], t, one'[c][t])
      <3>1. CASE t = s
        BY <1>5, <3>1
      <3>2. CASE t # s
        BY <1>2, <1>3, <3>2 DEF SoundCall
      <3> QED
        BY <3>1, <3>2
    <2> QED
      BY <1>2, <1>3, <1>6, <2>1 DEF SoundCall
  <1> QED
    BY <1>2, <1>3, <1>7, OtherCalls

(* The record a Query stores: its hit is no page of the search, and its cursor *)
(* is marked as a Query's.                                                   *)
LEMMA QueryStoredSound ==
    ASSUME TypeOK, Resuming, NEW c \in Call, NEW s \in Source, QueryWriteBack(c, s)
    PROVE  SoundRecord(stored')
  <1>1. Op[c] = "query" /\ SoundRecord(stored) /\ SoundRecord(mine[c]) /\ SoundOne("query", s, one[c][s])
    BY DEF Resuming, SoundCall, QueryWriteBack
  <1>3. ASSUME NEW base \in {stored, mine[c]}, NEW t \in Source, stored'.frontiers[t].more,
               stored'.candidates = base.candidates \cup one[c][s].hits,
               \/ stored'.frontiers = base.frontiers
               \/ /\ one[c][s].more
                  /\ stored'.frontiers = [base.frontiers EXCEPT ![s] = NextCursor(one[c][s], "query")]
        PROVE  /\ stored'.frontiers[t].cursor >= 2
               /\ stored'.frontiers[t].by # "query" =>
                     Before(stored'.candidates, t, stored'.frontiers[t].cursor)
    <2>1. base \in Record /\ SoundRecord(base) /\ base.frontiers \in [Source -> Frontier]
      BY <1>1, RecordFields DEF TypeOK
    <2>2. one[c][s] \in One /\ one[c][s].cursor = 0 /\ one[c][s].hits \subseteq {<<s, 0>>}
      BY <1>1 DEF SoundOne, TypeOK
    <2>3. \A p \in PageNo : p >= 1 => (<<t, p>> \in stored'.candidates <=> <<t, p>> \in base.candidates)
      BY <1>3, <2>2 DEF PageNo
    <2>4. CASE stored'.frontiers[t] = base.frontiers[t]
      <3>1. /\ base.frontiers[t].cursor >= 2
            /\ base.frontiers[t].by # "query" => Before(base.candidates, t, base.frontiers[t].cursor)
        BY <1>3, <2>1, <2>4 DEF SoundRecord
      <3> QED
        BY <2>3, <2>4, <3>1 DEF Before
    <2>5. CASE stored'.frontiers[t] = NextCursor(one[c][s], "query") /\ one[c][s].more
      <3>1. one[c][s].more => PageOf(one[c][s]) < MaxPage
        BY <1>1 DEF SoundOne
      <3>2. NextCursor(one[c][s], "query").by = "query"
            /\ NextCursor(one[c][s], "query").cursor = PageOf(one[c][s]) + 1
        BY <2>2, <2>5, <3>1, NextCursorFields
      <3>3. PageOf(one[c][s]) = 1
        BY <2>2 DEF PageOf
      <3> QED
        BY <2>5, <3>2, <3>3
    <2> QED
      BY <1>3, <2>1, <2>4, <2>5
  <1>4. CASE \E base \in {stored, mine[c]} :
                /\ stored'.candidates = base.candidates \cup one[c][s].hits
                /\ \/ stored'.frontiers = base.frontiers
                   \/ /\ one[c][s].more
                      /\ stored'.frontiers = [base.frontiers EXCEPT ![s] = NextCursor(one[c][s], "query")]
    BY <1>3, <1>4 DEF SoundRecord
  <1> QED
    BY <1>4, QueryStored

(* A Query that is refused. *)
LEMMA RefusedSound ==
    ASSUME TypeOK, Resuming, NEW c \in Call, NEW s \in Source, QueryRefused(c, s)
    PROVE  Resuming'
  <1>1. /\ UNCHANGED <<stored, mine, work>> /\ pc'[c] = "done" /\ Op[c] = "query"
        /\ \A d \in Call : d # c => pc'[d] = pc[d]
    BY DEF TypeOK, QueryRefused
  <1>2. SoundCall(c) /\ SoundRecord(stored)
    BY DEF Resuming
  <1>3. ASSUME NEW t \in Source PROVE SoundOne(Op[c], t, one'[c][t])
    <2>1. CASE t = s
      BY <2>1, RefusedFrame, OffFields DEF SoundOne
    <2>2. CASE t # s
      BY <1>2, <2>2, RefusedFrame DEF SoundCall
    <2> QED
      BY <2>1, <2>2
  <1>4. SoundWave(c)'
    BY <1>1 DEF SoundWave
  <1>5. SoundCall(c)'
    BY <1>1, <1>2, <1>3, <1>4 DEF SoundCall
  <1>6. SoundRecord(stored')
    BY <1>1, <1>2
  <1> QED
    BY <1>1, <1>5, <1>6, RefusedFrame, OtherCalls

(* Writing back, and the waves between. *)
LEMMA WaveSound ==
    ASSUME TypeOK, Resuming, NEW c \in Call,
           EndWave(c) \/ NextWave(c) \/ WriteBack(c) \/ (\E s \in Source : QueryWriteBack(c, s))
    PROVE  Resuming'
  <1>1. SoundCall(c) /\ SoundRecord(stored) /\ SoundWave(c)
    BY DEF Resuming, SoundCall
  <1>2. CASE EndWave(c)
    <2>1. /\ UNCHANGED <<stored, mine, one>> /\ pc'[c] = "choose" /\ Op[c] # "query"
          /\ \A d \in Call : d # c => pc'[d] = pc[d]
          /\ \A s \in Source : one[c][s].phase \in {"off", "answered"}
      BY <1>2 DEF TypeOK, EndWave
    <2>2. SoundRecord(work'[c]) /\ \A d \in Call : d # c => work'[d] = work[d]
      BY <1>2, Merged, MergedSound
    <2>3. SoundWave(c)'
      BY <2>1 DEF SoundWave
    <2>4. SoundCall(c)'
      BY <1>1, <2>1, <2>2, <2>3 DEF SoundCall
    <2> QED
      BY <1>1, <2>1, <2>2, <2>4, OtherCalls
  <1>3. CASE NextWave(c)
    <2>1. /\ UNCHANGED <<stored, mine, work>> /\ pc'[c] = "wave" /\ pc[c] = "choose"
          /\ \A d \in Call : d # c => pc'[d] = pc[d]
      BY <1>3 DEF TypeOK, NextWave
    <2>2. Op[c] # "query"
      BY <1>1, <2>1 DEF SoundWave
    <2>3. ASSUME NEW s \in Source
          PROVE  /\ SoundOne(Op[c], s, one'[c][s])
                 /\ one'[c][s].phase # "off" /\ one'[c][s].by # "query" =>
                        Before(work[c].candidates, s, PageOf(one'[c][s]))
      <3>1. CASE one'[c][s] = Off
        BY <3>1, OffFields, QueuedSound, NoFrontierFields, <2>2 DEF SoundOne
      <3>2. CASE /\ one'[c][s] = Queued(work[c].frontiers[s]) /\ work[c].frontiers[s] \in Frontier
                 /\ work[c].frontiers[s].more
        <4> DEFINE f == work[c].frontiers[s]
        <4>1. f \in Frontier /\ f.cursor >= 2 /\ f.cursor \in PageNo
              /\ (f.by # "query" => Before(work[c].candidates, s, f.cursor))
          BY <1>1, <3>2, FrontierFields DEF SoundCall, SoundRecord
        <4>2. one'[c][s] = Queued(f)
          BY <3>2
        <4> HIDE DEF f
        <4>3. f.cursor # 0
          BY <4>1 DEF PageNo
        <4>4. PageOf(Queued(f)) = f.cursor /\ Queued(f).by = f.by
          BY <4>1, <4>3, QueuedFields DEF PageOf
        <4>5. SoundOne(Op[c], s, Queued(f))
          BY <2>2, <4>1, <4>3, QueuedSound
        <4> QED
          BY <4>1, <4>2, <4>4, <4>5
      <3> QED
        BY <1>3, <3>1, <3>2, LaterWave
    <2>4. SoundWave(c)'
      BY <2>1, <2>3 DEF SoundWave
    <2>5. SoundCall(c)'
      BY <1>1, <2>1, <2>3, <2>4 DEF SoundCall
    <2> QED
      BY <1>1, <1>3, <2>1, <2>5, LaterWave, OtherCalls
  <1>4. CASE WriteBack(c)
    <2>1. /\ UNCHANGED <<one, mine, work>> /\ pc'[c] = "done" /\ pc[c] = "choose"
          /\ \A d \in Call : d # c => pc'[d] = pc[d]
      BY <1>4 DEF TypeOK, WriteBack
    <2>2. SoundRecord(stored')
      <3>1. SoundRecord(work[c])
        BY <1>1 DEF SoundCall
      <3> QED
        BY <1>4, <3>1, Stored, SameRecord
    <2>3. SoundWave(c)'
      BY <1>1, <2>1 DEF SoundWave
    <2>4. SoundCall(c)'
      BY <1>1, <2>1, <2>3 DEF SoundCall
    <2> QED
      BY <2>1, <2>2, <2>4, OtherCalls
  <1>5. ASSUME NEW s \in Source, QueryWriteBack(c, s) PROVE Resuming'
    <2>1. /\ UNCHANGED <<one, mine, work>> /\ pc'[c] = "done" /\ Op[c] = "query"
          /\ \A d \in Call : d # c => pc'[d] = pc[d]
      BY <1>5 DEF TypeOK, QueryWriteBack
    <2>2. SoundWave(c)'
      BY <2>1 DEF SoundWave
    <2>3. SoundCall(c)'
      BY <1>1, <2>1, <2>2 DEF SoundCall
    <2> QED
      BY <1>5, <2>1, <2>3, QueryStoredSound, OtherCalls
  <1> QED
    BY <1>2, <1>3, <1>4, <1>5

(* Initially, and in every step, cursors lead to the first page missing. *)
LEMMA ResumingInit == Init => Resuming
  <1> SUFFICES ASSUME Init PROVE Resuming
    OBVIOUS
  <1>1. SoundRecord(stored) /\ \A c \in Call : SoundRecord(mine[c]) /\ SoundRecord(work[c])
    BY NewRecordSound DEF Init
  <1>2. \A c \in Call : pc[c] = "idle" /\ one[c] = [s \in Source |-> Off]
    BY DEF Init
  <1>3. ASSUME NEW c \in Call, NEW s \in Source PROVE SoundOne(Op[c], s, one[c][s])
    BY <1>2, OffFields DEF SoundOne
  <1>4. \A c \in Call : SoundWave(c)
    BY <1>2, OffFields DEF SoundWave
  <1> QED
    BY <1>1, <1>3, <1>4 DEF Resuming, SoundCall

\* Every step keeps Resuming.
LEMMA ResumingNext == TypeOK /\ Resuming /\ [Next]_vars => Resuming'
  <1> SUFFICES ASSUME TypeOK, Resuming, [Next]_vars PROVE Resuming'
    OBVIOUS
  <1>1. ASSUME NEW c \in Call, Step(c) PROVE Resuming'
    BY <1>1, StartSound, WaveSound, SearchOneSound, RefusedSound DEF Step
  <1>2. CASE UNCHANGED <<stored, mine, pc, one, work>>
    BY <1>2 DEF Resuming, SoundCall, SoundWave
  <1>3. ASSUME NEW a \in Ledgers, Expire(a) PROVE Resuming'
    BY <1>2, <1>3 DEF Expire
  <1> QED
    BY <1>1, <1>2, <1>3 DEF Next, vars

----------------------------------------------------------------------------
(* Reports. *)

(* A step that leaves a search alone leaves its report as it is. *)
LEMMA SameReport ==
    ASSUME NEW c \in Call, Reporting(c),
           one'[c] = one[c], work'[c] = work[c], pc'[c] = pc[c], sources'[c] = sources[c],
           partial'[c] = partial[c], cut'[c] = cut[c]
    PROVE  Reporting(c)'
  <1>1. Answering(c)' /\ Marking(c)'
    BY DEF Reporting, Answering, Marking
  <1>2. Accounting(c)'
    BY DEF Reporting, Accounting, Accounted, Covered
  <1> QED
    BY <1>1, <1>2 DEF Reporting

(* A queued source, or one not asked, has said nothing. *)
LEMMA QueuedReport ==
    ASSUME NEW f \in Frontier, f.by # "query", NEW s
    PROVE  /\ SoundAnswer(s, Queued(f)) /\ SoundAnswer(s, Off)
           /\ Queued(f).phase = "queued" /\ Off.phase = "off"
  BY QueuedFields, OffFields DEF SoundAnswer

(* A search starts. *)
LEMMA StartReport ==
    ASSUME TypeOK, NEW c \in Call, StartSearch(c)
    PROVE  Reporting(c)'
  <1>1. work'[c] = NewRecord /\ pc'[c] = "wave" /\ sources'[c] = Asked[c]
    BY DEF TypeOK, StartSearch
  <1>2. ASSUME NEW s \in Source
        PROVE  /\ SoundAnswer(s, one'[c][s]) /\ one'[c][s].phase # "answered"
               /\ s \in Asked[c] => one'[c][s].phase # "off"
               /\ NewRecord.frontiers[s] = NoFrontier /\ NewRecord.runs[s] = "none"
    <2>1. /\ one'[c][s] = Queued(NoFrontier) \/ one'[c][s] = Off
          /\ s \in Asked[c] => one'[c][s] = Queued(NoFrontier)
      BY FirstWave
    <2>2. /\ SoundAnswer(s, Queued(NoFrontier)) /\ SoundAnswer(s, Off)
          /\ Queued(NoFrontier).phase = "queued" /\ Off.phase = "off"
      BY QueuedReport, NoFrontierFields
    <2> QED
      BY <2>1, <2>2, NewRecordFields
  <1>3. Answering(c)'
    BY <1>1, <1>2, NoFrontierFields DEF Answering
  <1>4. Accounting(c)'
    BY <1>1, <1>2, FirstWave DEF Accounting, Accounted
  <1>5. Marking(c)'
    BY <1>1 DEF Marking
  <1> QED
    BY <1>3, <1>4, <1>5 DEF Reporting

(* A source of a search answers or is waited for. *)
LEMMA OneReport ==
    ASSUME TypeOK, Resuming, NEW c \in Call, NEW s \in Source, Op[c] = "search",
           SearchOne(c, s), Reporting(c)
    PROVE  Reporting(c)'
  <1> DEFINE o == one[c][s]
             x == one'[c][s]
             n == PageOf(o)
  <1>1. OneFrame(c, s) /\ (OneCalls(c, s) \/ OneMisses(c, s) \/ OneGets(c, s))
    BY OneMoves
  <1>2. /\ UNCHANGED <<pc, work, sources, partial, cut>> /\ x.cursor = o.cursor /\ x.by = o.by
        /\ \A t \in Source : t # s => one'[c][t] = one[c][t]
        /\ o.phase \in {"queued", "calling", "backoff", "recalling"}
    BY <1>1 DEF OneFrame
  <1>3. Answering(c) /\ Accounting(c) /\ Marking(c)
    BY DEF Reporting
  <1>4. SoundAnswer(s, o) /\ o.by # "query"
    BY <1>2, <1>3 DEF Answering, SoundAnswer
  <1>5. PageOf(x) = n /\ n \in Nat
    <2>1. n \in PageNo
      BY Pages DEF TypeOK
    <2> QED
      BY <1>2, <2>1 DEF PageOf, PageNo
  <1>6. SoundAnswer(s, x) /\ x.phase # "off"
    <2>1. CASE OneCalls(c, s)
      BY <1>2, <1>4, <2>1 DEF OneCalls, SoundAnswer
    <2>2. CASE OneMisses(c, s)
      BY <1>2, <1>4, <2>2 DEF OneMisses, SoundAnswer
    <2>3. CASE OneGets(c, s)
      <3>1. x.phase = "answered" /\ x.hits = Hits(c, s)
        BY <1>4, <2>3 DEF OneGets
      <3>2. (x.status \in {"ok", "empty"} /\ x.more = HasMore(c, s)) \/ x.status = "budget"
        BY <2>3 DEF OneGets
      <3>3. ASSUME x.more = HasMore(c, s), ~x.more, NEW p \in 1..LastPage[s], ~(p < n)
            PROVE  <<s, p>> \in x.hits
        <4>1. ~(n < LastPage[s])
          BY <3>3 DEF HasMore
        <4>2. LastPage[s] \in Nat
          BY HitsFields, SearchAssumption DEF SearchAssumption
        <4>3. p = n /\ n <= LastPage[s]
          BY <1>5, <3>3, <4>1, <4>2
        <4>4. n <= LastPage[s] => <<s, n>> \in Hits(c, s)
          BY HitsFields, Zenon
        <4> QED
          BY <3>1, <4>3, <4>4
      <3>4. x.status \in {"ok", "empty"} =>
                x.more \/ \A p \in 1..LastPage[s] : p < n \/ <<s, p>> \in x.hits
        BY <3>2, <3>3
      <3> HIDE DEF x, n
      <3> QED
        BY <1>2, <1>4, <1>5, <3>1, <3>2, <3>4 DEF SoundAnswer
    <2> QED
      BY <1>1, <2>1, <2>2, <2>3
  <1>7. Answering(c)'
    <2>1. ASSUME NEW t \in Source
          PROVE  /\ SoundAnswer(t, one'[c][t])
                 /\ one'[c][t].phase # "off" => one[c][t].phase # "off"
      <3>1. CASE t = s
        BY <1>2, <1>6, <3>1
      <3>2. CASE t # s
        BY <1>2, <1>3, <3>2 DEF Answering
      <3> QED
        BY <3>1, <3>2
    <2> QED
      BY <1>2, <1>3, <2>1 DEF Answering
  <1>8. Accounting(c)'
    <2>1. ASSUME NEW t \in Source
          PROVE  one[c][t].phase # "off" => one'[c][t].phase # "off"
      BY <1>2, <1>6
    <2>2. ASSUME NEW t \in sources[c] PROVE Accounted(c, t)'
      <3>1. t \in Source /\ Accounted(c, t)
        BY <1>3, <2>2 DEF Accounting, TypeOK
      <3> QED
        BY <1>2, <2>1, <3>1 DEF Accounted, Covered
    <2> QED
      BY <1>2, <2>2 DEF Accounting
  <1>9. Marking(c)'
    BY <1>2, <1>3 DEF Marking
  <1> QED
    BY <1>7, <1>8, <1>9 DEF Reporting

(* A wave is merged: what a source gave, or why it did not, is on record. *)
LEMMA MergeReport ==
    ASSUME TypeOK, Resuming, NEW c \in Call, Op[c] = "search",
           EndWave(c), Reporting(c)
    PROVE  Reporting(c)'
  <1>1. /\ UNCHANGED <<one, sources, partial>> /\ pc[c] = "wave" /\ pc'[c] = "choose"
        /\ \A s \in Source : one[c][s].phase \in {"off", "answered"}
    BY DEF TypeOK, EndWave
  <1>2. Answering(c) /\ Accounting(c)
    BY DEF Reporting
  <1>3. ASSUME NEW s \in Source
        PROVE  /\ work'[c].frontiers[s] = IF s \in Answered(c)
                      THEN NextCursor(one[c][s], "search") ELSE work[c].frontiers[s]
               /\ work'[c].runs[s] = IF s \in Answered(c)
                      THEN MergedStatus(work[c].runs[s], one[c][s].status) ELSE work[c].runs[s]
               /\ work[c].candidates \subseteq work'[c].candidates
               /\ s \in Answered(c) => one[c][s].hits \subseteq work'[c].candidates
    <2>1. Chain(one[c][s]) = "search"
      BY <1>2 DEF Answering, SoundAnswer, Chain
    <2> QED
      BY <2>1, Merged DEF Gathered
  <1>4. ASSUME NEW s \in Source
        PROVE  /\ NextCursor(one[c][s], "search").by = "search"
               /\ NextCursor(one[c][s], "search").more = one[c][s].more
    BY DEF NextCursor
  <1>5. Answering(c)'
    <2>1. ASSUME NEW s \in Source PROVE work'[c].frontiers[s].by # "query"
      <3>1. CASE s \in Answered(c)
        BY <1>3, <1>4, <3>1
      <3>2. CASE s \notin Answered(c)
        BY <1>2, <1>3, <3>2 DEF Answering
      <3> QED
        BY <3>1, <3>2
    <2> QED
      BY <1>1, <1>2, <2>1 DEF Answering
  <1>6. Accounting(c)'
    <2>1. /\ Accounting(c) /\ cut[c] \subseteq cut'[c]
          /\ {s \in Answered(c) : one[c][s].status \in {"unavailable", "budget"}} \subseteq cut'[c]
      BY <1>2 DEF EndWave, TypeOK
    <2>2. ASSUME NEW s \in sources[c]
          PROVE  \/ work'[c].runs[s] \in {"failed", "unavailable", "budget"}
                 \/ s \in cut'[c] /\ work'[c].runs[s] = "ok"
                 \/ work'[c].frontiers[s].more
                 \/ \A p \in 1..LastPage[s] : <<s, p>> \in work'[c].candidates
      <3>1. s \in Source /\ Accounted(c, s)
        BY <2>1, <2>2 DEF Accounting, TypeOK
      <3>2. CASE s \notin Answered(c)
        <4>1. one[c][s].phase = "off"
          BY <1>1, <3>1, <3>2 DEF Answered
        <4>2. work'[c].frontiers[s] = work[c].frontiers[s] /\ work'[c].runs[s] = work[c].runs[s]
              /\ work[c].candidates \subseteq work'[c].candidates
          BY <1>3, <3>1, <3>2
        <4> QED
          BY <2>1, <3>1, <4>1, <4>2 DEF Accounted, Covered
      <3>3. CASE s \in Answered(c)
        <4> DEFINE o == one[c][s]
        <4>1. /\ o.phase = "answered" /\ SoundAnswer(s, o) /\ o.by # "query"
              /\ o.status \in {"ok", "empty", "failed", "unavailable", "budget"}
          BY <1>2, <3>1, <3>3 DEF Answering, SoundAnswer, Answered
        <4>2. /\ work'[c].frontiers[s].more = o.more
              /\ work'[c].runs[s] = MergedStatus(work[c].runs[s], o.status)
              /\ work[c].candidates \subseteq work'[c].candidates
              /\ o.hits \subseteq work'[c].candidates
          BY <1>3, <1>4, <3>1, <3>3
        <4>3. CASE o.status = "failed"
          BY <4>2, <4>3 DEF MergedStatus
        <4>4. CASE o.status \in {"unavailable", "budget"}
          <5>1. s \in cut'[c]
            BY <2>1, <3>3, <4>4
          <5>2. work[c].runs[s] \in Status
            BY <3>1, RecordFields DEF TypeOK
          <5> QED
            BY <4>2, <4>4, <5>1, <5>2 DEF MergedStatus, Status
        <4>5. CASE o.status \in {"ok", "empty"} /\ ~o.more
          <5>1. ASSUME NEW p \in 1..LastPage[s] PROVE <<s, p>> \in work'[c].candidates
            <6>1. p < PageOf(o) \/ <<s, p>> \in o.hits
              BY <4>1, <4>5, <5>1 DEF SoundAnswer
            <6>2. Before(work[c].candidates, s, PageOf(o))
              BY <1>1, <3>1, <4>1 DEF Resuming, SoundCall, SoundWave
            <6>3. LastPage[s] \in 0..MaxPage /\ MaxPage \in Nat
              BY <3>1, SearchAssumption DEF SearchAssumption
            <6>4. p \in PageNo /\ p >= 1
              BY <6>3 DEF PageNo
            <6>5. p < PageOf(o) => <<s, p>> \in work[c].candidates
              BY <6>2, <6>4 DEF Before
            <6> QED
              BY <4>2, <6>1, <6>5
          <5> QED
            BY <5>1
        <4>6. CASE o.more
          BY <4>2, <4>6
        <4> QED
          BY <4>1, <4>3, <4>4, <4>5, <4>6
      <3> QED
        BY <3>2, <3>3
    <2>3. \A s \in sources[c] : Accounted(c, s)'
      BY <2>2 DEF Accounted, Covered
    <2> QED
      BY <1>1, <2>1, <2>3 DEF Accounting
  <1>7. Marking(c)'
    BY <1>1 DEF Marking
  <1> QED
    BY <1>5, <1>6, <1>7 DEF Reporting

(* The next wave goes only to sources that have more. *)
LEMMA NextReport ==
    ASSUME TypeOK, NEW c \in Call, Op[c] = "search",
           NextWave(c), Reporting(c)
    PROVE  Reporting(c)'
  <1>1. UNCHANGED <<work, sources, partial, cut>> /\ pc[c] = "choose" /\ pc'[c] = "wave"
    BY DEF TypeOK, NextWave
  <1>2. Answering(c) /\ Accounting(c)
    BY DEF Reporting
  <1>3. ASSUME NEW s \in Source
        PROVE  SoundAnswer(s, one'[c][s])
    <2>1. work[c].frontiers[s].by # "query"
      BY <1>2 DEF Answering
    <2>2. CASE one'[c][s] = Off
      BY <2>2, QueuedReport, NoFrontierFields
    <2>3. CASE /\ one'[c][s] = Queued(work[c].frontiers[s]) /\ work[c].frontiers[s] \in Frontier
               /\ work[c].frontiers[s].more
      BY <2>1, <2>3, QueuedReport
    <2> QED
      BY <2>2, <2>3, LaterWave
  <1>4. Answering(c)'
    BY <1>1, <1>2, <1>3 DEF Answering
  <1>5. Accounting(c)'
    BY <1>1, <1>2 DEF Accounting, Accounted, Covered
  <1>6. Marking(c)'
    BY <1>1 DEF Marking
  <1> QED
    BY <1>2, <1>4, <1>5, <1>6 DEF Reporting

(* The answer is returned. *)
LEMMA DoneReport ==
    ASSUME TypeOK, NEW c \in Call, WriteBack(c), Reporting(c)
    PROVE  Reporting(c)'
  <1>1. /\ UNCHANGED <<one, work, sources, cut>> /\ pc[c] = "choose" /\ pc'[c] = "done"
        /\ partial'[c] = (\E s \in Source : work[c].runs[s] \in {"failed", "unavailable", "budget"})
    BY DEF TypeOK, WriteBack
  <1>2. Answering(c)'
    BY <1>1 DEF Reporting, Answering
  <1>3. Accounting(c)'
    BY <1>1 DEF Reporting, Accounting, Accounted, Covered
  <1>4. Marking(c)'
    BY <1>1 DEF Marking
  <1> QED
    BY <1>2, <1>3, <1>4 DEF Reporting

(* Every search keeps account of its sources. *)
LEMMA ReportedInit == Init => Reported
  <1> SUFFICES ASSUME Init, NEW c \in Call PROVE Reporting(c)
    BY DEF Reported
  <1>1. /\ work[c] = NewRecord /\ pc[c] = "idle" /\ sources[c] = {}
        /\ \A s \in Source : one[c][s] = Off
    BY DEF Init
  <1>2. \A s \in Source : SoundAnswer(s, Off) /\ Off.phase = "off"
    BY QueuedReport, NoFrontierFields
  <1>3. Answering(c)
    BY <1>1, <1>2, NewRecordFields, NoFrontierFields DEF Answering
  <1>4. Accounting(c) /\ Marking(c)
    BY <1>1, <1>2 DEF Accounting, Marking
  <1> QED
    BY <1>3, <1>4 DEF Reporting

\* Every step keeps Reported.
LEMMA ReportedNext == TypeOK /\ Resuming /\ Reported /\ [Next]_vars => Reported'
  <1> SUFFICES ASSUME TypeOK, Resuming, Reported, [Next]_vars, NEW c \in Call, Op[c] = "search"
               PROVE  Reporting(c)'
    BY DEF Reported
  <1>1. Reporting(c)
    BY DEF Reported
  <1>2. CASE /\ one'[c] = one[c] /\ work'[c] = work[c] /\ pc'[c] = pc[c]
             /\ sources'[c] = sources[c] /\ partial'[c] = partial[c] /\ cut'[c] = cut[c]
    BY <1>1, <1>2, SameReport
  <1>3. ASSUME NEW d \in Call, d # c, Step(d) PROVE Reporting(c)'
    <2>1. CASE StartSearch(d) \/ StartQuery(d)
      <3>1. one'[c] = one[c]
        BY <1>3, <2>1, FirstWave
      <3> QED
        BY <1>2, <1>3, <2>1, <3>1 DEF TypeOK, StartSearch, StartQuery
    <2>2. CASE StartContinue(d) \/ ContinueNothing(d) \/ EndWave(d) \/ NextWave(d) \/ WriteBack(d)
               \/ \E s \in Source : QueryWriteBack(d, s)
      BY <1>2, <1>3, <2>2 DEF TypeOK, StartContinue, ContinueNothing, EndWave, NextWave, WriteBack,
         QueryWriteBack
    <2>3. ASSUME NEW s \in Source, SearchOne(d, s) PROVE Reporting(c)'
      <3>1. OneFrame(d, s)
        BY <2>3, OneMoves
      <3>2. one'[c] = one[c]
        BY <1>3, <3>1 DEF OneFrame, TypeOK
      <3> QED
        BY <1>2, <3>1, <3>2 DEF OneFrame
    <2>4. ASSUME NEW s \in Source, QueryRefused(d, s) PROVE Reporting(c)'
      <3>1. one'[c] = one[c]
        BY <1>3, <2>4, RefusedFrame
      <3> QED
        BY <1>2, <1>3, <2>4, <3>1 DEF QueryRefused, TypeOK
    <2> QED
      BY <1>3, <2>1, <2>2, <2>3, <2>4 DEF Step
  <1>4. ASSUME Step(c) PROVE Reporting(c)'
    <2>1. CASE StartSearch(c)
      BY <2>1, StartReport
    <2>2. CASE EndWave(c)
      BY <1>1, <2>2, MergeReport
    <2>3. CASE NextWave(c)
      BY <1>1, <2>3, NextReport
    <2>4. CASE WriteBack(c)
      BY <1>1, <2>4, DoneReport
    <2>5. ASSUME NEW s \in Source, SearchOne(c, s) PROVE Reporting(c)'
      BY <1>1, <2>5, OneReport
    <2>6. /\ ~StartContinue(c) /\ ~ContinueNothing(c) /\ ~StartQuery(c)
          /\ ~(\E s \in Source : QueryRefused(c, s) \/ QueryWriteBack(c, s))
      BY DEF StartContinue, ContinueNothing, StartQuery, QueryRefused, QueryWriteBack
    <2> QED
      BY <1>4, <2>1, <2>2, <2>3, <2>4, <2>5, <2>6 DEF Step
  <1>5. CASE \E a \in Ledgers : Expire(a)
    BY <1>2, <1>5 DEF Expire
  <1>6. CASE UNCHANGED vars
    BY <1>2, <1>6 DEF vars
  <1> QED
    BY <1>3, <1>4, <1>5, <1>6 DEF Next

----------------------------------------------------------------------------
(* Theorems. *)

\* The inductive invariant.
SessionInv == TypeOK /\ Paid /\ Resuming /\ Reported

(* Initially every ledger and the session's budget are unused. *)
LEMMA PaidInit == Init => Paid
  <1> SUFFICES ASSUME Init PROVE Paid
    OBVIOUS
  <1>1. WithinBudget(stored.budget)
    BY NewRecordFields DEF Init
  <1>2. ASSUME NEW a \in Ledgers
        PROVE  made[a] = 0 /\ ledger[a].used["calls"] = 0 /\ WithinBudget(ledger[a])
    <2>1. ledger[a] = NewLedger(Limits[a]) /\ made[a] = 0 /\ Limits[a] \in [Dimension -> Nat]
      BY SearchAssumption DEF SearchAssumption, Init
    <2> QED
      BY <2>1 DEF NewLedger, WithinBudget, Dimension
  <1> QED
    BY <1>1, <1>2 DEF Paid

(* The inductive invariant. *)
LEMMA SessionsInOrder == Spec => []SessionInv
  <1>1. Init => SessionInv
    BY TypeInit, PaidInit, ResumingInit, ReportedInit DEF SessionInv
  <1>2. SessionInv /\ [Next]_vars => SessionInv'
    BY TypeNext, PaidNext, ResumingNext, ReportedNext DEF SessionInv
  <1> QED
    BY <1>1, <1>2, PTL DEF Spec

(* Whatever concurrent calls share a ledger, and whichever call continues with  *)
(* a stored budget, no provider call is unpaid and no limit is exceeded.       *)
THEOREM CallsAlwaysPaid == Spec => []CallsPaid
  <1>1. SessionInv => CallsPaid
    <2> SUFFICES ASSUME SessionInv, NEW a \in Ledgers
                 PROVE  made[a] <= ledger[a].max["calls"] /\ WithinBudget(ledger[a])
      BY DEF CallsPaid
    <2>1. made[a] = ledger[a].used["calls"] /\ WithinBudget(ledger[a]) /\ "calls" \in Dimension
      BY Costs DEF SessionInv, Paid
    <2> QED
      BY <2>1 DEF WithinBudget
  <1> QED
    BY <1>1, SessionsInOrder, PTL

(* A session never stores a cursor of the search behind a page it has not. *)
THEOREM NoPageLeftOut == Spec => []NoHoles
  <1>1. SessionInv => NoHoles
    <2> SUFFICES ASSUME SessionInv, NEW s \in Source, stored.frontiers[s].more,
                        stored.frontiers[s].by = "search",
                        NEW p \in 1..(stored.frontiers[s].cursor - 1)
                 PROVE  <<s, p>> \in stored.candidates
      BY DEF NoHoles
    <2>1. Before(stored.candidates, s, stored.frontiers[s].cursor)
      BY DEF SessionInv, Resuming, SoundRecord
    <2>2. stored.frontiers[s].cursor \in PageNo
      BY RecordFields, FrontierFields DEF SessionInv, TypeOK
    <2>3. p \in PageNo /\ p >= 1 /\ p < stored.frontiers[s].cursor
      BY <2>2, SearchAssumption DEF SearchAssumption, PageNo
    <2> QED
      BY <2>1, <2>3 DEF Before
  <1> QED
    BY <1>1, SessionsInOrder, PTL

(* Continue asks for the page behind the cursor, and for none it has. *)
THEOREM ContinueAlwaysResumes == Spec => []ContinueResumes
  <1>1. SessionInv => ContinueResumes
    <2> SUFFICES ASSUME SessionInv, NEW c \in Call, NEW s \in Source,
                        Op[c] = "continue", s \in InFlight(c)
                 PROVE  /\ one[c][s].cursor # 0
                        /\ one[c][s].by = "search" => <<s, PageOf(one[c][s])>> \notin work[c].candidates
      BY DEF ContinueResumes
    <2> DEFINE n == PageOf(one[c][s])
    <2>1. one[c][s].phase \in {"calling", "backoff", "recalling"}
      BY DEF InFlight
    <2>2. SoundOne(Op[c], s, one[c][s]) /\ SoundWave(c)
      BY DEF SessionInv, Resuming, SoundCall
    <2>3. one[c][s].cursor # 0
      BY <2>1, <2>2 DEF SoundOne
    <2>4. pc[c] = "wave"
      BY <2>1, <2>2 DEF SoundWave
    <2>5. one[c][s].by = "search" => Before(work[c].candidates, s, n)
      BY <2>1, <2>2, <2>4 DEF SoundWave
    <2>6. n \in PageNo /\ n >= 1
      BY Pages DEF SessionInv, TypeOK
    <2> HIDE DEF n
    <2>7. Before(work[c].candidates, s, n) => <<s, n>> \notin work[c].candidates
      BY <2>6 DEF Before, PageNo
    <2> QED
      BY <2>3, <2>5, <2>7 DEF n
  <1> QED
    BY <1>1, SessionsInOrder, PTL

(* A Search that is not marked partial has every page of each of its sources,  *)
(* a continuation for it, or was refused a page behind one the source gave.    *)
THEOREM FailuresAlwaysReported == Spec => []FailuresReported
  <1>1. SessionInv => FailuresReported
    <2> SUFFICES ASSUME SessionInv, NEW c \in Call, pc[c] = "done", Op[c] = "search", ~partial[c],
                        NEW s \in sources[c]
                 PROVE  Covered(c, s) \/ (s \in cut[c] /\ work[c].runs[s] = "ok")
      BY DEF FailuresReported
    <2>1. Reporting(c) /\ s \in Source
      BY DEF SessionInv, Reported, TypeOK
    <2>2. Accounted(c, s) /\ work[c].runs[s] \notin {"failed", "unavailable", "budget"}
      BY <2>1 DEF Reporting, Accounting, Marking
    <2> QED
      BY <2>2 DEF Accounted
  <1> QED
    BY <1>1, SessionsInOrder, PTL
=============================================================================

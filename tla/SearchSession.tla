--------------------------- MODULE SearchSession ---------------------------
(***************************************************************************)
(* Engine.Search, Continue and Query (internal/engine/search.go, query.go) *)
(* on one retrieval session.  A call reads the session, asks the sources   *)
(* in waves of one page each, and at its end writes candidates, frontiers, *)
(* source runs and budget back to the session record.                      *)
(*                                                                         *)
(* Page p of source s holds the one candidate <<s, p>>; a source may have  *)
(* no page at all.  A cursor is the number of the page it leads to, 0 for  *)
(* the empty cursor.  The hit of a Query is <<s, 0>>.                      *)
(***************************************************************************)
EXTENDS BudgetLedger, FiniteSets

CONSTANTS
    Source,
    Call,              \* the engine calls made on the session
    Op,                \* [Call -> {"search", "continue", "query"}]
    Asked,             \* [Call -> SUBSET Source]: req.Sources, defaulted for a search
    MaxPage,           \* bound on the page numbers
    LastPage,          \* [Source -> 0..MaxPage]: what upstream has for the search
    QueryMore,         \* TRUE: a Query leaves a continuation
    Pagination,        \* req.Strategy.Pagination
    MaxPages,          \* req.Budget.MaxPagesPerSource
    MaxAdditional,     \* req.MaxAdditionalPages
    Account, Limits,   \* ledgers, as in FetchFlight
    MayExpire,         \* ledgers whose deadline may pass while a call runs
    GlobalConcurrency, \* sources of one wave asked at once
    SharedRecord       \* the store hands out the live record, not a copy

Ledgers == {Account[c] : c \in Call}
PageNo  == 0..MaxPage
Candidate == Source \X PageNo

ASSUME SearchAssumption ==
    /\ IsFiniteSet(Source) /\ Source # {} /\ IsFiniteSet(Call)
    /\ Op \in [Call -> {"search", "continue", "query"}]
    /\ Asked \in [Call -> SUBSET Source]
    /\ Limits \in [Ledgers -> [Dimension -> Nat]]
    /\ MaxPage \in Nat /\ MaxPage >= 2 /\ LastPage \in [Source -> 0..MaxPage]
    /\ \A c \in Call : Op[c] = "query" => Cardinality(Asked[c]) = 1
    /\ \A c, d \in Call : (Op[c] = "continue" /\ Account[c] = Account[d]) => c = d
    /\ QueryMore \in BOOLEAN
    /\ Pagination \in {"none", "fixed", "adaptive"}
    /\ MaxPages \in Nat \ {0} /\ MaxAdditional \in 1..5
    /\ MayExpire \subseteq Ledgers /\ GlobalConcurrency \in Nat \ {0}
    /\ SharedRecord \in BOOLEAN

(* kernel.Continuation, with the operation its chain of cursors began with. *)
Frontier == [more : BOOLEAN, cursor : PageNo, by : {"none", "search", "query"}]
NoFrontier == [more |-> FALSE, cursor |-> 0, by |-> "none"]

Status == {"none", "ok", "empty", "failed", "unavailable", "budget"}

Record == [request : BOOLEAN, candidates : SUBSET Candidate,
           frontiers : [Source -> Frontier], runs : [Source -> Status], budget : Ledger]

NewRecord == [request |-> FALSE, candidates |-> {},
              frontiers |-> [s \in Source |-> NoFrontier],
              runs |-> [s \in Source |-> "none"],
              budget |-> NewLedger([d \in Dimension |-> 0])]

VARIABLES
    stored,   \* the session's record
    mine,     \* [Call -> Record]: the copy a Query was handed
    ledger,   \* [Ledgers -> Ledger]
    pc,       \* [Call -> {"idle", "wave", "choose", "done"}]
    round,    \* [Call -> Nat] waves merged so far
    sources,  \* [Call -> SUBSET Source] the sources the call may ask
    one,      \* [Call -> [Source -> searchOne's state in the present wave]]
    work,     \* [Call -> Record] what the call will write back
    expired,  \* ledgers whose deadline has passed
    made,     \* [Ledgers -> Nat] provider calls made on the ledger: for properties only
    partial,  \* [Call -> BOOLEAN] SearchSnapshot.Partial of finished calls
    cut       \* [Call -> SUBSET Source] sources with a page that found no provider or
              \* no budget: for properties only

vars == <<stored, mine, ledger, pc, round, sources, one, work, expired, made, partial, cut>>

(* searchOne: off -> queued -> calling [-> backoff -> recalling] -> answered. *)
Off == [phase |-> "off", cursor |-> 0, by |-> "none", status |-> "none",
        hits |-> {}, more |-> FALSE]

One == [phase : {"off", "queued", "calling", "backoff", "recalling", "answered"},
        cursor : PageNo, by : {"none", "search", "query"}, status : Status,
        hits : SUBSET Candidate, more : BOOLEAN]

Queued(f) == [phase |-> "queued", cursor |-> f.cursor, by |-> f.by,
              status |-> "none", hits |-> {}, more |-> FALSE]

Answer(o, status, hits, more) ==
    [phase |-> "answered", cursor |-> o.cursor, by |-> o.by, status |-> status,
     hits |-> hits, more |-> more]

Wave(S, frontiers) ==
    [s \in Source |-> IF s \in S THEN Queued(frontiers[s]) ELSE Off]

Init ==
    /\ stored = NewRecord
    /\ mine = [c \in Call |-> NewRecord]
    /\ ledger = [a \in Ledgers |-> NewLedger(Limits[a])]
    /\ pc = [c \in Call |-> "idle"]
    /\ round = [c \in Call |-> 0]
    /\ sources = [c \in Call |-> {}]
    /\ one = [c \in Call |-> [s \in Source |-> Off]]
    /\ work = [c \in Call |-> NewRecord]
    /\ expired = {}
    /\ made = [a \in Ledgers |-> 0]
    /\ partial = [c \in Call |-> FALSE]
    /\ cut = [c \in Call |-> {}]

\* Search: its request goes into the record at once, and all sources are asked
\* for their first page.
StartSearch(c) ==
    /\ pc[c] = "idle" /\ Op[c] = "search"
    /\ stored' = IF SharedRecord THEN [stored EXCEPT !.request = TRUE] ELSE stored
    /\ sources' = [sources EXCEPT ![c] = Asked[c]]
    /\ work' = [work EXCEPT ![c] = NewRecord]
    /\ one' = [one EXCEPT ![c] = Wave(Asked[c], NewRecord.frontiers)]
    /\ pc' = [pc EXCEPT ![c] = "wave"]
    /\ UNCHANGED <<mine, ledger, round, partial, made, expired, cut>>

\* The sources a Continue may ask: those named, or those with more.
ContinueSources(c) ==
    IF Asked[c] # {} THEN Asked[c] ELSE {s \in Source : stored.frontiers[s].more}

\* Continue: needs a session with a request; takes its candidates, runs and
\* frontiers, and extends its budget by the pages it may fetch.
StartContinue(c) ==
    LET extra == [d \in Dimension |->
                     IF d = "calls" THEN Cardinality(ContinueSources(c)) * MaxAdditional ELSE 0]
    IN  /\ pc[c] = "idle" /\ Op[c] = "continue"
        /\ stored.request /\ ContinueSources(c) # {}
        /\ work' = [work EXCEPT ![c] = stored]
        /\ sources' = [sources EXCEPT ![c] = ContinueSources(c)]
        /\ ledger' = [ledger EXCEPT ![Account[c]] =
                         [stored.budget EXCEPT !.max =
                             [d \in Dimension |-> stored.budget.max[d] + extra[d]]]]
        /\ made' = [made EXCEPT ![Account[c]] = stored.budget.used["calls"]]
        /\ pc' = [pc EXCEPT ![c] = "choose"]
        /\ UNCHANGED <<stored, mine, round, one, partial, expired, cut>>

\* Continue returns without asking anybody.
ContinueNothing(c) ==
    /\ pc[c] = "idle" /\ Op[c] = "continue"
    /\ ~stored.request \/ ContinueSources(c) = {}
    /\ pc' = [pc EXCEPT ![c] = "done"]
    /\ UNCHANGED <<stored, mine, ledger, round, sources, one, work, partial, made, expired, cut>>

\* Query: one source, one page, the caller's cursor.
StartQuery(c) ==
    /\ pc[c] = "idle" /\ Op[c] = "query"
    /\ mine' = [mine EXCEPT ![c] = stored]
    /\ one' = [one EXCEPT ![c] = Wave(Asked[c], NewRecord.frontiers)]
    /\ pc' = [pc EXCEPT ![c] = "wave"]
    /\ UNCHANGED <<stored, ledger, round, sources, work, partial, made, expired, cut>>

----------------------------------------------------------------------------
(* searchOne. *)

SetOne(c, s, o) == one' = [one EXCEPT ![c][s] = o]

\* Mutant: the semaphore is not given back.
InFlightHeld(c) == {s \in Source : one[c][s].phase \notin {"off", "queued"}}

\* The goroutines of the wave that hold the semaphore in a provider call.
InFlight(c) == {s \in Source : one[c][s].phase \in {"calling", "backoff", "recalling"}}

OneCall == [d \in Dimension |-> IF d = "calls" THEN 1 ELSE 0]

\* Ledger.Reserve and AddBytes: refused past the deadline or without room.
Granted(c, cost) == Account[c] \notin expired /\ CanReserve(ledger[Account[c]], cost)

Called(c) == made' = [made EXCEPT ![Account[c]] = @ + 1]

\* No provider, or none for this identity, as the registry is marked by now, or a query
\* too long for it: nothing is charged.
NoProvider(c, s) ==
    /\ one[c][s].phase = "queued" /\ Op[c] # "query"
    /\ Cardinality(InFlight(c)) < GlobalConcurrency
    /\ \E status \in {"unavailable", "failed"} :
          SetOne(c, s, Answer(one[c][s], status, {}, FALSE))
    /\ UNCHANGED <<stored, mine, ledger, pc, round, sources, work, partial, made, expired, cut>>

AskProvider(c, s) ==
    /\ one[c][s].phase = "queued"
    /\ Cardinality(InFlight(c)) < GlobalConcurrency
    /\ Granted(c, OneCall)
    /\ ledger' = [ledger EXCEPT ![Account[c]] = Charge(@, OneCall)]
    /\ SetOne(c, s, [one[c][s] EXCEPT !.phase = "calling"])
    /\ Called(c)
    /\ UNCHANGED <<stored, mine, pc, round, sources, work, partial, expired, cut>>

\* The call is not made: the ledger has no room, or its deadline has passed.
BudgetRefuses(c, s) ==
    /\ one[c][s].phase = "queued" /\ Op[c] # "query"
    /\ Cardinality(InFlight(c)) < GlobalConcurrency
    /\ ~Granted(c, OneCall)
    /\ SetOne(c, s, Answer(one[c][s], "budget", {}, FALSE))
    /\ UNCHANGED <<stored, mine, ledger, pc, round, sources, work, partial, made, expired, cut>>

\* Query returns at once when it finds no provider or its call is not granted.
QueryRefused(c, s) ==
    /\ one[c][s].phase = "queued" /\ Op[c] = "query"
    /\ SetOne(c, s, Off)
    /\ pc' = [pc EXCEPT ![c] = "done"]
    /\ UNCHANGED <<stored, mine, ledger, round, sources, work, partial, made, expired, cut>>

\* The page behind the cursor: the first one for an empty cursor.
PageOf(o) == IF o.cursor = 0 THEN 1 ELSE o.cursor

\* What upstream answers to searchOne or Query.
Hits(c, s) ==
    IF Op[c] = "query" THEN {<<s, 0>>}
    ELSE {<<s, p>> : p \in {PageOf(one[c][s])} \cap 1..LastPage[s]}

HasMore(c, s) ==
    IF Op[c] = "query" THEN QueryMore ELSE PageOf(one[c][s]) < LastPage[s]

\* The page arrived and its bytes, one unit, are charged; a page that does not fit is
\* kept, without its continuation.
PageArrives(c, s) ==
    LET hits == Hits(c, s)
        room == Granted(c, ByteCost(1))
    IN  /\ one[c][s].phase \in {"calling", "recalling"}
        /\ SetOne(c, s, IF room
                        THEN Answer(one[c][s], IF hits = {} THEN "empty" ELSE "ok",
                                    hits, HasMore(c, s))
                        ELSE Answer(one[c][s], "budget", hits, FALSE))
        /\ ledger' = IF room
                     THEN [ledger EXCEPT ![Account[c]] = Charge(@, ByteCost(1))]
                     ELSE ledger
        /\ UNCHANGED <<stored, mine, pc, round, sources, work, partial, made, expired, cut>>

\* The first call of a search met a rate limit or a transient error.
Backoff(c, s) ==
    /\ one[c][s].phase = "calling" /\ Op[c] # "query"
    /\ SetOne(c, s, [one[c][s] EXCEPT !.phase = "backoff"])
    /\ UNCHANGED <<stored, mine, ledger, pc, round, sources, work, partial, made, expired, cut>>

\* Mutant: the second call of a source is not charged.
PayAgainFree(c) == UNCHANGED ledger

\* The second call is reserved like the first.
PayAgain(c) ==
    /\ Granted(c, OneCall)
    /\ ledger' = [ledger EXCEPT ![Account[c]] = Charge(@, OneCall)]

AskAgain(c, s) ==
    /\ one[c][s].phase = "backoff"
    /\ PayAgain(c)
    /\ SetOne(c, s, [one[c][s] EXCEPT !.phase = "recalling"])
    /\ Called(c)
    /\ UNCHANGED <<stored, mine, pc, round, sources, work, partial, expired, cut>>

\* A permanent error, a second one, or no time or budget to try again.  What
\* statusForError makes of it: an identity the provider wants or an operation it
\* does not know is "unavailable", an answer too large for it is "budget".
SourceFails(c, s) ==
    /\ one[c][s].phase \in {"calling", "recalling", "backoff"}
    /\ \E status \in {"failed", "unavailable", "budget"} :
          SetOne(c, s, Answer(one[c][s], status, {}, FALSE))
    /\ UNCHANGED <<stored, mine, ledger, pc, round, sources, work, partial, made, expired, cut>>

----------------------------------------------------------------------------
(* Merging a wave. *)

Answered(c) == {s \in Source : one[c][s].phase = "answered"}

NextCursor(o, op) ==
    [more |-> o.more, cursor |-> IF o.more THEN PageOf(o) + 1 ELSE 0, by |-> op]

\* Whose cursor the search was given: its own, unless Query stored one.
Chain(o) == IF o.by = "query" THEN "query" ELSE "search"

\* Mutant: a source that has answered keeps its status.
MergedStatusFirst(old, new) == IF old \in {"none", "empty"} THEN new ELSE old

\* mergeRuns: failures stick; a refusal for budget or for want of a provider
\* is recorded only where nothing better is known.
MergedStatus(old, new) ==
    IF new = "failed" \/ old \in {"none", "empty"} THEN new ELSE old

\* Mutant: the frontier of an earlier page stays.
MergedFrontierKept(old, o) == IF old.more THEN old ELSE NextCursor(o, Chain(o))

\* frontiersFromResults, mergeFrontiers: the last answer decides.
MergedFrontier(old, o) == NextCursor(o, Chain(o))

\* Mutant: the pages of earlier waves are dropped.
GatheredLast(c) == UNION {one[c][s].hits : s \in Answered(c)}

\* all = append(all, collectCandidates(...)...).
Gathered(c) == work[c].candidates \cup UNION {one[c][s].hits : s \in Answered(c)}

\* All goroutines of the wave are done.
EndWave(c) ==
    LET got == Answered(c)
        w   == work[c]
    IN  /\ pc[c] = "wave" /\ Op[c] # "query"
        /\ \A s \in Source : one[c][s].phase \in {"off", "answered"}
        /\ work' = [work EXCEPT ![c] =
              [request |-> TRUE,
               candidates |-> Gathered(c),
               frontiers |-> [s \in Source |->
                   IF s \in got THEN MergedFrontier(w.frontiers[s], one[c][s])
                   ELSE w.frontiers[s]],
               runs |-> [s \in Source |->
                   IF s \in got THEN MergedStatus(w.runs[s], one[c][s].status)
                   ELSE w.runs[s]],
               budget |-> w.budget]]
        /\ round' = [round EXCEPT ![c] = @ + 1]
        /\ cut' = [cut EXCEPT ![c] =
              @ \cup {s \in got : one[c][s].status \in {"unavailable", "budget"}}]
        /\ pc' = [pc EXCEPT ![c] = "choose"]
        /\ UNCHANGED <<stored, mine, ledger, sources, one, partial, made, expired>>

\* Search: chooseNextSources.  The adaptive policy keeps the sources of the
\* last wave that still matter to the ranking, whichever these are.
SearchMore(c) ==
    IF Pagination = "none" \/ round[c] >= MaxPages THEN {{}}
    ELSE IF Pagination = "fixed" THEN {{s \in Source : work[c].frontiers[s].more}}
    ELSE SUBSET {s \in Answered(c) : work[c].frontiers[s].more}

\* Continue: its sources that have a cursor.
ContinueMore(c) ==
    IF round[c] >= MaxAdditional THEN {{}}
    ELSE {{s \in sources[c] : work[c].frontiers[s].more /\ work[c].frontiers[s].cursor # 0}}

More(c) == IF Op[c] = "search" THEN SearchMore(c) ELSE ContinueMore(c)

NextWave(c) ==
    /\ pc[c] = "choose"
    /\ \E S \in More(c) \ {{}} : one' = [one EXCEPT ![c] = Wave(S, work[c].frontiers)]
    /\ pc' = [pc EXCEPT ![c] = "wave"]
    /\ UNCHANGED <<stored, mine, ledger, round, sources, work, partial, made, expired, cut>>

\* Search and Continue: candidates, frontiers, runs and budget replace those of
\* the record, and Save stores it.
WriteBack(c) ==
    /\ pc[c] = "choose" /\ {} \in More(c)
    /\ stored' = [work[c] EXCEPT !.budget = ledger[Account[c]]]
    /\ partial' = [partial EXCEPT ![c] =
           \E s \in Source : work[c].runs[s] \in {"failed", "unavailable", "budget"}]
    /\ pc' = [pc EXCEPT ![c] = "done"]
    /\ UNCHANGED <<mine, ledger, round, sources, one, work, made, expired, cut>>

\* Query: its hits join the candidates of the record, its continuation and its
\* run replace those of the source.
QueryWriteBack(c, s) ==
    LET o    == one[c][s]
        base == IF SharedRecord THEN stored ELSE mine[c]
    IN  /\ pc[c] = "wave" /\ Op[c] = "query" /\ o.phase = "answered"
        /\ stored' = [request |-> base.request,
                      candidates |-> base.candidates \cup o.hits,
                      frontiers |-> IF o.more
                          THEN [base.frontiers EXCEPT ![s] = NextCursor(o, "query")]
                          ELSE base.frontiers,
                      runs |-> [base.runs EXCEPT ![s] = o.status],
                      budget |-> ledger[Account[c]]]
        /\ pc' = [pc EXCEPT ![c] = "done"]
        /\ UNCHANGED <<mine, ledger, round, sources, one, work, partial, made, expired, cut>>

SearchOne(c, s) ==
    \/ NoProvider(c, s) \/ AskProvider(c, s) \/ BudgetRefuses(c, s)
    \/ PageArrives(c, s) \/ Backoff(c, s) \/ AskAgain(c, s) \/ SourceFails(c, s)

Step(c) ==
    \/ StartSearch(c) \/ StartContinue(c) \/ ContinueNothing(c) \/ StartQuery(c)
    \/ EndWave(c) \/ NextWave(c) \/ WriteBack(c)
    \/ \E s \in Source : SearchOne(c, s) \/ QueryRefused(c, s) \/ QueryWriteBack(c, s)

\* The deadline of a running call's ledger passes.
Expire(a) ==
    /\ a \in MayExpire \ expired
    /\ \E c \in Call : Account[c] = a /\ pc[c] \in {"wave", "choose"}
    /\ expired' = expired \cup {a}
    /\ UNCHANGED <<stored, mine, ledger, pc, round, sources, one, work, made, partial, cut>>

Next == (\E c \in Call : Step(c)) \/ (\E a \in Ledgers : Expire(a))

Spec == Init /\ [][Next]_vars

\* Goroutines run and provider calls carry a timeout.
FairSpec == Spec /\ \A c \in Call : WF_vars(Step(c))

----------------------------------------------------------------------------
(* Properties. *)

\* Calls, ledgers and the session record are of the expected type.
TypeOK ==
    /\ stored \in Record
    /\ mine \in [Call -> Record] /\ work \in [Call -> Record]
    /\ ledger \in [Ledgers -> Ledger]
    /\ pc \in [Call -> {"idle", "wave", "choose", "done"}]
    /\ round \in [Call -> Nat]
    /\ sources \in [Call -> SUBSET Source]
    /\ one \in [Call -> [Source -> One]]
    /\ made \in [Ledgers -> Nat] /\ expired \subseteq MayExpire
    /\ partial \in [Call -> BOOLEAN] /\ cut \in [Call -> SUBSET Source]

\* Concurrent calls on one plan ledger, their retries and a Continue's extended
\* budget together never make more provider calls than MaxCalls allows, and
\* never keep more bytes than the ledger has: searchOne and Query reserve before
\* each call.
CallsPaid ==
    \A a \in Ledgers : made[a] <= ledger[a].max["calls"] /\ WithinBudget(ledger[a])

\* The cursor a session stores for a searched source comes after pages whose
\* candidates it has all stored: whoever continues from there leaves no page out.
NoHoles ==
    \A s \in Source :
        LET f == stored.frontiers[s]
        IN  (f.more /\ f.by = "search") =>
                \A p \in 1..(f.cursor - 1) : <<s, p>> \in stored.candidates

\* Continue asks a source for the page behind a stored cursor, never for the
\* first page or for another page it already has.
ContinueResumes ==
    \A c \in Call, s \in Source :
        (Op[c] = "continue" /\ s \in InFlight(c)) =>
            /\ one[c][s].cursor # 0
            /\ one[c][s].by = "search" => <<s, PageOf(one[c][s])>> \notin work[c].candidates

\* Source s has given all its pages to call c or is among its continuations.
Covered(c, s) ==
    \/ work[c].frontiers[s].more
    \/ \A p \in 1..LastPage[s] : <<s, p>> \in work[c].candidates

\* When Search reports a complete answer (partial is false), each of its sources
\* is covered, or it gave pages and then was refused a further one for want of a
\* provider or of budget: mergeRuns keeps "ok" for such a source, while
\* mergeFrontiers drops its cursor.  Every other failure, on whichever page and
\* after whatever retries, shows.
FailuresReported ==
    \A c \in Call :
        (pc[c] = "done" /\ Op[c] = "search" /\ ~partial[c]) =>
            \A s \in sources[c] : Covered(c, s) \/ (s \in cut[c] /\ work[c].runs[s] = "ok")

\* What the documentation says: a source that was unavailable, or for which the
\* budget did not last, makes the answer partial (README.md:188,
\* docs/HTTP_API.md:82).  The code keeps this promise for first pages only.
RefusalsReported ==
    \A c \in Call :
        (pc[c] = "done" /\ Op[c] = "search" /\ ~partial[c]) => cut[c] = {}

\* Every call returns, whatever the providers and the budget do: a wave larger
\* than GlobalConcurrency gets through searchWave's semaphore.
AllReturn == <>(\A c \in Call : pc[c] = "done")
=============================================================================

# Verification of Feishu-SuperSearch

TLA+ models of Feishu-SuperSearch: the plan executor, the engine's operations
(search, continue, query, fetch, expand), the session stores, the provider
registry, plan validation, rank fusion, the research and ask workflows, the HTTP
streams, and the replay and message providers. TLC checks them on small instances;
TLAPS proves the central theorems for every value of the constants. `PROJECT.json`
lists the components, runs, mutants, findings, hazards and theorems, and maps each
definition to the source lines it models.

## The system

```
 HTTP/SSE   MCP   CLI                transport/*, cmd/sfs
      \      |     /
       internal/app                  wiring, configuration
             |
   research / ask / planners         workflows that produce plans and answers
             |
       internal/engine               the Kernel: Search, Continue, Query, Fetch,
        |     |     |                Expand, Resolve, Execute, Capabilities, sessions
  planexec  budget  session store    memory, JSON files, SQLite
             |
       provider/registry -> adapters larkcli, openapi, exec, mock, replay
```

| Component | State | Operations | Hard behaviour | Correct when |
|---|---|---|---|---|
| Plan executor (`internal/planexec`) | node states, two heaps, counters, completions, events, session ID | execute a DAG of nodes: dispatch, receive, retry, cancel, skip | node goroutines finishing in any order and after cancellation; slow consumers; the first node creates the session | dependencies are respected, nodes end once, one session, retries are bounded, the result tells the truth and is delivered |
| Budget ledger (`internal/budget`) | four counters, limits, deadline | Reserve, AddBytes | shared by all operations of a plan | no limit is exceeded, every call is paid |
| Fetch (`engine/fetch.go`, `singleflight.go`) | flights by key, local and stored artifacts | lead or follow a flight, batch, merge, write back | requests overlapping on objects; leaders that fail; stale write-back | no duplicate call, no leaked key, complete results, every call returns |
| Search, Continue, Query (`engine/search.go`, `query.go`) | candidates, frontiers, source runs, budget in the session record | waves of concurrent source calls, one retry each, paging, write-back | budget running out between pages; calls overlapping on one session | cursors follow pages, no page twice, truncation is reported |
| Session stores (`internal/session`) | records, files or rows, expiry | Create, Get, Save, Delete, List | crash between steps; Saves and Deletes overlapping | acknowledged updates survive, deleted sessions stay away |
| SQLite store and import (`sqlite.go`, `import_json.go`) | one row per session, capabilities, history, schema version | open, migrate, Create, Get, Save, Delete, List, import | several processes; each operation on its own copy; crash inside a transaction | transactions are atomic, rows can be read back, updates survive operations that do not overlap |
| Expand (`engine/expand.go`) | relations | breadth-first expansion | concurrent calls per level, shared budget, stale write-back | each object asked once, bounded depth, complete unless partial |
| Registry, capabilities (`provider`, `engine.go`) | routes, availability marks, probe cache | register, route, probe, restore | concurrent probes, several critical sections | unusable providers are not routed to, usable ones are found, other errors stay visible |
| Plan validation (`internal/planvalidate`, `validatePlan`) | none | requests, references, acyclicity | two cycle checks, one in map order | they accept exactly the acyclic plans |
| Fusion (`internal/fusion`) | none | canonicalise, merge, score, sort, quota | arrival order, map order, a clock read once per object, ties | the map and the clock decide between equals only; the cut is fair |
| Research, ask, planners, AI | plan, evidence pack, answer | plan, confine, execute, rerank, read, answer | plans written by a model; every step may fail | plans stay within the request (but for the texts per source), answers cite what was read |
| HTTP/SSE | stream per request | forward events and one outcome | disconnects, deadlines, two channels | events before the outcome, no goroutine left |
| Replay provider, message pool | fixtures, manifest; worker pool | record, replay; mget | several recorders, crashes; cancellation | a replay answers what was recorded; the pool's results match its requests |
| MCP, CLI, configuration, other adapters, web UI | - | I/O, formatting, mapping | - | not modelled |

Components interact by calls on the Kernel interface; the executor calls the
engine's operations from one goroutine per node. Operations share state in three
places: the session record, the plan's budget ledger (handed down in the context)
and the flight group of Fetch. Routing reads the registry that probes write.
Research hands its plans to the executor and reads the session afterwards; the
HTTP handlers read the executor's and the workflows' channels.

## Modules

| Module | Models |
|---|---|
| `PlanExecutor` | `Executor.run`, `executeNode` and the channels between them |
| `PlanContract` | what `Execute` promises its callers; `PlanExecutor` implements it (`ContractKept`) |
| `BudgetLedger` | the ledger's operators, used by `FetchFlight`, `SearchSession` and `Expand` |
| `FetchFlight` | `Engine.Fetch` and the single-flight group |
| `SearchSession` | `Engine.Search`, `Continue` and `Query` on one session |
| `FileStore` | the JSON file store above the memory store |
| `SQLiteStore` | the SQLite store, its migration and the JSON import, by several processes |
| `Expand` | `Engine.Expand` on one session and one ledger |
| `Registry` | the registry of one source, capability probes and their cache |
| `PlanValidation` | `planvalidate.Validate` and the executor's `validatePlan`, as operators |
| `Research` | `research.Service`, `ask.Service`, the planners, rerank and answer; uses `PlanValidation` |
| `StreamContract`, `EventStream` | what a client of a stream may rely on; the handlers and workers that implement it (`StreamKept`) |
| `Fusion` | canonicalisation, merge, ranking and cut |
| `MessageFetch`, `Replay` | the message worker pool; the recording and replaying wrapper around it |
| `PlanExecutorProofs` | theorems about `PlanExecutor`: its bookkeeping, what its callers see, and the refinement of `PlanContract` |
| `FetchFlightProofs`, `SearchSessionProofs`, `FileStoreProofs`, `SQLiteStoreProofs` | theorems about the module of that name |
| `ProviderProofs` | theorems about `Expand`, `MessageFetch` and `Replay`, the components that call providers many times for one request |
| `WorkflowProofs` | theorems about `Research`, `PlanValidation` and `EventStream` |
| `SelectionProofs` | theorems about `Registry` and `Fusion`: who is asked, and what is returned |
| `MC*` | small instances for TLC; `MCSelection`, `MCGoroutines` and `MCResearchReplay` check two components each (see Runs) |

Operators that begin with the comment "Mutant:" are not part of a
specification: each is the mapped definition below it with a plausible bug, used to show
that a property notices the bug.

### PlanExecutor

One scheduler goroutine; `pc` is its place in the loop, and the loop is cut where
another goroutine can be observed: at the `select`, at each emit that may block
and between the iterations of the pass over blocked nodes. `st`, `res`,
`attempt`, `ready`, `retries`, `running`, `terminal`, `sessionID` are the fields
and locals of `run`; `task[n]` is a node's goroutine together with its message on
`completed`. Go's map order is the free choice of the next node of the pass
(`unswept`). Time is abstract: `Expire` closes the context at any moment and
`RetryTimer` lets a retry become due. What a node's operation returns is any state
the branch of `executeNode` can return. Plans are inputs: they satisfy plan
validation.

### FetchFlight

One action per step of a Fetch call that others can observe: preparing an item,
taking a flight, starting or being refused a chunk, the provider's return, the two
halves of finishing a flight (close, then delete the key), a follower waking or
giving up, the write-back. A projection set is a set of bits and an artifact costs
one byte. One provider and one identity scope, so the flight key is the object and
the missing projections.

### SearchSession

A call asks its sources in waves; `one[c][s]` is a source's goroutine in the
present wave. Page `p` of a source holds one candidate, a cursor is the number of
the page it leads to and remembers which operation its chain began with: the
pages between a query's cursor and a search's are unrelated, so `NoHoles` speaks of
chains begun by a search. A wave asks the registry anew, so a source may have no usable
provider on any page (`NoProvider`), and a provider's error may be recorded as failed,
unavailable or budget (`SourceFails`, after `statusForError`; missing scope and
deadline are merged like failed). A query without a provider or budget ends at once
(`QueryRefused`). A page costs one
byte. The adaptive policy's choice of sources depends on ranking and is free.
`SharedRecord` chooses between stores that hand out the live record (memory,
files) and those that hand out a copy (SQLite). `made` counts provider calls for
the properties only, and `cut` the sources refused a page without a failure. What
upstream holds is external: `Hits`, `HasMore`, `PageOf`.

### FileStore

One session whose content is a version number. A task performs one operation:
create, update, read, delete or list. `Save` is cut at the memory store, the mutex, the
snapshot and the rename, and fails at any of them; `Crash` ends all operations at
any step and `Restart` is `NewFileStore`. `acked` and `deleted` are for the
properties only. Temporary files are not loaded by a restart and are left out.

### SQLiteStore

One session row with its indexed columns and its snapshot, the schema version and its
tables, capability rows and one history row. Unlike the file store, `Get` decodes a
copy and `Save` upserts the whole row. A statement outside a transaction is one step;
`tx` is the open transaction of a process, whose writes others see after the commit.
`Open` may refuse a path, find a newer database or fail at each step; `Crash` takes a
process with its transaction and operations. The import reads the files of its
directory one by one: it asks with `Get`, then saves. `acked` and `overlap` are for
the properties only.

### Expand

`level[t][o]` is the goroutine of object `o` in the present level of expansion `t`:
waiting for the semaphore, reserving, calling, answered. The level ends when all have
answered (`wg.Wait`), and its results are merged in order. `Graph` is what the provider would
answer; the answer may also fail, time out or be refused by the ledger.

### Registry

One source, its providers in order of registration, routes per operation, availability
marks per provider and per operation, the capability cache and its persisted copy. A
probe has one goroutine per provider, and every call into the registry or the cache is
its own critical section, as in the code. Configuration happens before the probes.

### PlanValidation and Research

A plan is a sequence of nodes with dependencies, an operation and the fields of its
request. A depth-first search is a recursive function `visit` from a node and the marks
so far to its verdict and the marks after it; `VisitEach` is the loop that calls it for
one id after another and stops at the first refusal. Both cycle checks are `NoCycle`
with their own order of roots; `hasRetrievalAncestor` is the same loop with another
`visit`. Candidates a session holds have distinct ids, which the engine's merge of
candidates ensures.
`Research` follows `RunWithObserver`: capabilities, planning (rules, model with
fallback, command), `constrainPlan`, execution, reading of outputs or of the session,
rerank, further fetches, packing, answer. `Pinned` is the request of a search after
`constrainPlan`: query, filters and limits of the caller, its sources where the plan
names none, and the plan's own `source_queries`, of which only the names are checked;
`Sent` is the text the engine then sends to a source. Query texts are the caller's, a
compacted form of it that the rules write, or another. Its drafts are several hundred plans over up
to three nodes, many of them invalid or reaching for more than the request allows.

### EventStream

The worker goroutine, its two channels and the handler's `select`, for workflows,
streamed plans and plans answered as JSON. A write to a client that has left may
succeed or fail.

### Fusion

One call of the fusion pipeline. Each hit is merged in the order of arrival; the sort
starts from any order of the map. What an object weighs is kept in millionths
(`BaseScore`). `ScoreObjects` ranges over the map and reads the clock once per object,
never earlier than for the one before; an object less than 30 days old loses that much
of its score (`late`, in billionths, below one millionth). `SliceStable` inserts
one element after another and takes the comparison as a relation on the objects;
`FirstPass` takes or defers one item after another, as the loop under the quotas does.

### MessageFetch and Replay

The pool feeds indices to workers over an unbuffered channel until it is done or
cancelled. A message comes whole, without the projection asked for, under an id nobody
asked for, not at all, or as an error. Recorders and replayers are processes over one directory; the two steps of
a recorded call (call, save) and of a registration (own map, manifest file) are
separate, and a process may stop between any two.

## Runs

| Run | Instance | Shows |
|---|---|---|
| `executor` | 30 plans of three nodes: all DAG shapes up to renaming, three sets of operations, two workers, one-slot event buffer | heaps, counters, goroutines and states agree; dependencies; one session; honest result and events; final states; implements `PlanContract`; the result comes although goroutines and the consumer may stop |
| `optional_failure` | plans of three nodes, one of them optional | **violated**: a node is skipped although each failed dependency of it is optional |
| `fetch` | three requests over three objects in batches of two, two of them on one ledger | one flight per key, exact accounting, results complete, nothing older is lost, every call returns |
| `search` | a search over two sources, a query and a Continue whose deadline may pass, on one record and a shared ledger, all overlapping; providers missing, refusing and failing on any page | calls and bytes within the ledger, retries included; stored cursors follow stored pages; no page asked twice; nothing is left out silently but pages refused after a good one; calls return |
| `search_refusal` | the same | **violated**: a source refused a later page does not make the answer partial |
| `file_store` | three operations, expiry, failing writes, any number of crashes | acknowledged updates survive; the file never goes back; no Save waits for ever |
| `sqlite_store` | two operations of a server and one of a CLI command on one database, which starts empty, old, current or newer | migration and capabilities are all or nothing; rows can be read back; updates survive while operations do not overlap |
| `sqlite_import` | the same | **violated**: an import replaces a row that appeared after it asked |
| `selection` | registry: two providers, two operations, two probes with one slot, all routes and orders of registration; fusion: eleven hits, up to three of them in any order or nearly all at once, limits 0 to 2, with and without quotas, two readings of the clock | routing is sound and complete, marks and reported capabilities agree unless probes overlapped, permission errors stay visible; the merge holds what its hits say, the ranking is by weight, the map and the clock decide between equals only, the cut is fair |
| `goroutines` | expand: three expansions over four objects, depths 1 and 2, on one ledger; streams: three kinds of response, up to four events, buffer of two | each object once, complete unless partial, relations kept unless expansions overlap, every expansion ends; `StreamContract` is implemented, no event is overtaken by the outcome, handler and worker end |
| `research_replay` | research: six requests, three planners, several hundred drafts, two objects; recordings: two processes, two workers, batches of up to two messages, two recorded calls | both validators accept exactly the acyclic plans, executed plans stay within the request, candidates, evidence and citations are traceable; pool results match the requests, a replay gives what was recorded, recordings are listed unless registrations overlapped |
| `pinned_query` | the research part of it | **violated**: a search sends a source a text that is not the caller's query |

`selection`, `goroutines` and `research_replay` each check two components that share no
state. A behaviour of such a run exercises one of them (`part`), and the other stays in
one initial state where no fairness asks anything of it: the states are those of the
two alone, side by side, never their product. Symmetry is declared for the probes of
the registry, in a run that checks no liveness.

Each violated property states what a comment or a document of the repository says;
`PROJECT.json` quotes it under `findings`, together with one on the ranking, where
`RankingDetermined` says how far the documents' claim holds.

Bounds. Three nodes are the least with a dependency chain, a join, a fork and two
roots; the retry limit is the code's default of two (and one for the third node).
The event buffer of one slot makes emits block, which 256 slots would hide. Two
requests make a leader and a follower, the third one meets the window between
closing a flight and freeing its key. Ledgers are sized so that they run out in
the middle. Sources have up to three pages: first, middle, last. Three operations on
a session are its creation and two racing updates, or an update and a removal. For
SQLite the life of a session (`TTL`) is one tick of a clock that ticks once
(`MaxNow`), so every operation happens before, at or after expiry. One probe slot and
two providers make goroutines of two probes interleave. Three nodes hold every kind of
cycle (a loop, a pair, a triangle); `NodeCap` and `ItemCap` stand for 200 and 100 and
are exceeded by some drafts. A stream of four events overfills a buffer of two. Three
hits are an object seen twice beside a rival; the instance with all hits reaches
quotas beyond the limit. Two readings of the clock, 0 and 1, are enough for equals to
differ. `MaxCalls` bounds the recorded calls at two: one provider
twice or both once. Deadlock is checked for `research_replay`: a request goes on until
it is done or has failed, a process may always restart. All the other systems end.
The longest run, `research_replay`, takes two to three minutes with two workers.

Fairness. The scheduler and each begun goroutine take their next step if they can:
Go runs runnable goroutines. `PlanExecutor` adds that the context's deadline passes
(`run` always sets one), and asks nothing of node goroutines and of the reader of
events. `FetchFlight` and `SearchSession` assume that provider calls return, since
each carries a timeout, and so does `Expand`. `FileStore` assumes nothing about
crashes. In `EventStream` the worker and the handler run; clients need not leave and
deadlines need not pass, and the work ends because its own calls are bounded.

## Proofs

Every theorem holds for all values of the constants that the module's named
assumption admits: any numbers of nodes, requests, calls, processes and the like, any
limits and capacities. The assumptions say that index sets are finite, that inputs have
their types and that `None` is none of the things it stands beside; the model-checked
instances satisfy them. Each proof has the same shape: an inductive invariant named in
the proof module, a lemma for the initial states, lemmas for the steps, one per action
and conjunct it can disturb, and a last theorem that reads the property off. Each
proof module begins with its invariant.

| Theorem | States | For |
|---|---|---|
| `TypeCorrect`, `BooksAlwaysAgree`, `NeverTwoAttempts`, `TerminalStaysFinal`, `DependenciesAlwaysRespected` | `TypeOK`, `BooksAgree`, `OneTaskPerNode`, `TerminalIsFinal`, `DependenciesRespected` | executor |
| `PlanHasOneSession`, `ResultAlwaysHonest`, `ExecutorImplementsContract` | `OneSession`, `ResultHonest`, `ContractKept` | executor |
| `OneCallPerKey`, `ResultsAlwaysComplete`, `FetchesAlwaysPaid` | `OneFlightPerKey`, `ResultsComplete`, `FetchesPaid` | Fetch |
| `CallsAlwaysPaid`, `NoPageLeftOut`, `ContinueAlwaysResumes`, `FailuresAlwaysReported` | `CallsPaid`, `NoHoles`, `ContinueResumes`, `FailuresReported` | Search, Continue, Query |
| `StoreConsistent`, `AcknowledgedIsDurable`, `FileNeverGoesBack` | `StoreInvariant`, `Durable`, `NewestWins` | file store |
| `TransactionsStayAtomic`, `SerialUpdatesStay` | `TransactionsAtomic`, `SerialUpdatesKept` | SQLite store |
| `RoutesAlwaysSound`, `MarksAlwaysAgree`, `OnlyHandshakeFailuresHide` | `RoutesSound`, `MarksAgree`, `PermissionErrorsVisible` | registry |
| `TerminalNeverOvertakes`, `StreamImplementsContract` | `NothingOvertaken`, `StreamKept` | HTTP streams |
| `AnswerAlwaysTraceable`, `PlanAlwaysWithinAuthority`, `ValidatorsAlwaysAgree` | `AnswerTraceable`, `PlanWithinAuthority`, `ValidatorsAgree` | research, plan validation |
| `ExpandAlwaysExact`, `SerialRelationsStay` | `ExpandExact`, `SerialRelationsKept` | Expand |
| `PoolAlwaysExact`, `ReplayAlwaysFaithful`, `RecordingsAlwaysReplayable` | `PoolExact`, `ReplayFaithful`, `RecordingsReplayable` | message pool, replay |
| `MergeAlwaysExact`, `RankingAlwaysDetermined`, `SelectionAlwaysFair` | `MergeExact`, `RankingDetermined`, `SelectionFair` | fusion |

**Executor, bookkeeping** (`ExecutorAssumption`: finite nodes, any set of plans, any
concurrency and buffer). `Bookkeeping` joins the type invariant, the agreement of
heaps, counters and goroutines with node states, and the fact that the pass over
blocked nodes holds only blocked nodes. The parts need each other: a popped node is
ready only because the heap agrees with the states, the counter is right only because a
completion belongs to a running node, and that needs one goroutine per node.
Dependencies need in addition that a node that has left `blocked` was found ready, that
one skipped for a dependency has a failed one and tolerates none (`SkipsCaused`), and
that finished nodes do not change.

**Executor, callers.** `OneSession` alone is not inductive: two attempts in flight
without a session ID could create one each. `AloneWithoutSession` excludes this: until
the scheduler knows a session, at most one goroutine is out (the condition the code
tests before it dispatches). `ResultHonest` is read off `Honest`, which follows each node to
its end: what was recorded of it, whether that was announced, and which states a
goroutine can send at all; without the last part a plan reported complete could hold a
node that failed. The refinement maps the executor's state to `PlanContract`: each
step, taken under `Bookkeeping`, `Sessions` and `Honest`, is a step of the contract or
leaves what callers see unchanged.

**Fetch** (`FetchAssumption`). `FlightInv` says who owns a key: a leader holds its key
from acquiring it to the second half of `complete`, and whoever finds a key in the map
follows a leader of that very key (`KeysOwned`). It needs the stages a role allows
(`Stages`), that chunks are made of leaders (`LeadersLead`) and that unprepared items
have no work (`Untouched`). `Covered` adds that what a request has and what its flight
will bring make up what it wants; `ResultsComplete` follows with `Kernel`, which says that
nobody holds less than the session did before. `FetchesPaid` is an equation between a
ledger and the cardinality of a set of calls; it is shown step by step: a chunk adds
as many pairs to the set as the ledger is charged for.

**Search, Continue, Query** (`SearchAssumption`). `SessionInv` has three parts besides
types. `Paid`: ledgers count the calls and stay within their limits, and so does the
budget stored for a later Continue. `Resuming`: a search's cursor leads to the first
page the record has not, in the stored record and in every copy a call works
on, and a wave asks only for such pages; `NoHoles` speaks of stored records alone and would not
survive a merge. `Reported`: each of a search's
sources is being asked, has a failure recorded, is covered, or was cut short after a
good page; the last is what `mergeRuns` makes of a refusal.

**File store.** `Durable` is not inductive by itself: a rename could bring an older
snapshot (excluded by `RecordNewest`, which needs the mutex, `MutexHeld`), and a Get
that misses removes the file (harmless by `MissingIsUnsaved`: memory lacks a session
that is neither deleted nor expired only if it was never saved).

**SQLite store** (`SQLiteAssumption`: any number of processes and operations, any
import directory whose files are not sessions besides the one modelled). `SQLiteInv`
joins the types, `Atomic` (the tables are those of the version, all capabilities are
of one snapshot, an open store has the current version), `Transacting` (the open
transaction has one owner, and its image differs from the database only in what that
owner writes), `Alone` (operations run singly until one overlaps) and `Kept` (rows
decode; without overlap, the row and the copy about to replace it hold every
acknowledged update). Atomicity needs `Transacting`, since a commit replaces the
database by the image: had another process written beside it, the commit would undo
that. `Kept` needs `Alone`, and is false without it (see `sqlite_import`).

**Registry** (`RegistryAssumption`). Routes: configured routes lead to registered
providers that support the operation. Marks: `MarksInv` tells for each place of a
probe's goroutine how marks, cache and the answer in its hands agree (`Story`),
because the probe changes them in separate critical sections and they disagree in
between; it holds while probes do not overlap.

**Streams** (`StreamAssumption`: any buffer, any number of events). `StreamInv`: how
far worker and handler are (`Progress`), events travel in order from worker to channel to
client (`InOrder`), none is anywhere else while the client is there (`NoneMissing`), the
terminal message comes after an empty channel (`TerminalLast`). The refinement of
`StreamContract` rests on the same invariant.

**Expand** (`ExpandAssumption`: any graph, any limits and concurrency). `Traversal`
tells what each level is: the root, then, if the depth allows, the root's neighbours,
and by then the root has given its relations (`Levels`); that a goroutine asked only
what its place says (`Called`); and that an expansion with nothing missing has the
relations of every object near its root (`Complete`). The model's depths are one and
two, as are the code's after its default and its clamp. `SerialRelationsKept` needs
`Serial`: one expansion at a time, whose snapshot is what the session still holds.

**Message pool and replay** (`ReplayAssumption`: any processes, requests and lengths of
batches). `PoolSound`: an index is with the feeder, in the hands of one worker, or
answered once, with the result that belongs to the answer. `ReplayInv` adds that there
is an entry for every recorded request and no other, filed under a key no other request
has, and, until two registrations overlap, that the manifest lists the providers of all
entries; a process in the middle of a call holds a request of a provider it registered.

**Research** (`ResearchAssumption`: any drafts that have the shape of a plan, any
requests, findings and budgets). `Traced` follows candidates and artifacts from the
execution to the citations. `Confined` says that a plan before `constrainPlan` can be
confined and that one after it is; that a fetch lies below a search is a property of
`hasRetrievalAncestor`, whose depth-first search is shown to end and to meet a search
exactly if the closure of the dependencies holds one.

**Plan validation.** That `visit` exists as a function is itself a theorem: it is
defined for colourings with few unvisited nodes first, by induction on their number.
The search answers FALSE only on a path that returns to itself, which a ranking
excludes; when it answers TRUE, the nodes that are done can be ranked above what they
depend on (`RankedDone`), and each node that is left gets the next rank. As neither
half mentions the order of the roots, the executor's search accepts what that of
`planvalidate` does, whatever Go's map yields.

**Fusion** (`FusionAssumption`: any hits, weights, quotas, limits, and readings of the
clock less than a millionth of a score apart). `MergeInv`: each
object holds exactly what its hits so far say (`Holds`), one more hit at a time.
`RankInv`: the items are a ranking of the merged objects: each once, in the order of
scores, and in the full order when the times can be compared. A larger weight is a
larger score whatever the clock took (`ScoreFollowsBase`), so the ranking is by weight;
where no recent objects weigh the same, equal weights are equal scores and the
tie-break alone decides. Insertion keeps the order
of every relation its comparison refines (`InsertOrdered`), so the same sort is right
by score even where the comparison is not transitive; a strict total order has one
sorted sequence (`OrderUnique`), hence the map's order does not matter. Fairness rests
on `PassInv` for the first pass: no source is beyond its quota, the deferred stay in
order, and each of them was deferred because its source's quota or the limit was used
up, the latter by objects as good (`PassedOver`).

**Recursion and induction.** What a recursive function computes is shown by induction
over the natural numbers in the form the provers can use: a set of numbers that holds 0
and with each number the next is `Nat` (`Induction`), applied to the set of lengths for
which the claim holds. The same argument shows that the functions exist, without
which their defining equations could not be used.

**Only model-checked.** Liveness (`Delivered`, `AllReturn`, `SavesReturn`,
`ExpandsReturn`, `StreamEnds`): fairness and ENABLED are outside the prover. Every
other property of a passing run is a theorem. The violated `ImportNeverReplaces`,
`OptionalFailureTolerated`, `RefusalsReported` and `QueryPinned` are counterexamples on
one instance.

## Known behaviour

Modelling met places where the code does less than a reader may expect. The models
contain them, and the properties are stated so that they are true of the code.

- A node is skipped when a dependency failed although that dependency was optional:
  `dependencyState` reads the flag of the dependent (`executor.go:607`), while
  `docs/RETRIEVAL_PLAN.md:252` speaks of the failed node (run `optional_failure`).
- One pass over blocked nodes in map order can leave a node that its last skipped
  dependency would have released; it ends as could-not-be-scheduled
  (`executor.go:234`).
- Of two overlapping Fetches for different projections of an object, the later
  write-back removes what the earlier one stored (`fetch.go:216`). Expand does the same
  with relations (`expand.go:182`), and with SQLite every operation with the whole row.
- A source that gave a page and finds no provider or no budget for the next keeps its
  status ok and loses its cursor (`search.go:366`, `search.go:380`): the answer is not
  partial, lacks pages and cannot be continued there (run `search_refusal`).
- A plan's `source_queries` replace the caller's query: `constrainPlan` checks their
  names and leaves their texts (`service.go:232`, run `pinned_query`), although several
  documents call the query pinned; `docs/ARCHITECTURE.md:94` describes the replacement.
- A Search replaces the candidates of the session (`search.go:90`); a query's cursor is stored where Continue looks for a search's
  (`query.go:80`).
- A Save of an operation that overlapped a deletion brings the session back
  (`file.go:104`).
- An object's own provider is used although the operation is marked unusable for it:
  `providerForRef` looks at the mark of the whole provider. Overlapping probes can
  leave marks of one and capabilities of the other.
- `constrainPlan` refuses a `map_fetch` without a request, and a refused plan has no
  fallback to the rules. A request that allows more than 100 reads makes the executor
  refuse the plan. `fetchReranked` gives the second round of reads the budget of the
  request again.
- Fusion reads the clock for each object while it ranges over the map
  (`fusion.go:239`): of two recent objects of equal weight and time the one that comes
  first in the map's order can win, not the one with the smaller id. The documents call
  the signals deterministic.
- With known and unknown times mixed, fusion's comparator is not transitive among
  equal scores, so the order can depend on the map. The source of a merged object is
  that of its first sighting.
- Recorders that register at the same time overwrite each other's manifest.
- `mget` leaves out messages that do not exist without an error.

## Not modelled

Payloads, wording and encodings; identity scopes beyond "one scope"; the adapters'
mapping to the Feishu CLI and API; prompts and HTTP of the AI clients; the exec and
mock providers; the MCP loop, the CLI, the web UI and configuration, which have no
state that several steps share; HTTP handlers that call the engine once and encode
its answer. Failures of the session store inside search, fetch and
the executor end the operation with an error after its in-memory effect and are
left out. Liveness of the message pool is not checked: its state space is
too large for it. `mergeArtifact` shares a metadata map between artifacts, a data race the
abstraction does not show. The documented `limit` and `map_fetch` request fields
differ in name from those the code reads (`top_k`, `default_projection`); names are
not modelled.

## Plan

Done: the inventory, all modules, and a proof of every safety property and both
refinements. Left:

1. A composition of `SearchSession` and `FetchFlight` above the stores, against one
   abstract session specification.
2. Failures of the session store inside search and fetch, with the executor's handling
   of a session created by a search that then fails.

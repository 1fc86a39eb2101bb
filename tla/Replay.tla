------------------------------- MODULE Replay -------------------------------
(***************************************************************************)
(* Recording and replaying provider calls (adapter/replay): processes that *)
(* share one directory wrap their providers, call them and save the        *)
(* outcome of every call under a key of its request, or answer calls from  *)
(* what was saved.  The messages provider is MessageFetch; the other one   *)
(* answers in a single call.                                               *)
(*                                                                         *)
(* A file is replaced by the rename at the end of atomicWrite; a process   *)
(* that stops before it leaves a temporary file nobody reads.              *)
(***************************************************************************)
EXTENDS MessageFetch

CONSTANTS
    Provider, Messages,   \* Messages \in Provider
    Operations,           \* [Provider -> operations it implements]
    Request,              \* set of [provider, op, ids, scope]
    Session, Nil,
    MaxCalls              \* bound: calls that are recorded

\* What a provider answers: success, the objects found and those with details,
\* as positions in the request.
CallOutcome == [ok : BOOLEAN, messages : SUBSET Nat, enriched : SUBSET Nat]

ASSUME ReplayAssumption ==
    /\ Messages \in Provider
    /\ \A r \in Request :
          /\ r = [provider |-> r.provider, op |-> r.op, ids |-> r.ids, scope |-> r.scope]
          /\ r.provider \in Provider /\ r.ids \in Seq(MessageId)
    /\ Nil \notin Request \cup [request : Request, outcome : CallOutcome]

VARIABLES
    proc,       \* [Proc -> process]
    manifest,   \* providers listed in manifest.json
    entries,    \* [key -> entry file]
    calls,      \* recorded calls begun: for the bound only
    saved,      \* [request -> outcome] saved last: for properties only
    overlapped  \* two recorders registered at the same time: for properties only

diskVars == <<manifest, entries>>
historyVars == <<calls, saved, overlapped>>
replayVars == <<pool, proc, diskVars, historyVars>>

Down ==
    [pc |-> "down",      \* "down", "open", "ready", "base", "save" or "answered"
     mode |-> "record", known |-> {}, register |-> {},
     request |-> Nil, key |-> Nil, outcome |-> Nil, error |-> FALSE]

ReplayInit ==
    /\ PoolInit
    /\ proc = [p \in Proc |-> Down]
    /\ manifest = {} /\ entries = [k \in {} |-> Nil]
    /\ calls = 0 /\ saved = [r \in {} |-> Nil] /\ overlapped = FALSE

\* Mutant: the session takes part in the identity of a fixture.
KeyWithSession(request, session) == <<request.provider, request.op, request.ids, request.scope, session>>

\* requestKey over the normalised request: the session is dropped, the
\* identity's scope is kept.
requestKey(request, session) == <<request.provider, request.op, request.ids, request.scope>>

\* Load: the recorded outcome; an error when there is no fixture, or one of
\* another request.
Load(request, session) ==
    LET key == requestKey(request, session)
    IN IF key \in DOMAIN entries /\ entries[key].request = request THEN entries[key] ELSE Nil

---------------------------------------------------------------------------
(* The application opens the store *)

\* Mutant: a recorder starts its manifest afresh.
KnownAtOpenEmpty(mode) == IF mode = "record" THEN {} ELSE manifest

KnownAtOpen(mode) == manifest

\* NewStore reads the manifest.  A recorder then wraps its providers.
OpenRecorder(p) ==
    /\ proc[p].pc = "down"
    /\ \E ps \in SUBSET Provider \ {{}} :
          proc' = [proc EXCEPT ![p] =
             [Down EXCEPT !.pc = "open", !.known = KnownAtOpen("record"), !.register = ps]]
    /\ UNCHANGED <<pool, diskVars, historyVars>>

\* A replay needs a manifest with a provider.
OpenReplay(p) ==
    /\ proc[p].pc = "down" /\ KnownAtOpen("replay") # {}
    /\ proc' = [proc EXCEPT ![p] =
          [Down EXCEPT !.pc = "ready", !.mode = "replay", !.known = KnownAtOpen("replay")]]
    /\ UNCHANGED <<pool, diskVars, historyVars>>

\* Wrap and Register: the descriptor is added in memory and the whole
\* manifest written from there.
Register(p) ==
    /\ proc[p].pc = "open"
    /\ \E d \in proc[p].register :
          /\ proc' = [proc EXCEPT ![p].known = @ \cup {d}, ![p].register = @ \ {d},
                                  ![p].pc = IF proc[p].register = {d} THEN "ready" ELSE "open"]
          /\ manifest' = proc[p].known \cup {d}
    /\ overlapped' = (overlapped \/ \E q \in Proc \ {p} : proc[q].pc = "open")
    /\ UNCHANGED <<pool, entries, calls, saved>>

\* The manifest cannot be written: the application does not start.
RegisterFails(p) ==
    /\ proc[p].pc = "open"
    /\ proc' = [proc EXCEPT ![p] = Down]
    /\ UNCHANGED <<pool, diskVars, historyVars>>

---------------------------------------------------------------------------
(* Recording *)

Calls(p) == {r \in Request : r.provider \in proc[p].known}

\* unsupported: nothing is called and nothing recorded.
Unsupported(p) ==
    /\ proc[p].pc = "ready" /\ proc[p].mode = "record"
    /\ \E r \in Calls(p) :
          /\ r.op \notin Operations[r.provider]
          /\ proc' = [proc EXCEPT ![p].pc = "answered", ![p].request = r, ![p].error = TRUE]
    /\ UNCHANGED <<pool, diskVars, historyVars>>

\* The base provider is called.
CallBase(p) ==
    /\ proc[p].pc = "ready" /\ proc[p].mode = "record" /\ calls < MaxCalls
    /\ \E r \in Calls(p), s \in Session :
          /\ r.op \in Operations[r.provider]
          /\ proc' = [proc EXCEPT ![p].pc = "base", ![p].request = r,
                                  ![p].key = requestKey(r, s)]
          /\ IF r.provider = Messages THEN Mget(p, r.ids) ELSE UNCHANGED pool
    /\ calls' = calls + 1
    /\ UNCHANGED <<diskVars, saved, overlapped>>

BaseIs(p, outcome) ==
    /\ proc' = [proc EXCEPT ![p].pc = "save", ![p].outcome = outcome]
    /\ pool' = [pool EXCEPT ![p] = IdleBatch]
    /\ UNCHANGED <<diskVars, historyVars>>

BaseReturns(p) ==
    /\ proc[p].pc = "base" /\ proc[p].request.provider = Messages /\ pool[p].state = "done"
    /\ BaseIs(p, IF proc[p].request.op = "search" THEN SearchOutcome(p) ELSE FetchOutcome(p))

\* Another provider answers; or, before any message is asked for, the search
\* for ids fails or Fetch refuses a projection.
BaseAnswers(p) ==
    /\ proc[p].pc = "base"
    /\ \/ /\ proc[p].request.provider # Messages
          /\ \E ok \in BOOLEAN :
                BaseIs(p, IF ok THEN [Failure EXCEPT !.ok = TRUE, !.messages = DOMAIN proc[p].request.ids]
                          ELSE Failure)
       \/ /\ proc[p].request.provider = Messages /\ pool[p].next = 1
          /\ BaseIs(p, Failure)

\* Save under the store's mutex: the entry replaces what its path held.
Save(p) ==
    /\ proc[p].pc = "save"
    /\ LET c == proc[p]
       IN /\ entries' = [k \in DOMAIN entries \cup {c.key} |->
                           IF k = c.key THEN [request |-> c.request, outcome |-> c.outcome]
                           ELSE entries[k]]
          /\ saved' = [r \in DOMAIN saved \cup {c.request} |->
                           IF r = c.request THEN c.outcome ELSE saved[r]]
          /\ proc' = [proc EXCEPT ![p].pc = "answered", ![p].key = Nil, ![p].outcome = Nil,
                                  ![p].error = ~c.outcome.ok]
    /\ UNCHANGED <<pool, manifest, calls, overlapped>>

\* recordingError: the caller is told, whatever the provider answered.
SaveFails(p) ==
    /\ proc[p].pc = "save"
    /\ proc' = [proc EXCEPT ![p].pc = "answered", ![p].key = Nil, ![p].outcome = Nil,
                            ![p].error = TRUE]
    /\ UNCHANGED <<pool, diskVars, historyVars>>

---------------------------------------------------------------------------
(* Replaying *)

Replayed(p) ==
    /\ proc[p].pc = "ready" /\ proc[p].mode = "replay"
    /\ \E r \in Calls(p), s \in Session :
          LET entry == Load(r, s)
          IN proc' = [proc EXCEPT
                ![p].pc = "answered", ![p].request = r,
                ![p].error = entry = Nil \/ ~entry.outcome.ok]
    /\ UNCHANGED <<pool, diskVars, historyVars>>

\* The caller has its answer, which is not kept here.
Done(p) ==
    /\ proc[p].pc = "answered"
    /\ proc' = [proc EXCEPT ![p].pc = "ready", ![p].request = Nil, ![p].key = Nil,
                            ![p].outcome = Nil, ![p].error = FALSE]
    /\ UNCHANGED <<pool, diskVars, historyVars>>

\* The process ends at any point.
Stop(p) ==
    /\ proc[p].pc # "down"
    /\ proc' = [proc EXCEPT ![p] = Down] /\ pool' = [pool EXCEPT ![p] = IdleBatch]
    /\ UNCHANGED <<diskVars, historyVars>>

Fetching(p) ==
    (PoolStep(p) \/ Cancel(p)) /\ UNCHANGED <<proc, diskVars, historyVars>>

ReplayNext ==
    \E p \in Proc :
        \/ OpenRecorder(p) \/ OpenReplay(p) \/ Register(p) \/ RegisterFails(p)
        \/ Unsupported(p) \/ CallBase(p) \/ Fetching(p) \/ BaseReturns(p) \/ BaseAnswers(p)
        \/ Save(p) \/ SaveFails(p) \/ Replayed(p) \/ Done(p) \/ Stop(p)

ReplaySpec == ReplayInit /\ [][ReplayNext]_replayVars

---------------------------------------------------------------------------
\* In every state, also after processes stopped halfway, a request that was
\* recorded is answered from any session with the outcome saved last for the
\* same provider, operation, arguments and scope, errors included, and no
\* other request is answered at all.
ReplayFaithful ==
    \A r \in Request, s \in Session :
        LET entry == Load(r, s)
        IN IF r \in DOMAIN saved THEN entry # Nil /\ entry.request = r /\ entry.outcome = saved[r]
           ELSE entry = Nil

\* A call a recorder answered without an error can be replayed, and as long as
\* no two recorders registered their providers at the same time, a replay
\* opened now knows the provider of everything recorded.
RecordingsReplayable ==
    /\ \A p \in Proc :
          proc[p].pc = "answered" /\ proc[p].mode = "record" /\ ~proc[p].error =>
              proc[p].request \in DOMAIN saved
    /\ ~overlapped => \A r \in DOMAIN saved : r.provider \in KnownAtOpen("replay")
=============================================================================

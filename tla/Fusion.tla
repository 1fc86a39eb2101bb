------------------------------- MODULE Fusion -------------------------------
(***************************************************************************)
(* Rank fusion (internal/fusion/fusion.go): the hits of several providers  *)
(* become one object per canonical id, scored by weighted reciprocal rank, *)
(* sorted, and cut to a limit under per-source quotas.                     *)
(*                                                                         *)
(* Scores are in billionths, weights in percent.  A time is an age in      *)
(* days, negative in the future; kinds and ids are numbers; a text field   *)
(* is its length and how it matches the query.  The clock is read for each *)
(* object as it is scored, so a recent one loses a little by its turn.     *)
(***************************************************************************)
EXTENDS Integers, SequencesExt, FiniteSetsExt

CONSTANTS
    Source,
    KindOf,     \* [Source -> kind] kindFromSource
    Weights,    \* [Source -> Nat], 0 for none configured
    Quotas,     \* [Source -> Int]
    K0,         \* 60
    Inputs,     \* sequences of hits, in the order the searches delivered them
    Limits,     \* requested limits
    Clock,      \* what an object may lose to the clock
    Blank,      \* no native id, url or kind
    Unknown     \* no timestamp

\* What a provider may report: ranks of any sign, with or without a time.
IsHit(h) ==
    /\ h.source \in Source /\ h.rank \in Int /\ h.time \in Int \cup {Unknown}
    /\ {h.kind, h.native, h.url, h.fingerprint} \subseteq Int
    /\ IsFiniteSet(DOMAIN h.discovered)
    /\ \A p \in DOMAIN h.discovered : p[2] \in Source /\ h.discovered[p] \in Int

ASSUME FusionAssumption ==
    /\ KindOf \in [Source -> Int]
    /\ Weights \in [Source -> Nat] /\ Quotas \in [Source -> Int]
    /\ K0 \in Nat \ {0} /\ Limits \subseteq Int /\ Clock \subseteq 0 .. 999
    /\ \A s \in Inputs : /\ Len(s) \in Nat /\ DOMAIN s = 1 .. Len(s)
                         /\ \A i \in DOMAIN s : IsHit(s[i])

VARIABLES
    all, limit, useQuota,   \* arguments
    stage, next,               \* next hit to merge
    merged,                 \* [canonical id -> object]
    late,                   \* [canonical id -> Clock] since the scoring began
    items,                  \* objects in the order of the map, then ranked
    selected

fuseVars == <<all, limit, useQuota, stage, next, merged, late, items, selected>>

\* Canonicalize: the kind of the source unless given, and the native id, else
\* the last part of the url, else a fingerprint of the text.
CanonicalID(h) ==
    <<IF h.kind = Blank THEN KindOf[h.source] ELSE h.kind,
      IF h.native # Blank THEN h.native ELSE IF h.url # Blank THEN h.url ELSE h.fingerprint>>

\* Who found it: a hit of a search names its provider and its rank, an object
\* fused before keeps its discoveries.
Sightings(h) ==
    IF DOMAIN h.discovered # {} THEN h.discovered
    ELSE [p \in {<<h.provider, h.source>>} |-> IF h.rank <= 0 THEN 1 ELSE h.rank]

Canonicalize(h) ==
    [id |-> CanonicalID(h), source |-> h.source, title |-> h.title, snippet |-> h.snippet,
     time |-> h.time, hints |-> h.hints,
     discovered |-> Sightings(h)]

Longer(x, y) == IF y.len > x.len THEN y ELSE x
Newer(x, y) == IF x = Unknown \/ (y # Unknown /\ y < x) THEN y ELSE x

mergeHints(x, y) == x \cup y

\* Mutant: a later sighting by the same provider replaces the earlier rank.
LastDiscovery(x, y) ==
    [p \in DOMAIN x \cup DOMAIN y |-> IF p \in DOMAIN y THEN y[p] ELSE x[p]]

\* The best rank each provider gave.
mergeDiscoveries(x, y) ==
    [p \in DOMAIN x \cup DOMAIN y |->
        IF p \notin DOMAIN y \/ (p \in DOMAIN x /\ x[p] <= y[p]) THEN x[p] ELSE y[p]]

\* Merge: the first sighting, completed by what the second knows better.
Merge(x, y) ==
    [x EXCEPT !.title = Longer(@, y.title), !.snippet = Longer(@, y.snippet),
              !.time = Newer(@, y.time), !.hints = mergeHints(@, y.hints),
              !.discovered = mergeDiscoveries(@, y.discovered)]

---------------------------------------------------------------------------
Recent(c) == c.time # Unknown /\ c.time \in 0 .. 29

\* Weighted reciprocal rank, plus what text, agreement and recency add, in
\* millionths.
BaseScore(c) ==
    LET Share(p) == ((IF Weights[p[2]] = 0 THEN 100 ELSE Weights[p[2]]) * 10000)
                        \div (K0 + Max({1, c.discovered[p]}))
        agreed == 4000 * (Cardinality(DOMAIN c.discovered) - 1)
    IN MapThenSumSet(Share, DOMAIN c.discovered)
       + (CASE c.title.match = "equal" -> 50000 [] c.title.match = "contains" -> 25000
            [] OTHER -> 0)
       + (IF c.snippet.match = "none" THEN 0 ELSE 8000)
       + (IF agreed < 15000 THEN agreed ELSE 15000)
       + (IF Recent(c) THEN 200 * (30 - c.time) ELSE 0)

\* time.Since is asked for each object on its turn.
Score(c) == 1000 * BaseScore(c) - (IF Recent(c) THEN late[c.id] ELSE 0)

\* Mutant: equal scores are left in the order they come.
LessByScore(x, y) == Score(x) > Score(y)

\* The newer of two known times, then the canonical id.
Before(x, y) ==
    IF x.time # Unknown /\ y.time # Unknown /\ x.time # y.time THEN x.time < y.time
    ELSE x.id[1] < y.id[1] \/ (x.id[1] = y.id[1] /\ x.id[2] < y.id[2])

\* The order of sort.SliceStable.
Less(x, y) == IF Score(x) # Score(y) THEN Score(x) > Score(y) ELSE Before(x, y)

ByRank(objects) == {p \in objects \X objects : Less(p[1], p[2])}
ByScore(objects) == {p \in objects \X objects : Score(p[1]) > Score(p[2])}

\* An element moves left while it is less than its neighbour.
Insert(seq, x, less) ==
    LET stays == {i \in DOMAIN seq : <<x, seq[i]>> \notin less}
        at == IF stays = {} THEN 0 ELSE Max(stays)
    IN SubSeq(seq, 1, at) \o <<x>> \o SubSeq(seq, at + 1, Len(seq))

\* sort.SliceStable, by insertion.
SliceStable(seq, less) ==
    LET upTo[i \in 0 .. Len(seq)] ==
          IF i = 0 THEN <<>> ELSE Insert(upTo[i - 1], seq[i], less)
    IN upTo[Len(seq)]

\* The limit in force: everything when none is asked.
Limit == IF limit <= 0 \/ limit > Len(items) THEN Len(items) ELSE limit
Quota(s) == IF Quotas[s] <= 0 THEN Limit ELSE Quotas[s]

\* First pass: an object is taken while the quota of its source and the limit
\* last, else deferred.
Take(pass, c) ==
    IF /\ Cardinality({i \in DOMAIN pass.taken : pass.taken[i].source = c.source})
            < Quota(c.source)
       /\ Len(pass.taken) < Limit
    THEN [taken |-> Append(pass.taken, c), deferred |-> pass.deferred]
    ELSE [taken |-> pass.taken, deferred |-> Append(pass.deferred, c)]

FirstPass ==
    LET upTo[i \in 0 .. Len(items)] ==
          IF i = 0 THEN [taken |-> <<>>, deferred |-> <<>>] ELSE Take(upTo[i - 1], items[i])
    IN upTo[Len(items)]

\* Mutant: what a quota deferred is dropped.
SelectByQuota == FirstPass.taken

\* Second pass: the deferred fill what is left.  Sorted again by score.
Select ==
    LET pass == FirstPass
        chosen == pass.taken \o SubSeq(pass.deferred, 1, Limit - Len(pass.taken))
    IN SliceStable(chosen, ByScore(ToSet(chosen)))

---------------------------------------------------------------------------
FuseInit ==
    /\ all \in Inputs /\ limit \in Limits /\ useQuota \in BOOLEAN
    /\ stage = "merge" /\ next = 1
    /\ merged = [id \in {} |-> {}] /\ late = [id \in {} |-> 0]
    /\ items = <<>> /\ selected = <<>>

\* The next hit joins the object it belongs to.
MergeHit ==
    /\ stage = "merge" /\ next <= Len(all)
    /\ LET c == Canonicalize(all[next])
       IN merged' = [id \in DOMAIN merged \cup {c.id} |->
                        IF id # c.id THEN merged[id]
                        ELSE IF id \in DOMAIN merged THEN Merge(merged[id], c) ELSE c]
    /\ next' = next + 1
    /\ UNCHANGED <<all, limit, useQuota, stage, late, items, selected>>

Objects == {merged[id] : id \in DOMAIN merged}

\* The objects are ranged over, and scored, in the order of a Go map.
ScoreObjects ==
    /\ stage = "merge" /\ next > Len(all)
    /\ \E order \in SetToSeqs(DOMAIN merged) :
          /\ late' \in [DOMAIN merged -> Clock]
          /\ \A i, j \in DOMAIN order : i < j => late'[order[i]] <= late'[order[j]]
          /\ items' = [i \in DOMAIN order |-> merged[order[i]]]
    /\ stage' = "rank"
    /\ UNCHANGED <<all, limit, useQuota, next, merged, selected>>

Rank ==
    /\ stage = "rank"
    /\ items' = SliceStable(items, ByRank(Objects))
    /\ stage' = "select"
    /\ UNCHANGED <<all, limit, useQuota, next, merged, late, selected>>

Cut ==
    /\ stage = "select"
    /\ selected' = IF useQuota THEN Select ELSE SubSeq(items, 1, Limit)
    /\ stage' = "done"
    /\ UNCHANGED <<all, limit, useQuota, next, merged, late, items>>

FuseNext == MergeHit \/ ScoreObjects \/ Rank \/ Cut

FuseSpec == FuseInit /\ [][FuseNext]_fuseVars

---------------------------------------------------------------------------
Hits(id) == {i \in DOMAIN all : CanonicalID(all[i]) = id}

\* However the searches interleave their pages, an object ends up once, with
\* the best rank each provider gave it, every relation hint and its newest
\* time: those do not depend on the order of arrival.  (Its source, and of two
\* equally long texts the one it shows, are those of the first sighting.)
MergeExact ==
    stage # "merge" =>
        /\ DOMAIN merged = {CanonicalID(all[i]) : i \in DOMAIN all}
        /\ \A id \in DOMAIN merged :
              LET hits == Hits(id)
                  c == merged[id]
              IN /\ DOMAIN c.discovered = UNION {DOMAIN Sightings(all[i]) : i \in hits}
                 /\ \A p \in DOMAIN c.discovered :
                       c.discovered[p] = Min({Sightings(all[i])[p] :
                           i \in {j \in hits : p \in DOMAIN Sightings(all[j])}})
                 /\ c.hints = UNION {all[i].hints : i \in hits}
                 /\ \A i \in hits : all[i].time # Unknown => c.time # Unknown /\ c.time <= all[i].time

TimesComparable ==
    \/ \A id \in DOMAIN merged : merged[id].time = Unknown
    \/ \A id \in DOMAIN merged : merged[id].time # Unknown

\* Objects that weigh the same are old, or undated: the clock adds nothing.
ClockFree ==
    \A x, y \in Objects : x # y /\ BaseScore(x) = BaseScore(y) => ~Recent(x) /\ ~Recent(y)

\* The clock and the order in which Go ranges over the map only decide between
\* objects that weigh the same.  Given the scores, the map order decides nothing
\* when the times of the objects can be compared; and when no recent objects
\* weigh the same, time and canonical id alone decide between equals.
RankingDetermined ==
    stage \in {"select", "done"} =>
        /\ \A i, j \in DOMAIN items : i < j => BaseScore(items[i]) >= BaseScore(items[j])
        /\ TimesComparable =>
              LET less == ByRank(Objects)
              IN \A order \in SetToSeqs(DOMAIN merged) :
                    SliceStable([i \in DOMAIN order |-> merged[order[i]]], less) = items
        /\ TimesComparable /\ ClockFree =>
              \A i, j \in DOMAIN items :
                  i < j /\ BaseScore(items[i]) = BaseScore(items[j]) => Before(items[i], items[j])

Chosen(s) == {i \in DOMAIN selected : selected[i].source = s}

\* The cut returns as many objects as asked for, each once, in the order of
\* their scores; a better object is passed over only for the quota of its
\* source, and a source goes beyond its quota only when no other could fill
\* the place.
SelectionFair ==
    stage = "done" =>
        /\ Len(selected) = Limit /\ IsInjective(selected)
        /\ \A i, j \in DOMAIN selected : i < j => Score(selected[i]) >= Score(selected[j])
        /\ \A x \in ToSet(items) \ ToSet(selected) :
              /\ \A i \in DOMAIN selected :
                    Score(selected[i]) < Score(x) =>
                        useQuota /\ Cardinality(Chosen(x.source)) >= Quota(x.source)
              /\ \A s \in Source \ {x.source} :
                    useQuota /\ Cardinality(Chosen(s)) > Quota(s) =>
                        Cardinality(Chosen(x.source)) >= Quota(x.source)
=============================================================================

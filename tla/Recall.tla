------------------------------- MODULE Recall -------------------------------
(***************************************************************************)
(* One recall over an unchanging snapshot of a namespace (SnapshotRead says   *)
(* why it is one): the text leg, the vector legs over heads and tail windows  *)
(* with their widening, fusion, the diversity stage, the timeline, and what   *)
(* of the answer crosses the surface that asked.                              *)
(*                                                                         *)
(* A memory of len tokens holds what the query asks for at token at, or      *)
(* nowhere (0).  A vector computed from that token is at distance near,       *)
(* every other at Far.  Key is the content hash, the number of a memory its   *)
(* id; Time is both clocks.                                                   *)
(***************************************************************************)
EXTENDS TailWindows, RecallBudget

CONSTANTS Corpora,       \* snapshots: [Memories -> [kind, len, chars, at, near, drift, text]]
          Requests,      \* [strategy, vectors, residue, asof, rerank, k, surface, cap]
          Memories, Key, Time, Topic, HitRow, EventRow, Line,
          Other,         \* what the other namespace of a fan-out answers
          Far,
          Candidates, VecMax, SpanMax, Growth, RrfK, RerankPool, Lambda, TimelineLimit,
          Header, DropLine

ASSUME MemoriesAreNumbered ==
    /\ Memories \subseteq Nat /\ IsFiniteSet(Memories)
    /\ Key \in [Memories -> Nat] /\ Time \in [Memories -> Nat]
ASSUME WidthsPositive == {Candidates, VecMax, SpanMax, Growth, TimelineLimit} \subseteq Nat \ {0}
ASSUME RequestsTyped ==
    \A a \in Requests : /\ a.strategy \in {"recall", "timeline", "union", "events"}
                        /\ a.vectors \in {"off", "native", "persisted"}
                        /\ a.k \in Nat \ {0}

\* A blank memory gets no vector, and no vector is farther than Far.
ASSUME CorporaTyped ==
    /\ Far \in Nat
    /\ \A c \in Corpora, m \in Memories : c[m].kind # "pending" =>
          /\ c[m].len \in Nat \ {0} /\ c[m].chars \in Nat /\ c[m].drift \in 0 .. Drift
          /\ c[m].near \in 0 .. Far

VARIABLES corpus, ask, run

RecallVars == <<corpus, ask, run>>

Idle == [phase |-> "idle", leg |-> "head", width |-> 0, seen |-> 0, head |-> {}, span |-> {},
         vec |-> <<>>, fts |-> <<>>, page |-> 0, merged |-> {}, timeline |-> <<>>, hits |-> <<>>,
         out |-> <<>>]

RecallInit == corpus \in Corpora /\ ask \in Requests /\ run = Idle

Top(list, n) == SubSeq(list, 1, Min({n, Len(list)}))

\* What a memory is sorted by: f, then g, then its id.
SortKeys(ms, f, g) == {<<f[m], g[m], m>> : m \in ms}
Before(s, t) ==
    \/ s[1] < t[1]
    \/ s[1] = t[1] /\ (s[2] < t[2] \/ (s[2] = t[2] /\ s[3] < t[3]))

\* At each place the memory whose key has that many before it.
Sorted(keys) ==
    [i \in 1 .. Cardinality(keys) |->
        (CHOOSE s \in keys : Cardinality({t \in keys : Before(t, s)}) = i - 1)[3]]

\* Ties are settled by the content hash.
Ranking(ms, f) == Sorted(SortKeys(ms, f, Key))

(* The rows a request may see.                                             *)

Eligible(m) == /\ corpus[m].kind # "superseded" \/ ask.asof
               /\ corpus[m].kind # "residue" \/ ask.residue

(* Vectors.  A row of an index is <<memory, vector>>; index rows of hidden  *)
(* memories take places too.                                               *)

Embedded(m) == corpus[m].kind # "pending"
Index(leg) == {<<m, i>> : m \in {x \in Memories : Embedded(x)},
                          i \in IF leg = "head" THEN {0} ELSE 1 .. MaxSpans - 1}
HasRow(r) == r[2] \in Vectors(corpus[r[1]])
Rows(leg) == {r \in Index(leg) : HasRow(r)}

Dist(r) == LET c == corpus[r[1]] IN IF c.at \in Seen(c, r[2]) THEN c.near ELSE Far

\* vec0: the n nearest rows, in no order among rows at one distance.
Nearest(rows, n) ==
    LET inside == {r \in rows : Cardinality({q \in rows : Dist(q) <= Dist(r)}) <= n}
        edge == {r \in rows \ inside : Cardinality({q \in rows : Dist(q) < Dist(r)}) < n}
    IN {inside \cup s : s \in kSubset(Min({n, Cardinality(rows)}) - Cardinality(inside), edge)}

Want(leg) == IF leg = "head" THEN Candidates
             ELSE Min({Max({Candidates, Candidates * MaxSpans}), SpanMax})
Ceiling(leg) == IF leg = "head" THEN VecMax ELSE Max({SpanMax, VecMax})

\* Faulty variant of Enough: rows count, not the memories they belong to.
EnoughRows(rows) == Cardinality(rows) >= Candidates

Enough(rows) == Cardinality({r[1] : r \in rows}) >= Candidates

Visible(rows) == {r \in rows : Eligible(r[1])}

Settled(rows) == IF run.leg = "head" THEN [run EXCEPT !.head = rows, !.leg = "span", !.phase = "near"]
                 ELSE [run EXCEPT !.span = rows, !.phase = "merge"]

Search ==
    /\ run.phase = "near"
    /\ \E got \in Nearest(Rows(run.leg), Want(run.leg)) :
        run' = IF Enough(Visible(got)) \/ Want(run.leg) >= Ceiling(run.leg) THEN Settled(Visible(got))
               ELSE [run EXCEPT !.phase = "widen", !.width = Want(run.leg),
                                !.seen = Cardinality(Visible(got))]
    /\ UNCHANGED <<corpus, ask>>

\* How wide the next request is: what the density of visible rows implies, doubled.
Wider ==
    LET want == Want(run.leg) * run.width
        implied == 2 * ((want + run.seen - 1) \div run.seen)
    IN Min({Ceiling(run.leg),
            IF run.seen = 0 THEN run.width * Growth ELSE Max({run.width * 2, implied})})

\* Faulty variant of Stop: a pass that found something is the last.
StopOnAny(got, width) == Visible(got) # {} \/ Cardinality(got) < width \/ width = Ceiling(run.leg)

\* Enough, or the index is exhausted, or the ceiling is reached.
Stop(got, width) == Enough(Visible(got)) \/ Cardinality(got) < width \/ width = Ceiling(run.leg)

Widen ==
    /\ run.phase = "widen"
    /\ \E got \in Nearest(Rows(run.leg), Wider) :
        run' = IF Stop(got, Wider) THEN Settled(Visible(got))
               ELSE [run EXCEPT !.width = Wider, !.seen = Cardinality(Visible(got))]
    /\ UNCHANGED <<corpus, ask>>

Holders(rows) == {r[1] : r \in rows}
Best(rows) == [m \in Holders(rows) |-> Min({Dist(r) : r \in {q \in rows : q[1] = m}})]

\* Of the span leg only the nearest memories, as wide as the head leg.
BestSpans ==
    LET best == Best(run.span)
        kept == ToSet(Top(Ranking(DOMAIN best, best), Candidates))
    IN {r \in run.span : r[1] \in kept}

Merged == run.head \cup BestSpans

\* Faulty variant of Origin: any window the memory was found by.
OriginOfSpan(m) == Max({r[2] : r \in {q \in Merged : q[1] = m}})

\* The window a memory's distance is from: its head, or the first of the nearest spans.
Origin(m) == Min({r[2] : r \in {q \in Merged : q[1] = m /\ Dist(q) = Best(Merged)[m]}})

NearestHolders(rows) == Top(Ranking(Holders(rows), Best(rows)), Candidates)
VecHits(near, window) == [i \in DOMAIN near |-> <<near[i], window[near[i]]>>]

Merge ==
    /\ run.phase = "merge"
    /\ run' = [run EXCEPT !.phase = "fuse",
                          !.vec = VecHits(NearestHolders(Merged), [m \in Holders(Merged) |-> Origin(m)])]
    /\ UNCHANGED <<corpus, ask>>

\* Faulty variant of Persisted: heads only.
PersistedHeads == Rows("head")

\* memories.embedding and memory_spans.embedding.
Persisted == Rows("head") \cup Rows("span")

\* Without the extension every persisted vector of a visible memory is compared,
\* and no window is named.
Scan ==
    /\ run.phase = "scan"
    /\ run' = [run EXCEPT !.phase = "fuse",
                          !.vec = VecHits(NearestHolders(Visible(Persisted)), [m \in Memories |-> 0])]
    /\ UNCHANGED <<corpus, ask>>

(* Text, fusion, diversity.                                                *)

Match ==
    /\ run.phase = "text"
    /\ LET hit == {m \in Memories : corpus[m].text > 0 /\ Eligible(m)}
           bm25 == [m \in Memories |-> corpus[m].text]
       IN run' = [run EXCEPT !.fts = Top(Ranking(hit, bm25), Candidates),
                             !.phase = CASE ask.vectors = "off" -> "fuse"
                                         [] ask.vectors = "native" -> "near"
                                         [] ask.vectors = "persisted" -> "scan"]
    /\ UNCHANGED <<corpus, ask>>

\* 1 / (RRF_K + rank), times what makes all of them whole numbers.
Weight(rank) == FoldFunction(LAMBDA x, y : x * y, 1,
                             [r \in (1 .. Candidates) \ {rank} |-> RrfK + r])
RankIn(list, m) == {Weight(i) : i \in {j \in DOMAIN list : list[j] = m}}
FoundNear == [i \in DOMAIN run.vec |-> run.vec[i][1]]
Fused(m) == FoldSet(+, 0, RankIn(FoundNear, m)) + FoldSet(+, 0, RankIn(run.fts, m))
Loss == [m \in Memories |-> -Fused(m)]

Similar(m, n) == IF Topic[m] = Topic[n] THEN 1 ELSE 0

\* mmr_rerank, with Lambda in tenths: relevance against likeness to what is chosen.
Diverse(pool, k) ==
    LET scores == {Fused(m) : m \in ToSet(pool)}
        spread == Max(scores) - Min(scores)
        relevance(m) == IF spread = 0 THEN 1 ELSE Fused(m) - Min(scores)
        cost(chosen) == [m \in ToSet(pool) |->
            (10 - Lambda) * Max({0} \cup {Similar(m, n) : n \in ToSet(chosen)}) * Max({1, spread})
            - Lambda * relevance(m)]
        pick[n \in 0 .. k] ==
            IF n = 0 THEN <<>>
            ELSE LET left == ToSet(pool) \ ToSet(pick[n - 1]) IN
                 IF left = {} THEN pick[n - 1]
                 ELSE Append(pick[n - 1], Ranking(left, cost(pick[n - 1]))[1])
    IN IF pool = <<>> THEN <<>> ELSE pick[k]

Pool == IF ask.rerank THEN Max({ask.k, RerankPool}) ELSE ask.k

Recalled ==
    LET fused == Top(Ranking(ToSet(FoundNear) \cup ToSet(run.fts), Loss), Pool)
    IN IF ask.rerank THEN Diverse(fused, ask.k) ELSE fused

\* Union: the ranked first, then what only the timeline found.
Fuse ==
    /\ run.phase = "fuse"
    /\ run' = [run EXCEPT !.phase = "answer",
                          !.hits = Top(Recalled \o SelectSeq(run.timeline,
                                             LAMBDA m : m \notin ToSet(Recalled)), ask.k)]
    /\ UNCHANGED <<corpus, ask>>

(* Timeline: pages of events, each with its current memory, if it has one. *)

Age == [m \in Memories |-> -Time[m]]
Events == Sorted(SortKeys(Memories, Age, [m \in Memories |-> m]))
Asked == IF ask.strategy = "union" THEN TimelineLimit ELSE ask.k
Newest(ms) == Top(Ranking(ms, Age), Asked)

\* Faulty variant of Full: one page is all.
FullAfterOne(merged, rows) == TRUE

Full(merged, rows) == Cardinality(merged) >= Asked \/ Len(rows) < Asked

Page ==
    /\ run.phase = "page"
    /\ LET rows == SubSeq(Events, run.page + 1, Min({run.page + Asked, Len(Events)}))
           merged == run.merged \cup {m \in ToSet(rows) : corpus[m].kind # "superseded"}
       IN run' = IF ~Full(merged, rows)
                 THEN [run EXCEPT !.merged = merged, !.page = @ + Len(rows)]
                 ELSE [run EXCEPT !.merged = {}, !.page = 0, !.timeline = Newest(merged),
                                  !.hits = IF ask.strategy = "union" THEN <<>> ELSE Newest(merged),
                                  !.phase = IF ask.strategy = "union" THEN "text" ELSE "answer"]
    /\ UNCHANGED <<corpus, ask>>

(* Entry and surfaces.                                                     *)

Ask ==
    /\ run.phase = "idle"
    /\ run' = CASE ask.strategy = "recall" -> [run EXCEPT !.phase = "text"]
                [] ask.strategy \in {"timeline", "union"} -> [run EXCEPT !.phase = "page"]
                [] ask.strategy = "events" -> [run EXCEPT !.phase = "answer",
                                                          !.hits = Top(Events, ask.k)]
    /\ UNCHANGED <<corpus, ask>>

\* The rows a surface hands to the budget.
Given ==
    LET own == [i \in DOMAIN run.hits |->
                  IF ask.strategy = "events" THEN EventRow[run.hits[i]] ELSE HitRow[run.hits[i]]]
    IN IF ask.surface = "fanout" THEN Interleaved(own, Other) ELSE own

\* A hook's block never shows raw tool I/O.
Trusted == SelectSeq(run.hits, LAMBDA m : corpus[m].kind # "residue")
Block == LinesKept([i \in DOMAIN Trusted |-> Line[Trusted[i]]], Header, DropLine, ask.cap)

Answer ==
    /\ run.phase = "answer"
    /\ run' = [run EXCEPT !.phase = "done",
                          !.out = IF ask.surface = "block" THEN Top(Trusted, Block)
                                  ELSE Budgeted(Given, ask.cap)]
    /\ UNCHANGED <<corpus, ask>>

AskAgain == run.phase = "done" /\ run' = Idle /\ ask' \in Requests /\ UNCHANGED corpus

RecallNext == Ask \/ Match \/ Search \/ Widen \/ Merge \/ Scan \/ Fuse \/ Page \/ Answer \/ AskAgain

RecallSpec == RecallInit /\ [][RecallNext]_RecallVars

(* Properties.                                                             *)

Answered == run.phase = "done"
Wanted == {m \in Memories : Embedded(m) /\ Eligible(m)}
Truth(m) == LET c == corpus[m] IN IF c.at \in Findable(c) THEN c.near ELSE Far
Reached == \A leg \in {"head", "span"} : Cardinality(Rows(leg)) <= Ceiling(leg)

\* A search by meaning is complete: whichever token of a long memory holds the
\* answer, however many superseded or raw-tool rows lie nearer, and however many
\* windows of one memory crowd the index, the memories returned are the nearest
\* a request may see and as many as were to be had, as long as the index is no
\* larger than the widest request (_windows, _fit_last_span, _knn_eligible,
\* _span_hits, _vec_hits).  Where no tokenizer says where the tokens are, it is
\* complete for the tokens that some vector sees.
NearestAreFound ==
    Answered /\ ask.strategy \in {"recall", "union"} /\ ask.vectors # "off" =>
        /\ ToSet(FoundNear) \subseteq Wanted
        /\ Reached \/ ask.vectors = "persisted" =>
             /\ Len(FoundNear) = Min({Candidates, Cardinality(Wanted)})
             /\ \A m \in Wanted \ ToSet(FoundNear), n \in ToSet(FoundNear) : Truth(n) <= Truth(m)

\* The distance of a hit is that of the window it names, and no window of that
\* memory is nearer.  A tail window that is only as near as the head is named
\* where the head leg was full of other heads that near (span_origins).
WindowIsNamed ==
    Answered /\ ask.strategy \in {"recall", "union"} /\ ask.vectors = "native" /\ Reached =>
        \A i \in DOMAIN run.vec :
            LET m == run.vec[i][1]
                near == {n \in Wanted : Dist(<<n, 0>>) <= Truth(m)}
            IN /\ run.vec[i] \in Rows("head") \cup Rows("span")
               /\ Dist(run.vec[i]) = Truth(m)
               /\ run.vec[i][2] > 0 /\ m \in near => Cardinality(near) > Candidates

\* The timeline is the newest current memories, as many as were asked for,
\* however many superseded events are newer (run_timeline).
Current == {m \in Memories : corpus[m].kind # "superseded"}
TimelineIsNewest ==
    Answered /\ ask.strategy \in {"timeline", "union"} =>
        LET shown == IF ask.strategy = "union" THEN run.timeline ELSE run.hits IN
        /\ Len(shown) = Min({Asked, Cardinality(Current)})
        /\ ToSet(shown) \subseteq Current
        /\ \A m \in Current \ ToSet(shown), n \in ToSet(shown) : Time[m] <= Time[n]

\* The answer has k hits if there are so many: no memory twice, none that no leg
\* found, and the best of all first, diversity or not (recall, mmr_rerank,
\* run_union).
HitsFillTheAnswer ==
    Answered /\ ask.strategy \in {"recall", "union"} =>
        LET all == ToSet(FoundNear) \cup ToSet(run.fts) \cup ToSet(run.timeline) IN
        /\ IsInjective(run.hits)
        /\ ToSet(run.hits) \subseteq all
        /\ Len(run.hits) = Min({ask.k, Cardinality(all)})
        /\ run.hits # <<>> => \A m \in all : Loss[run.hits[1]] <= Loss[m]

\* What crosses the surface is at most the cap; it is a prefix of the ranked
\* list, whole but for snippets, or its first row alone, marked, whose later
\* fields are whole unless the earlier ones are empty; nothing is left out that
\* would have fitted; and of two namespaces none loses a rank the other keeps
\* a worse one of (apply_recall_budget, _truncate_row_text, _rank_interleaved).
Bulk(row) == [row EXCEPT !.snippet = 0]
OwnRows(rows) == Cardinality({i \in DOMAIN rows : rows[i].id \in Memories})
PayloadIsWhole ==
    Answered /\ ask.surface # "block" =>
        LET out == run.out
            cut == \E i \in DOMAIN out : out[i].cut # {}
            account == Account(Given, out)
        IN /\ out # <<>> => Framed(out) <= ask.cap
           /\ account.returned + account.dropped = account.available
           /\ account.dropped > 0 => account.applied
           /\ IF cut THEN /\ Len(out) = 1 /\ Framed(<<Slim(Given)[1]>>) > ask.cap
                          /\ out[1].id = Given[1].id /\ out[1].base = Given[1].base
                          /\ \A f, g \in DOMAIN out[1].text :
                                f < g /\ out[1].text[g] # Given[1].text[g] => out[1].text[f] = 0
              ELSE /\ \A i \in DOMAIN out : Bulk(out[i]) = Bulk(Given[i])
                   /\ Len(out) < Len(Given) => Framed(Slim(SubSeq(Given, 1, Len(out) + 1))) > ask.cap
           /\ ask.surface = "fanout" =>
                LET own == OwnRows(out)
                    other == Len(out) - own
                IN /\ own < Len(run.hits) => other <= own + 1
                   /\ other < Len(Other) => own <= other + 1

\* A hook's block shows no raw tool I/O, and with the line that counts the
\* memories left out it fits the cap (format_recall_block).
BlockFits ==
    Answered /\ ask.surface = "block" =>
        LET shown == [i \in DOMAIN run.out |-> Line[run.out[i]]]
            rest == Len(Trusted) - Len(run.out)
        IN /\ IsPrefix(run.out, run.hits) \/ \E m \in ToSet(run.hits) : corpus[m].kind = "residue"
           /\ \A m \in ToSet(run.out) : corpus[m].kind # "residue"
           /\ run.out # <<>> =>
                Header + Total(shown) + Len(shown) + (IF rest > 0 THEN DropLine + 1 ELSE 0) <= ask.cap

\* Whatever cuts the windows, what is not marked as cut is in the vectors.  So
\* the comments on the fallback say; the code does not keep it.
FallbackLeavesNoGap == \A m \in Memories : Embedded(m) => LeavesNoGap(corpus[m])

\* Each way of searching finds what there is to find.
SearchesAreComplete == NearestAreFound /\ WindowIsNamed /\ TimelineIsNewest

\* What a caller is shown is what the search found, in full or with a mark.
AnswerIsTrue == HitsFillTheAnswer /\ PayloadIsWhole /\ BlockFits
=============================================================================

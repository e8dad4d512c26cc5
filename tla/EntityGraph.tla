---------------------------- MODULE EntityGraph ----------------------------
(***************************************************************************)
(* The entity graph beside the events of a namespace: extract_and_store     *)
(* inside observe's transaction, remove_event_evidence inside purge's, and  *)
(* rebuild_graph.  entities and relations are aggregates that the first two *)
(* keep up to date row by row; rebuild_graph computes them anew.            *)
(*                                                                         *)
(* What a text says, its entities and the triples between them, is given.   *)
(* An entity is its normalized name and type, by which the code looks it    *)
(* up; a triple is source, kind and destination, and each kind has one      *)
(* weight, so that a relation's weight is a count.  Ids of events grow as   *)
(* they are written, and so do the rowids of evidence of one time, in a     *)
(* rebuild too.  An entity's name, the spelling last written, is left out:  *)
(* neither a purge nor a cut takes it back, only a rebuild writes it anew.  *)
(***************************************************************************)
EXTENDS FiniteSets, Naturals, SequencesExt

EmptyGraph == [entity |-> {}, mention |-> {}, evidence |-> {}, relation |-> {}]

EvidenceOf(g, triple) == {r \in g.evidence : r.triple = triple}

\* ORDER BY observed_at DESC, rowid DESC LIMIT 1
Latest(rs) == CHOOSE r \in rs : \A q \in rs : q.at < r.at \/ (q.at = r.at /\ q.event <= r.event)

\* The row of a triple and its evidence.
RelationOf(triple, rs) ==
    [triple |-> triple, event |-> Latest(rs).event, from |-> Min({r.at : r \in rs}), weight |-> Cardinality(rs)]

\* _refresh_relation of some triples: one row for a triple that has evidence, none otherwise.
Refreshed(g, triples) ==
    [g EXCEPT !.relation =
        {r \in @ : r.triple \notin triples}
          \cup {RelationOf(t, EvidenceOf(g, t)) : t \in {t \in triples : EvidenceOf(g, t) # {}}}]

\* The span of an entity once it is seen at a time.
Seen(g, entity, at) ==
    LET times == (UNION {{x.first, x.last} : x \in {x \in g.entity : x.id = entity}}) \cup {at}
    IN  [id |-> entity, first |-> Min(times), last |-> Max(times)]

\* extract_and_store of an event: said is [entities, triples].
Extracted(g, event, said, at) ==
    Refreshed(
        [g EXCEPT !.entity = {x \in @ : x.id \notin said.entities}
                                \cup {Seen(g, x, at) : x \in said.entities},
                  !.mention = @ \cup {[event |-> event, entity |-> x, at |-> at] : x \in said.entities},
                  !.evidence = @ \cup {[event |-> event, triple |-> t, at |-> at] : t \in said.triples}],
        said.triples)

\* Faulty variant of Respanned: an entity keeps its span while it is mentioned.
KeptSpan(g, mentions, x) == IF \E m \in mentions : m.entity = x.id THEN {x} ELSE {}

\* What the mentions left to an entity make of its row.
Respanned(g, mentions, x) ==
    LET times == {m.at : m \in {m \in mentions : m.entity = x.id}}
    IN  IF times = {} THEN {} ELSE {[x EXCEPT !.first = Min(times), !.last = Max(times)]}

\* remove_event_evidence: only what the event had said is looked at again.
Forgotten(g, event) ==
    LET said == {m.entity : m \in {m \in g.mention : m.event = event}}
        mentions == {m \in g.mention : m.event # event}
        fresh == Refreshed([g EXCEPT !.evidence = {r \in @ : r.event # event}],
                              {r.triple : r \in {r \in g.evidence : r.event = event}})
    IN  [fresh EXCEPT !.mention = mentions,
                      !.entity = UNION {IF x.id \in said THEN Respanned(g, mentions, x) ELSE {x} : x \in @}]

\* The last of some events: ORDER BY event_time, ts, rowid.
LastOf(events) ==
    CHOOSE e \in events : \A f \in events : \/ f.when < e.when
                                            \/ f.when = e.when /\ f.at < e.at
                                            \/ f.when = e.when /\ f.at = e.at /\ f.id <= e.id

\* rebuild_graph over events [id, when, at] and what each said, one after another.
Rebuilt(events, said) ==
    LET graph[es \in SUBSET events] ==
            IF es = {} THEN EmptyGraph
            ELSE LET e == LastOf(es)
                 IN  Extracted(graph[es \ {e}], e.id, said[e.id], e.when)
    IN  graph[events]
=============================================================================

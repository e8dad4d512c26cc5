--------------------------- MODULE ExportSelection ---------------------------
(***************************************************************************)
(* build_namespace_export of one namespace at a temporal cut: which rows    *)
(* _select_export_records takes and how it projects them back, over a       *)
(* database written by observe, contradict, end_session, purge and          *)
(* rebuild_graph; and the closure _validate_record_references asks of a      *)
(* bundle before an import.                                                *)
(*                                                                         *)
(* Time is counted in clock readings.  A transaction reads the clock more   *)
(* than once, so the readings of one transaction differ, as microseconds    *)
(* do; a cut may lie between two of them.  An event and its one memory are  *)
(* one row here, with one stamp, as observe writes them; when is the        *)
(* event_time, the caller's or the reading before the stamp, for which the  *)
(* same number stands.  0 is "not ended", "not closed", "no session" and    *)
(* "no time given".  A caller may observe a memory that is closed already,  *)
(* or that will be: till is the valid_to it declared, before the clock or   *)
(* ahead of it (Far is ahead of all readings); to is the one stored.        *)
(***************************************************************************)
EXTENDS EntityGraph

CONSTANTS MaxClock,     \* clock readings
          MaxMem,       \* memories ever written
          MaxSess,      \* session rows ever written
          Said,         \* memory |-> [entities, triples] of its text
          Told,         \* memory |-> the event_time its caller gives, or 0
          Until         \* valid_tos that callers declare, 0 for none

ASSUME BoundsAssumption == {MaxClock, MaxMem, MaxSess} \subseteq Nat
ASSUME TextsAssumption ==
    \A n \in 1 .. MaxMem : \A t \in Said[n].triples : Range(t) \subseteq Said[n].entities
ASSUME TimesAssumption == Told \in [1 .. MaxMem -> Nat] /\ Until \subseteq Nat

VARIABLES db,           \* what the database holds
          clock,        \* the last reading
          past          \* history: the readings of the commits, forgotten by a purge

exportVars == <<db, clock, past>>

Far == MaxClock + 1
Memory(n) == [kind |-> "memory", id |-> n]
Tombstone(n) == [kind |-> "tombstone", id |-> n]
Nobody == [kind |-> "none", id |-> 0]

Row(d, n) == CHOOSE m \in d.mem : m.id = n
MemIds(b) == {m.id : m \in b.mem}
SessIds(b) == {s.id : s \in b.sess}
TombIds(b) == {t.id : t \in b.tomb}
Ends(c) == {c.target, c.repl} \ {Nobody}

-----------------------------------------------------------------------------
(* _select_export_records *)

Selected(rows, cut) == {r \in rows : r.at <= cut}

\* Faulty variant of FutureReplacements: the stamps are taken to be in order.
NoReplacements(d, cut) == {}

\* Replacements whose correction is of a later reading.
FutureReplacements(d, cut) == {c.repl : c \in {c \in d.corr : c.at > cut}}

KeptMemories(d, cut) == {m \in Selected(d.mem, cut) : Memory(m.id) \notin FutureReplacements(d, cut)}

\* Faulty variant of KeptCorrections: None is in no set of ids.
CorrectionsWithReplacement(d, cut) ==
    LET kept == {Memory(m.id) : m \in KeptMemories(d, cut)}
    IN  {c \in Selected(d.corr, cut) : c.repl \in kept /\ (c.target.kind = "memory" => c.target \in kept)}

\* A correction goes with the memories it names.
KeptCorrections(d, cut) ==
    LET kept == {Memory(m.id) : m \in KeptMemories(d, cut)}
    IN  {c \in Selected(d.corr, cut) : \A e \in Ends(c) : e.kind = "memory" => e \in kept}

\* Faulty variant of AtCut: what is set stays set.
AsStored(t, cut) == t

\* A session's end, a memory's valid_to: open again when set after the cut.
AtCut(t, cut) == IF t <= cut THEN t ELSE 0

\* Faulty variant of KeptTombstones: only of targets.
TombstonesOfTargets(d, cut) == {t \in d.tomb : \E c \in KeptCorrections(d, cut) : c.target = Tombstone(t.id)}

\* Tombstones have no cut of their own.
KeptTombstones(d, cut) == {t \in d.tomb : \E c \in KeptCorrections(d, cut) : Tombstone(t.id) \in Ends(c)}

\* Faulty variant of KeptObservations: the event is not asked for.
AllObservations(rows, d, cut) == Selected(rows, cut)

\* Mentions and evidence go with their event, unless its event_time is after the cut.
KeptObservations(rows, d, cut) ==
    LET kept == {m.id : m \in KeptMemories(d, cut)}
    IN  {r \in Selected(rows, cut) : r.event \in kept}

\* Faulty variant of Projected: the span is the one stored.
StoredSpan(x, times) == x

\* An entity's span over the observations that are kept.
Projected(x, times) == [x EXCEPT !.first = Min(times), !.last = Max(times)]

KeptEntities(g, mentions, evidence) ==
    LET Times(x) == {m.at : m \in {m \in mentions : m.entity = x}}
                      \cup {r.at : r \in {r \in evidence : x \in Range(r.triple)}}
    IN  {Projected(x, Times(x.id)) : x \in {x \in g.entity : Times(x.id) # {}}}

KeptSessions(d, cut) == {[s EXCEPT !.end = AtCut(@, cut)] : s \in Selected(d.sess, cut)}

Select(d, cut) ==
    LET mentions == KeptObservations(d.graph.mention, d, cut)
        evidence == KeptObservations(d.graph.evidence, d, cut) IN
    [sess |-> KeptSessions(d, cut),
     mem  |-> {[m EXCEPT !.to = AtCut(@, cut)] : m \in KeptMemories(d, cut)},
     corr |-> KeptCorrections(d, cut),
     tomb |-> KeptTombstones(d, cut),
     entity |-> KeptEntities(d.graph, mentions, evidence),
     mention |-> mentions, evidence |-> evidence]

\* Faulty variant of Clocks: the ends of sessions are forgotten.
ClocksOfStarts(d) == {r.at : r \in d.sess \cup d.mem \cup d.corr \cup d.tomb}

\* _default_temporal_cut: the latest of the write and audit clocks.
Clocks(d) ==
    {r.at : r \in d.sess \cup d.mem \cup d.corr \cup d.tomb \cup d.graph.mention \cup d.graph.evidence}
      \cup {s.end : s \in d.sess}

DefaultCut(d) == Max({0} \cup Clocks(d))

-----------------------------------------------------------------------------
(* _validate_record_references, the closure an importer asks for. *)

Succession(b) == {<<s.id, s.pred>> : s \in {s \in b.sess : s.pred # 0}}

Importable(b) ==
    /\ \A p \in Succession(b) : p[2] \in SessIds(b) /\ p[1] # p[2]
    /\ \A m \in b.mem : m.sess \in SessIds(b)
    /\ \A c \in b.corr :
          /\ c.sess # 0 => c.sess \in SessIds(b)
          /\ \A e \in Ends(c) : IF e.kind = "memory" THEN e.id \in MemIds(b) ELSE e.id \in TombIds(b)
    /\ \A r \in b.mention \cup b.evidence : r.event \in MemIds(b)
    /\ {m.entity : m \in b.mention} \cup UNION {Range(r.triple) : r \in b.evidence} \subseteq {x.id : x \in b.entity}
    \* _require_acyclic_succession
    /\ \A w \in SUBSET SessIds(b) : w # {} => \E s \in w : \A p \in Succession(b) : p[1] = s => p[2] \notin w

-----------------------------------------------------------------------------
(* The transactions that write what an export reads. *)

ExportInit ==
    /\ db = [sess |-> {}, mem |-> {}, corr |-> {}, tomb |-> {}, graph |-> EmptyGraph,
             cur |-> 0, mems |-> 0, sessions |-> 0]
    /\ clock = 0 /\ past = {}

Commit(d, readings) ==
    /\ clock + readings <= MaxClock
    /\ clock' = clock + readings
    /\ db' = d
    /\ past' = past \cup {clock'}

OpenSessions(d) == {s \in d.sess : s.end = 0}
SuccessorsOpen(d, s) == {x \in OpenSessions(d) : x.pred = s}

\* ensure_session of a session that is there, or 0 for the implicit one.
Joined(d, s) ==
    IF s = 0 THEN IF d.cur \in {x.id : x \in OpenSessions(d)} THEN d.cur ELSE 0
    ELSE IF s \in {x.id : x \in OpenSessions(d)} THEN s
    ELSE IF SuccessorsOpen(d, s) = {} THEN 0 ELSE Max({x.id : x \in SuccessorsOpen(d, s)})

\* The database with the session row there, its id, and the readings it took.
Ensured(d, s, t) ==
    IF Joined(d, s) # 0 THEN [db |-> d, id |-> Joined(d, s), readings |-> 0]
    ELSE LET n == d.sessions + 1
         IN  [db |-> [d EXCEPT !.sess = @ \cup {[id |-> n, at |-> t, end |-> 0, pred |-> s]},
                               !.sessions = n, !.cur = IF s = 0 THEN n ELSE @],
              id |-> n, readings |-> 1]

Written(d, s, t, when, till) ==
    LET n == d.mems + 1
    IN  [d EXCEPT !.mem = @ \cup {[id |-> n, sess |-> s, at |-> t, when |-> when,
                                   to |-> till, till |-> till]},
                  !.graph = Extracted(@, n, Said[n], when),
                  !.mems = n]

Sessions == {0} \cup SessIds(db)

ObserveMemory(s, till) ==
    LET e == Ensured(db, s, clock + 1)
        t == clock + e.readings + 1
        when == IF Told[db.mems + 1] = 0 THEN t ELSE Told[db.mems + 1]
    IN  /\ db.mems < MaxMem /\ e.db.sessions <= MaxSess
        /\ Commit(Written(e.db, e.id, t, when, till), e.readings + 1)

EndSession(s) ==
    LET ended == {x \in OpenSessions(db) : x.id = s \/ x.pred = s}
    IN  /\ ended # {}
        /\ Commit([db EXCEPT !.sess = (@ \ ended) \cup {[x EXCEPT !.end = clock + 1] : x \in ended},
                             !.cur = IF @ \in {x.id : x \in ended} THEN 0 ELSE @], 1)

\* Faulty variant of Current: a closed memory is corrected again.
Stored(d, n) == n \in MemIds(d)

Current(d, n) == n \in MemIds(d) /\ Row(d, n).to = 0

\* contradict reads the clock, then ensures the session, then observes with its
\* reading as the event_time; the wall clock may have been set back before the
\* last reading.
ContradictMemory(n, s, replaced, back) ==
    LET t == clock + 1
        e == Ensured(db, s, t + 1)
        d == IF replaced THEN Written(e.db, e.id, IF back THEN clock ELSE t + e.readings + 1, t, 0) ELSE e.db
        closed == [d EXCEPT !.mem = {IF m.id = n THEN [m EXCEPT !.to = t] ELSE m : m \in @}]
    IN  /\ Current(db, n) /\ (back => replaced)
        /\ e.db.sessions <= MaxSess /\ (replaced => db.mems < MaxMem)
        /\ Commit([closed EXCEPT !.corr =
                      @ \cup {[target |-> Memory(n), at |-> t, sess |-> e.id,
                               repl |-> IF replaced THEN Memory(d.mems) ELSE Nobody]}],
                  1 + e.readings + (IF replaced THEN 1 ELSE 0))

-----------------------------------------------------------------------------
(* _erase_memory_content, as far as an export shows it. *)

Touching(n) == {c \in db.corr : Memory(n) \in Ends(c)}
NeedsTombstone(n) == \E c \in Touching(n) : c.target = Memory(n) => c.repl # Nobody

Scrubbed(c, n) ==
    IF c \notin Touching(n) THEN c
    ELSE [c EXCEPT !.target = IF @ = Memory(n) THEN Tombstone(n) ELSE @,
                   !.repl = IF @ = Memory(n) THEN Tombstone(n) ELSE @,
                   !.sess = 0]

\* _prune_erased_only_lineage: a component that still names a memory stays whole.
Survive(rs) ==
    LET whole(w) == \A c \in w, x \in rs \ w : Ends(c) \cap Ends(x) = {}
        erased(w) == \A c \in w : \A e \in Ends(c) : e.kind = "tombstone"
    IN  {c \in rs : \A w \in SUBSET rs : c \in w => ~(whole(w) /\ erased(w))}

\* The sessions of an erased row or correction get new ids and keep their
\* windows; without a reference left they go.  Links follow.
RekeyedSessions(d, ss) ==
    LET used == {s \in ss : \E r \in d.mem \cup d.corr : r.sess = s}
        new(x) == IF x \in used THEN d.sessions + Cardinality({s \in used : s <= x})
                  ELSE IF x \in ss THEN 0 ELSE x
    IN  [d EXCEPT !.sess = {[x EXCEPT !.id = new(@), !.pred = new(@)] :
                              x \in {x \in @ : x.id \notin ss \ used}},
                  !.mem = {[m EXCEPT !.sess = new(@)] : m \in @},
                  !.corr = {[c EXCEPT !.sess = new(@)] : c \in @},
                  !.cur = new(@),
                  !.sessions = @ + Cardinality(used)]

Erased(n) ==
    LET rows == Survive({Scrubbed(c, n) : c \in {c \in db.corr : ~(c.target = Memory(n) /\ c.repl = Nobody)}})
        new == IF NeedsTombstone(n) THEN {[id |-> n, at |-> clock + 1]} ELSE {}
    IN  [db EXCEPT !.mem = {m \in @ : m.id # n},
                   !.corr = rows,
                   !.tomb = {t \in @ \cup new : \E c \in rows : Tombstone(t.id) \in Ends(c)},
                   !.graph = Forgotten(@, n)]

ErasedSessions(n) == ({Row(db, n).sess} \cup {c.sess : c \in Touching(n)}) \ {0}

PurgeMemory(n) ==
    /\ n \in MemIds(db) /\ clock < MaxClock
    /\ LET d == RekeyedSessions(Erased(n), ErasedSessions(n))
       IN  /\ d.sessions <= MaxSess
           /\ clock' = clock + 1
           /\ db' = d
           /\ past' = {clock'}

\* rebuild_graph, and the rebuild that opening an old namespace makes.
RebuiltGraph(d) == Rebuilt(d.mem, Said)

RebuildGraph ==
    /\ db' = [db EXCEPT !.graph = RebuiltGraph(db)]
    /\ UNCHANGED <<clock, past>>

ExportNext ==
    \/ RebuildGraph
    \/ \E s \in Sessions, till \in Until : ObserveMemory(s, till)
    \/ \E s \in SessIds(db) : EndSession(s)
    \/ \E n \in MemIds(db), s \in Sessions, replaced, back \in BOOLEAN : ContradictMemory(n, s, replaced, back)
    \/ \E n \in MemIds(db) : PurgeMemory(n)

ExportSpec == ExportInit /\ [][ExportNext]_exportVars

-----------------------------------------------------------------------------
(* Properties *)

Cuts == 0 .. clock

\* Ids are unique and no stamp is of the future.
ExportTypeOK ==
    /\ clock \in 0 .. MaxClock
    /\ \A r, q \in db.mem : r.id = q.id => r = q
    /\ \A r, q \in db.sess : r.id = q.id => r = q
    /\ \A c \in db.corr : Cardinality({k \in db.corr : k.target = c.target}) = 1
    /\ \A r \in db.sess \cup db.mem \cup db.corr \cup db.tomb : r.at \in 1 .. clock

\* Every export at a cut between two transactions is one an importer takes:
\* no row in it names a session, a memory or a tombstone that is not in it,
\* whatever was corrected, ended or purged since.
CommittedCutImports == \A c \in past : Importable(Select(db, c))

\* EXPORT_FORMAT: a cut cannot retain dangling lineage.
EveryCutImports == \A c \in Cuts : Importable(Select(db, c))

\* What an export at the cut of an earlier commit shows does not change: no
\* later observation, correction, session end or rebuild of the graph shows in
\* it.  A purge does, as it must.
CutIsHistory == [][past \subseteq past' => \A c \in past : Select(db', c) = Select(db, c)]_exportVars

\* No cut, not even one inside a correction's transaction, shows a replacement
\* without the correction that made it.
NoReplacementAlone ==
    \A cut \in Cuts : \A c \in db.corr :
        LET b == Select(db, cut)
        IN  c.repl.kind = "memory" /\ c.repl.id \in MemIds(b) => c \in b.corr

\* A bundle tells which of its memories are closed as its lineage does: those
\* it has a correction of, and those observed with a valid_to the cut has passed.
LineageTellsWhatIsCurrent ==
    \A cut \in past :
        LET b == Select(db, cut)
        IN  \A m \in b.mem :
               m.to # 0 <=> (\E c \in b.corr : c.target = Memory(m.id)) \/ m.till \in 1 .. cut

\* The default export holds every row as it is stored, except a valid_to that
\* was declared ahead of the cut.
BackupLosesNothing ==
    LET b == Select(db, DefaultCut(db))
    IN  /\ b.sess = db.sess /\ b.corr = db.corr /\ b.tomb = db.tomb
        /\ b.entity = db.graph.entity /\ b.mention = db.graph.mention
        /\ b.evidence = db.graph.evidence
        /\ b.mem = {[m EXCEPT !.to = IF @ > DefaultCut(db) THEN 0 ELSE @] : m \in db.mem}

\* The aggregates are those of the events that are left: entities, their spans,
\* relations and what they rest on are what a rebuild would make, after any
\* writes, backdated ones included, and purges; nothing only a purged memory
\* said is still there.
GraphFollowsEvents == db.graph = RebuiltGraph(db)

\* Shapes; a bundle at a committed cut imports; no replacement without its
\* correction at any cut.
BundlesAreWhole == ExportTypeOK /\ CommittedCutImports /\ NoReplacementAlone
=============================================================================

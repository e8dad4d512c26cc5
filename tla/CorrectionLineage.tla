-------------------------- MODULE CorrectionLineage --------------------------
(***************************************************************************)
(* The correction log of one namespace: Store.contradict and Store.purge   *)
(* over the tables memories, corrections and lineage_tombstones.           *)
(*                                                                         *)
(* A correction row links the memory it supersedes (target) to the memory  *)
(* that replaces it (repl, None for a retraction).  The code keeps a       *)
(* memory column and a tombstone column for each end and a CHECK that they *)
(* exclude each other; here an end is one member of Mem \cup Tomb.         *)
(*                                                                         *)
(* contradict looks its idempotency key up twice, once before it owns the  *)
(* write transaction and once inside it; the transaction itself is atomic  *)
(* (BEGIN IMMEDIATE), so it is one step.  Callers are processes that may   *)
(* crash, lose a reply and send any request again.                         *)
(***************************************************************************)
EXTENDS FiniteSets, Naturals

CONSTANTS Mem,      \* identifiers new_id() mints for memories
          Tomb,     \* identifiers new_id() mints for tombstones
          Key,      \* idempotency keys
          Text,     \* replacement texts (with the reason folded in)
          Client,   \* concurrent callers of contradict
          None      \* SQL NULL

ASSUME ConstantsDistinct ==
    /\ Mem \cap Tomb = {}
    /\ None \notin Mem \cup Tomb \cup Key \cup Text

VARIABLES live,         \* ids of the rows of memories
          closed,       \* those whose valid_to is set
          stamped,      \* those whose event carries the origin of the correction that made it
          corrections,  \* rows of corrections
          tombstones,   \* rows of lineage_tombstones
          pc, req, reply,  \* each caller: where it is, what it asked, what it was told
          erased,       \* history: ids that were purged
          effects       \* history: how often contradict committed over each memory

rows == <<live, closed, stamped, corrections, tombstones>>
callers == <<pc, req, reply>>
vars == <<live, closed, stamped, corrections, tombstones, pc, req, reply, erased, effects>>

-----------------------------------------------------------------------------
Node == Mem \cup Tomb

\* _correction_request_payload is injective in the target and the text.
Payload == [target : Mem, text : Text \cup {None}]

Request == [target : Mem, text : Text \cup {None}, key : Key]

PayloadOf(r) == [target |-> r.target, text |-> r.text]

\* response_json: what the caller was told and is told again on a replay.
Response == [superseded : Mem, repl : Mem \cup {None}]

Correction == [target : Node, repl : Node \cup {None}, key : Key \cup {None},
               payload : Payload \cup {None}, resp : Response \cup {None}]

Reply == [kind : {"ok"}, resp : Response]
           \cup [kind : {"key_reused", "not_found", "already_superseded"}, resp : {None}]

Init ==
    /\ live = {} /\ closed = {} /\ stamped = {}
    /\ corrections = {} /\ tombstones = {}
    /\ pc = [c \in Client |-> "idle"]
    /\ req = [c \in Client |-> None]
    /\ reply = [c \in Client |-> None]
    /\ erased = {}
    /\ effects = [m \in Mem |-> 0]

-----------------------------------------------------------------------------
\* Faulty variant: an id that was purged is given out again.
FreshAgain == Mem \ live

Fresh == Mem \ (live \cup erased)

\* A committed observe; one with valid_to given starts out closed.
Observe(m, bounded) ==
    /\ m \in Fresh
    /\ live' = live \cup {m}
    /\ closed' = IF bounded THEN closed \cup {m} ELSE closed
    /\ UNCHANGED <<stamped, corrections, tombstones, callers, erased, effects>>

-----------------------------------------------------------------------------
\* A caller sends a request, perhaps one that was sent before.
Call(c, r) ==
    /\ pc[c] = "idle"
    /\ r.target \in live \cup erased
    /\ pc' = [pc EXCEPT ![c] = "called"]
    /\ req' = [req EXCEPT ![c] = r]
    /\ UNCHANGED <<rows, reply, erased, effects>>

Answer(c, a) ==
    /\ pc' = [pc EXCEPT ![c] = "answered"]
    /\ reply' = [reply EXCEPT ![c] = a]
    /\ UNCHANGED req

Refused(kind) == [kind |-> kind, resp |-> None]

Recorded(key) == {k \in corrections : k.key = key}

\* _correction_replay for a key that is on record.
ReplayOf(r) ==
    LET k == CHOOSE k \in Recorded(r.key) : TRUE
    IN  IF k.payload = PayloadOf(r) THEN [kind |-> "ok", resp |-> k.resp]
                                    ELSE Refused("key_reused")

Replay(c) ==
    /\ Recorded(req[c].key) # {}
    /\ Answer(c, ReplayOf(req[c]))
    /\ UNCHANGED <<rows, erased, effects>>

\* The lookup contradict makes before it asks for the write lock.
PreCheck(c) ==
    /\ pc[c] = "called"
    /\ \/ Replay(c)
       \/ /\ Recorded(req[c].key) = {}
          /\ pc' = [pc EXCEPT ![c] = "checked"]
          /\ UNCHANGED <<rows, req, reply, erased, effects>>

\* Faulty variant: the key is not looked up again under the lock.
KeyNotRechecked(c) == FALSE

\* The same lookup under BEGIN IMMEDIATE.
KeyOnRecord(c) == Recorded(req[c].key) # {}

ReplayLocked(c) ==
    /\ pc[c] = "checked"
    /\ KeyOnRecord(c)
    /\ Replay(c)

RefuseMissing(c) ==
    /\ pc[c] = "checked"
    /\ ~KeyOnRecord(c)
    /\ req[c].target \notin live
    /\ Answer(c, Refused("not_found"))
    /\ UNCHANGED <<rows, erased, effects>>

\* Faulty variant: the UPDATE lacks its valid_to IS NULL.
EverCurrent(m) == TRUE

\* valid_to IS NULL, for the row contradict read and again in its UPDATE.
IsCurrent(m) == m \notin closed

RefuseSuperseded(c) ==
    /\ pc[c] = "checked"
    /\ ~KeyOnRecord(c)
    /\ req[c].target \in live
    /\ ~IsCurrent(req[c].target)
    /\ Answer(c, Refused("already_superseded"))
    /\ UNCHANGED <<rows, erased, effects>>

\* The row a request leaves behind when its replacement is the memory n.
NewCorrection(r, n) ==
    [target |-> r.target, repl |-> n, key |-> r.key, payload |-> PayloadOf(r),
     resp |-> [superseded |-> r.target, repl |-> n]]

\* The memory observe materialises for the replacement text, None when it is null.
Replacement(r) == IF r.text = None THEN {None} ELSE Fresh

Supersede(c) ==
    /\ pc[c] = "checked"
    /\ ~KeyOnRecord(c)
    /\ req[c].target \in live
    /\ IsCurrent(req[c].target)
    /\ \E n \in Replacement(req[c]) :
        LET k == NewCorrection(req[c], n) IN
        /\ live' = live \cup ({n} \ {None})
        /\ stamped' = stamped \cup ({n} \ {None})
        /\ corrections' = corrections \cup {k}
        /\ Answer(c, [kind |-> "ok", resp |-> k.resp])
    /\ closed' = closed \cup {req[c].target}
    /\ effects' = [effects EXCEPT ![req[c].target] = @ + 1]
    /\ UNCHANGED <<tombstones, erased>>

\* The caller takes its reply; or it crashes, raises, or its reply is lost.
Leave(c) ==
    /\ pc[c] # "idle"
    /\ pc' = [pc EXCEPT ![c] = "idle"]
    /\ req' = [req EXCEPT ![c] = None]
    /\ reply' = [reply EXCEPT ![c] = None]
    /\ UNCHANGED <<rows, erased, effects>>

-----------------------------------------------------------------------------
Touches(k, m) == k.target = m \/ k.repl = m

\* A purged memory needs a tombstone unless all it had was its own retraction.
NeedsTombstone(m) ==
    \E k \in corrections : k.repl = m \/ (k.target = m /\ k.repl # None)

\* Faulty variant: a row keeps its request when only its replacement is erased.
ScrubTargetOnly(k, m, t) ==
    IF k.target = m
    THEN [target |-> t, repl |-> k.repl, key |-> None, payload |-> None, resp |-> None]
    ELSE [k EXCEPT !.repl = t]

\* An adjacent row with the erased end replaced and every request field nulled.
Scrub(k, m, t) ==
    [target |-> IF k.target = m THEN t ELSE k.target,
     repl |-> IF k.repl = m THEN t ELSE k.repl,
     key |-> None, payload |-> None, resp |-> None]

\* Faulty variant: the DELETE of the retraction does not name its target.
ScrubbedOfRetractions(m, t) ==
    {IF Touches(k, m) THEN Scrub(k, m, t) ELSE k : k \in {k \in corrections : k.repl # None}}

\* The rows after the loop over lineage_rows: a retraction of m is deleted.
Scrubbed(m, t) ==
    {IF Touches(k, m) THEN Scrub(k, m, t) ELSE k :
        k \in {k \in corrections : ~(k.target = m /\ k.repl = None)}}

Ends(k) == {k.target, k.repl} \ {None}

\* Every row of rs that shares an end with a row of s is in s.
Component(rs, s) == \A k \in s, j \in rs : Ends(k) \cap Ends(j) # {} => j \in s

\* _prune_erased_only_lineage: the rows no surviving memory can trace.
ErasedOnly(rs) ==
    {k \in rs : \E s \in SUBSET rs :
        k \in s /\ Component(rs, s) /\ \A j \in s : Ends(j) \cap Mem = {}}

\* Faulty variant: nothing is pruned.
NotPruned(rs) == rs

\* Faulty variant: rows between two tombstones go even inside a chain.
PrunedLocally(rs) == {k \in rs : Ends(k) \cap Mem # {}}

Pruned(rs) == rs \ ErasedOnly(rs)

\* The DELETE at the end of the prune keeps the tombstones some row names.
Referenced(ts, rs) == ts \cap UNION {Ends(k) : k \in rs}

\* Faulty variant: the events of replacements are left as they are.
NoneSanitized(m) == {}

\* _sanitize_correction_replacement_event: replacements made by correcting m.
Sanitized(m) == {k.repl : k \in {k \in corrections : k.target = m}}

Purge(m, t) ==
    /\ m \in live
    /\ t \in Tomb \ tombstones
    /\ live' = live \ {m}
    /\ closed' = closed \ {m}
    /\ stamped' = stamped \ (Sanitized(m) \cup {m})
    /\ corrections' = Pruned(Scrubbed(m, t))
    /\ tombstones' = Referenced(tombstones \cup (IF NeedsTombstone(m) THEN {t} ELSE {}),
                                corrections')
    /\ erased' = erased \cup {m}
    /\ UNCHANGED <<callers, effects>>

-----------------------------------------------------------------------------
Next ==
    \/ \E m \in Mem, bounded \in BOOLEAN : Observe(m, bounded)
    \/ \E c \in Client :
        \/ \E r \in Request : Call(c, r)
        \/ PreCheck(c)
        \/ ReplayLocked(c)
        \/ RefuseMissing(c)
        \/ RefuseSuperseded(c)
        \/ Supersede(c)
        \/ Leave(c)
    \/ \E m \in Mem, t \in Tomb : Purge(m, t)

Spec == Init /\ [][Next]_vars

-----------------------------------------------------------------------------
\* Every variable keeps its shape, and the caller's program counter tells
\* which of its request and reply are set.
TypeOK ==
    /\ live \subseteq Mem /\ erased \subseteq Mem
    /\ closed \subseteq live
    /\ stamped \subseteq live
    /\ live \cap erased = {}
    /\ corrections \subseteq Correction
    /\ tombstones \subseteq Tomb
    /\ pc \in [Client -> {"idle", "called", "checked", "answered"}]
    /\ req \in [Client -> Request \cup {None}]
    /\ reply \in [Client -> Reply \cup {None}]
    /\ \A c \in Client : pc[c] # "idle" => req[c] \in Request
    /\ effects \in [Mem -> Nat]

\* The four unique indexes over the ends of a correction, and the one over
\* its key, never have to refuse a write: trace may follow one row out of and
\* one row into every node.
LineageIsLinear ==
    \A k, j \in corrections :
        (k.target = j.target \/ (k.repl # None /\ k.repl = j.repl)
          \/ (k.key # None /\ k.key = j.key)) => k = j

\* No row of corrections and no reply it would replay names a memory that was
\* purged, whichever end of the correction it stood at and however many
\* corrections surrounded it.
NoErasedIdentifier ==
    \A k \in corrections :
        /\ Ends(k) \cap erased = {}
        /\ k.payload # None => k.payload.target \in live
        /\ k.resp # None => {k.resp.superseded, k.resp.repl} \subseteq live \cup {None}

\* A tombstone stands only where a surviving memory can trace it: each one is
\* named by a row, and no group of rows is left without a memory.
TombstonesTraceable ==
    /\ tombstones = Tomb \cap UNION {Ends(k) : k \in corrections}
    /\ ErasedOnly(corrections) = {}

\* A memory is superseded at most once, ever: concurrent calls, retries under
\* the same or another key, and a purge that frees the key change nothing.
SupersededOnce == \A m \in Mem : effects[m] <= 1

\* A replacement's event keeps the origin its correction was made from only
\* while that correction is on record in full; purging the memory it
\* replaced takes the origin away.
OriginFollowsCorrection ==
    \A m \in stamped : \E k \in corrections : k.repl = m /\ k.key # None

\* A caller whose own correction is on record is told so: it never learns of
\* its own success as a conflict, even when another attempt of the same
\* request committed between its two lookups.
OwnSuccessIsReplayed ==
    [][\A c \in Client :
          (reply'[c] # reply[c] /\ reply'[c] # None /\ reply'[c].kind = "already_superseded")
            => ~\E k \in corrections :
                  k.key = req[c].key /\ k.payload = PayloadOf(req[c])]_vars

\* A reply of success names the target and the replacement as they stand when
\* it is given: neither is an erased id, and the target has exactly one effect.
RepliesAreCurrent ==
    [][\A c \in Client :
          (reply'[c] # reply[c] /\ reply'[c] # None /\ reply'[c].kind = "ok")
            => /\ reply'[c].resp.superseded = req[c].target
               /\ {reply'[c].resp.superseded, reply'[c].resp.repl} \subseteq live' \cup {None}
               /\ effects'[req[c].target] = 1]_vars

\* Corrections are append-only: only a purge removes or rewrites a row, and
\* then only rows of the chain it purges from lose what they said.
AppendOnly ==
    [][\A k \in corrections \ corrections' :
          \E m \in erased' \ erased :
              \/ Touches(k, m)
              \/ Ends(k) \cap Mem = {}]_vars

\* The log of corrections as a whole: rows are unique at both ends and in
\* their key, a memory is superseded at most once, a tombstone stands where it
\* can be traced, and an origin is kept only while its correction is.
LineageIsSound ==
    LineageIsLinear /\ SupersededOnce /\ TombstonesTraceable /\ OriginFollowsCorrection

\* What a caller is told: its own success is never a conflict, and a success
\* names memories that are there.
RepliesAreTrue == OwnSuccessIsReplayed /\ RepliesAreCurrent
=============================================================================
